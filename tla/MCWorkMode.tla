---------------------------- MODULE MCWorkMode ----------------------------
(* Small instances of WorkMode for TLC; the other constants are in the .cfg files. *)
EXTENDS WorkMode

\* sub-modes: no reports at rest, and a module that sleeps between those of a journey
AwakeOnJourneys == [s \in {"STATIC", "MOTION"} |-> IF s = "STATIC" THEN "no_report" ELSE "sleep"]
=============================================================================
