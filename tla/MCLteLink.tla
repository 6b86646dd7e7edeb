----------------------------- MODULE MCLteLink -----------------------------
(* Small instances of LteLink for TLC; the constants are in the .cfg files. *)
EXTENDS LteLink
=============================================================================
