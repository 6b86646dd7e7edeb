---------------------------- MODULE MCScanUpload ----------------------------
(* Instances of ScanUpload for TLC: table sizes and capture bounds by type. *)
EXTENDS ScanUpload

Tables(tag, mac) == [t \in ScanTypes |-> IF t = "TAG" THEN tag ELSE mac]
OneEntry   == Tables(1, 1)
TwoEntries == Tables(2, 1)

Captured(tag, mac, th, bp) ==
  [t \in Types |-> CASE t = "TAG" -> tag [] t = "MAC" -> mac
                     [] t = "TH" -> th [] t = "BP" -> bp]
ScanRecs   == Captured(3, 1, 1, 0)   \* a full TAG table, a MAC round, a sample
BothSensors == Captured(1, 0, 1, 1)
=============================================================================
