---------------------------- MODULE MCBlePacket ----------------------------
(* Small instances of BlePacket for TLC; the constants are in the .cfg files. *)
EXTENDS BlePacket
=============================================================================
