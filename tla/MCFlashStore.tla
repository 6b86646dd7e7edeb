---------------------------- MODULE MCFlashStore ----------------------------
(* Instances of FlashStore for TLC: the values are in the .cfg files.      *)
EXTENDS FlashStore
=============================================================================
