------------------------------- MODULE MCOta -------------------------------
(* Small instances of Ota: a cache of two units, a partition of two sectors. *)
EXTENDS Ota

\* Seven units for the app, three for the 4G module.
TwoImages == [s \in Sources |-> IF s = "BLE" THEN 7 ELSE 3]
SmallImages == [s \in Sources |-> IF s = "BLE" THEN 3 ELSE 1]
EachAlone == {{"BLE"}, {"LTE"}}
LteOnly == {{"LTE"}}
Any == {{"BLE"}, {"LTE"}, {"BLE", "LTE"}}
=============================================================================
