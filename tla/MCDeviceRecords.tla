--------------------------- MODULE MCDeviceRecords ---------------------------
(* Instances of DeviceRecords for model checking.                          *)
EXTENDS DeviceRecords, TLC

\* Neither the phones nor the keys are told apart.
Alike == {p @@ q : p \in Permutations(Mobiles), q \in Permutations(Keys)}
==============================================================================
