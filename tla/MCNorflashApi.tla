---------------------------- MODULE MCNorflashApi ----------------------------
(* Instances of NorflashApi for model checking.                            *)
EXTENDS NorflashApi, TLC

\* Module 0 has two sectors, module 1 has one.
ThreeSectors == {<<0, 0>>, <<0, 1>>, <<1, 0>>}
TwoSectors   == {<<0, 0>>, <<1, 0>>}

\* The contents that clients write are interchangeable.
Interchangeable == Permutations(Values)
==============================================================================
