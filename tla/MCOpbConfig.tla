----------------------------- MODULE MCOpbConfig -----------------------------
(* Instances of OpbConfig for model checking.                              *)
EXTENDS OpbConfig

Empty == [id |-> "", len |-> 0]

ShortNames == {[id |-> "x", len |-> 3]}

\* The longest the record holds, the longest the characteristic
\* takes, and one too long.
LongNames == {[id |-> "x", len |-> 31], [id |-> "x", len |-> 32], [id |-> "x", len |-> 33]}
==============================================================================
