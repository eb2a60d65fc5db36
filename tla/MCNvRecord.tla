----------------------------- MODULE MCNvRecord -----------------------------
(* NvRecord for TLC: the constants are given in the configurations.        *)
EXTENDS NvRecord
=============================================================================
