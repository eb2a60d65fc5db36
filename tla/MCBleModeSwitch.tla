-------------------------- MODULE MCBleModeSwitch --------------------------
(* TLC instance of BleModeSwitch. *)
EXTENDS BleModeSwitch
=============================================================================
