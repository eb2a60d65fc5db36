---------------------------- MODULE MCKeyEvents ----------------------------
(* TLC instance of KeyEvents. *)
EXTENDS KeyEvents, TLC

\* A different action for each gesture, so that none is taken for another.
Actions == ("CLICK" :> "PLAY_PAUSE") @@ ("DOUBLECLICK" :> "NEXT_TRACK")
           @@ ("TRIPLECLICK" :> "VOLUME_UP") @@ ("LONGPRESS" :> "TOGGLE_ANC")
=============================================================================
