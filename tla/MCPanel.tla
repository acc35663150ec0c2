-------------------------------- MODULE MCPanel --------------------------------
(***************************************************************************)
(* Instances of Panel for TLC: an encoder that turns one detent either way. *)
(***************************************************************************)
EXTENDS Panel

MCDetents == {1, -1}
================================================================================
