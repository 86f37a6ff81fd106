-------------------------------- MODULE MCTether --------------------------------
(* The tether with a few prompts and senses. *)
EXTENDS Tether
================================================================================
