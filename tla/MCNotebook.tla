------------------------------ MODULE MCNotebook ------------------------------
(* Notes of one and two units, over a notebook file that is there already. *)
EXTENDS Notebook
MCPayload == Seq(Note)
MCGenesis == <<[n |-> 0, size |-> 1]>>
===============================================================================
