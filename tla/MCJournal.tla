------------------------------- MODULE MCJournal -------------------------------
(* The journal over three small texts and one too long to seal. *)
EXTENDS Journal
CONSTANTS g, t1, t2, big
MCPayload == {g, t1, t2, big}
MCOversize == {big}
================================================================================
