------------------------------ MODULE DurableCell ------------------------------
(***************************************************************************)
(* What the memory journal of mind/src/journal.rs and core/src/main.rs     *)
(* promises its callers: one durable cell.  A store that answers "kept"    *)
(* has replaced the cell; a store that was refused, or cut short by power  *)
(* loss, leaves either the text that was there or the text that was being  *)
(* stored, never a third thing; a boot wakes with exactly what the cell    *)
(* holds.  Module Journal implements it with two slots on a FAT volume.    *)
(***************************************************************************)
CONSTANTS Payload,   \* the texts a caller may store
          Genesis    \* what a key that never stored anything loads

VARIABLES cell,      \* the text the next boot wakes with
          asked,     \* the text of the latest store
          phase,     \* "off", "ready" or "storing"
          told,      \* what the latest store answered: "nothing", "kept", "refused"
          woke       \* the text the current life woke with

vars == <<cell, asked, phase, told, woke>>

Init == /\ cell = Genesis
        /\ asked = Genesis
        /\ phase = "off"
        /\ told = "nothing"
        /\ woke = Genesis

\* The cell may or may not have taken a text whose store did not succeed.
MayHaveTaken == cell' \in {cell} \cup (IF phase = "storing" THEN {asked} ELSE {})

Ask(p) == /\ phase = "ready"
          /\ phase' = "storing"
          /\ asked' = p
          /\ UNCHANGED <<cell, told, woke>>

Keep == /\ phase = "storing"
        /\ phase' = "ready"
        /\ cell' = asked
        /\ told' = "kept"
        /\ UNCHANGED <<asked, woke>>

Refuse == /\ phase \in {"ready", "storing"}
          /\ phase' = "ready"
          /\ MayHaveTaken
          /\ told' = "refused"
          /\ UNCHANGED <<asked, woke>>

PowerLoss == /\ phase # "off"
             /\ phase' = "off"
             /\ MayHaveTaken
             /\ told' = "nothing"
             /\ UNCHANGED <<asked, woke>>

Wake == /\ phase = "off"
        /\ phase' = "ready"
        /\ woke' = cell
        /\ UNCHANGED <<cell, asked, told>>

Next == \/ \E p \in Payload : Ask(p)
        \/ Keep
        \/ Refuse
        \/ PowerLoss
        \/ Wake

Spec == Init /\ [][Next]_vars
================================================================================
