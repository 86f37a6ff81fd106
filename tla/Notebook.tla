------------------------------- MODULE Notebook -------------------------------
(***************************************************************************)
(* The notebook: notes.write of run_internal_verb (core/src/main.rs) over  *)
(* the second pair of journal slots.  A note is added by loading all of    *)
(* them, appending, letting the oldest fall off and storing all of them.   *)
(*                                                                         *)
(* The texts of the journal are here sequences of notes.  A note is known  *)
(* by the number of its request, 0 being what the notebook file held that  *)
(* was there before the journal.                                           *)
(***************************************************************************)
EXTENDS Journal, SequencesExt

CONSTANTS Size,       \* how long a note can be
          Capacity,   \* how long the notes can be together
          MaxNotes    \* bound: how many notes are asked for

ASSUME NotebookAssumption == /\ Size \subseteq 1 .. Capacity
                             /\ Capacity \in Nat
                             /\ MaxNotes \in Nat

VARIABLE said   \* history: each request's note, and what became of it

Note == [n : 0 .. MaxNotes, size : Size]
Weight(text) ==
  LET sum[i \in 0 .. Len(text)] == IF i = 0 THEN 0 ELSE sum[i - 1] + text[i].size
  IN sum[Len(text)]

FitOnce(text) == IF Weight(text) > Capacity THEN Tail(text) ELSE text   \* mutant: if, not while

\* The oldest notes fall off until the rest fits.
Fit(text) ==
  LET fits == {k \in 1 .. Len(text) + 1 : Weight(SubSeq(text, k, Len(text))) <= Capacity}
  IN SubSeq(text, CHOOSE k \in fits : \A j \in fits : k <= j, Len(text))

NotebookInit == Init /\ said = << >>

\* journal_load of the notes, which like the store's own reads may see a slot
\* that is there as an empty one.
Prior == {Newest(a, b, [s \in Slot |-> file[s].text]) : a \in Seen("A"), b \in Seen("B")}

\* mutant: what the notebook says already is not loaded
WriteAlone(size) ==
  LET note == [n |-> Len(said) + 1, size |-> size]
  IN /\ Len(said) < MaxNotes
     /\ Store(<<note>>)
     /\ said' = Append(said, [note |-> note, fate |-> "asked"])

WriteNote(size) ==
  LET note == [n |-> Len(said) + 1, size |-> size]
  IN /\ Len(said) < MaxNotes
     /\ \E prior \in Prior : Store(Fit(Append(prior, note)))
     /\ said' = Append(said, [note |-> note, fate |-> "asked"])

\* The firmware calls of the store, the last of which is answered in words.
StoreNotes ==
  /\ WriteFile
  /\ said' = IF pc' = "idle" THEN [said EXCEPT ![Len(said)].fate = told'] ELSE said

\* Nothing of the notebook is loaded at boot.
PowerOn ==
  /\ pc = "off"
  /\ pc' = "idle"
  /\ UNCHANGED <<file, job, told, woke, said>>

NotebookNext ==
  \/ \E size \in Size : WriteNote(size)
  \/ StoreNotes
  \/ PowerLoss /\ UNCHANGED said
  \/ PowerOn

NotebookSpec == NotebookInit /\ [][NotebookNext]_<<vars, said>>
--------------------------------------------------------------------------------
Holds(n) == \E k \in DOMAIN Loadable : Loadable[k].n = n
SaidFrom(n) == SubSeq([k \in DOMAIN said |-> said[k].note], n, Len(said))

(***************************************************************************)
(* NotesFit: however its size grows by retries, failures and power losses, *)
(* the notebook never holds more than its capacity ("the notebook stays    *)
(* bounded: oldest lines fall off first").                                 *)
(***************************************************************************)
NotesFit == Weight(Loadable) <= Capacity

(***************************************************************************)
(* KeptNotesStay: a note that was told to be written can be read until the *)
(* notes asked for since fill the notebook without it, whatever power loss *)
(* or failing call came in between; what can be read stands in the order   *)
(* it was said in.                                                         *)
(***************************************************************************)
KeptNotesStay ==
  /\ \A k \in DOMAIN said :
       said[k].fate = "kept" => Holds(k) \/ Weight(SaidFrom(k)) > Capacity
  /\ \A i, k \in DOMAIN Loadable : i < k => Loadable[i].n < Loadable[k].n

(***************************************************************************)
(* NotesOnlyGrow: a step adds one note at the end and takes notes from the *)
(* front only, and those only to make room: no step, and no power loss in  *)
(* any of them, brings an older notebook back.                             *)
(***************************************************************************)
NotesOnlyGrow ==
  [][Loadable' # Loadable =>
       /\ Loadable' = Fit(Append(Loadable, Last(said).note))
       /\ pc = "write"]_<<vars, said>>
================================================================================
