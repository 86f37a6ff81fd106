-------------------------------- MODULE Journal --------------------------------
(***************************************************************************)
(* The two-slot memory journal.  mind/src/journal.rs seals, validates and  *)
(* chooses a slot; journal_load and journal_store in core/src/main.rs run  *)
(* it over the key's FAT volume through the firmware file calls that       *)
(* core/src/console.rs wraps: a replace is delete, create, write, and      *)
(* power may go between or during any of them.                             *)
(*                                                                         *)
(* A slot file is "absent" (no directory entry), "torn" (anything open()   *)
(* rejects: empty, short, CRC mismatch) or "sealed" (decodes to a          *)
(* generation and a text).  Generation 0 stands for open() = None.         *)
(***************************************************************************)
EXTENDS Naturals

CONSTANTS Payload,      \* texts a caller may pass to journal_store
          Oversize,     \* those longer than journal::MAX_PAYLOAD
          Genesis,      \* what journal_load falls back to: the legacy file, or ""
          MaxGen,       \* bound: no store starts once a generation reaches it
          ReadMayFail   \* TRUE: one firmware read may fail transiently

ASSUME JournalAssumption == /\ Oversize \subseteq Payload
                            /\ Genesis \in Payload
                            /\ MaxGen \in Nat
                            /\ ReadMayFail \in BOOLEAN

VARIABLES file,   \* file[s]: the slot file s on the key medium
          pc,     \* where the core is: "off", "idle", or in write_file
          job,    \* the record being written and its target slot
          told,   \* what the latest journal_store answered
          woke    \* the text journal_load returned at this life's boot

vars == <<file, pc, job, told, woke>>

Slot == {"A", "B"}
Other(s) == IF s = "A" THEN "B" ELSE "A"

Unreadable(kind) == [kind |-> kind, gen |-> 0, text |-> Genesis]
Absent == Unreadable("absent")
Torn == Unreadable("torn")
Sealed(gen, text) == [kind |-> "sealed", gen |-> gen, text |-> text]

\* journal::open: the generation a slot's bytes decode to, 0 for None.
Open(f) == IF f.kind = "sealed" THEN f.gen ELSE 0

\* Two ways to get plan_write wrong, for the checks' mutants.
PlanOverNewest(a, b) ==
  IF a = 0 /\ b = 0 THEN [slot |-> "A", gen |-> 1]
  ELSE IF a >= b THEN [slot |-> "A", gen |-> a + 1]
  ELSE [slot |-> "B", gen |-> b + 1]
PlanSameGeneration(a, b) ==
  IF a = 0 /\ b = 0 THEN [slot |-> "A", gen |-> 1]
  ELSE IF a >= b THEN [slot |-> "B", gen |-> a]
  ELSE [slot |-> "A", gen |-> b]

\* journal::plan_write on the two decoded generations.
PlanWrite(a, b) ==
  IF a = 0 /\ b = 0 THEN [slot |-> "A", gen |-> 1]
  ELSE IF a >= b THEN [slot |-> "B", gen |-> a + 1]
  ELSE [slot |-> "A", gen |-> b + 1]

\* journal::newest, then journal_load's fallback to the legacy file.
Newest(a, b, text) ==
  IF a = 0 /\ b = 0 THEN Genesis
  ELSE IF a >= b THEN text["A"] ELSE text["B"]

Loadable == Newest(Open(file["A"]), Open(file["B"]), [s \in Slot |-> file[s].text])

\* The generations one pass of reads may see: read_file returns None on an
\* error and its callers take that for an empty slot (unwrap_or(0)).
Seen(s) == {Open(file[s])} \cup (IF ReadMayFail THEN {0} ELSE {})

Writing == pc \in {"delete", "create", "write"}

(***************************************************************************)
(* TypeOK: the variables keep their types, and no text that open() would   *)
(* refuse to load is under way to a slot or sealed in one (journal_store:  *)
(* "never write a record open() would refuse to load").                    *)
(***************************************************************************)
TypeOK ==
  /\ file \in [Slot -> [kind : {"absent", "torn", "sealed"}, gen : Nat, text : Payload]]
  /\ \A s \in Slot : file[s].kind = "sealed" => file[s].text \notin Oversize
  /\ pc \in {"off", "idle", "delete", "create", "write"}
  /\ job \in [slot : Slot, gen : Nat, text : Payload]
  /\ Writing => job.text \notin Oversize
  /\ told \in {"nothing", "kept", "refused"}
  /\ woke \in Payload

Init ==
  /\ file = [s \in Slot |-> Absent]
  /\ pc = "off"
  /\ job = [slot |-> "A", gen |-> 0, text |-> Genesis]
  /\ told = "nothing"
  /\ woke = Genesis

Answer(t) == /\ pc' = "idle"
             /\ told' = t

StoreUnmeasured(text) ==   \* mutant: the text's length is not looked at
  /\ pc = "idle"
  /\ \A s \in Slot : file[s].gen < MaxGen
  /\ \E a \in Seen("A"), b \in Seen("B") :
       LET plan == PlanWrite(a, b)
       IN job' = [slot |-> plan.slot, gen |-> plan.gen, text |-> text]
  /\ pc' = "delete"
  /\ UNCHANGED <<file, told, woke>>

\* journal_store up to its call of write_file: read both slots, plan, seal.
Store(text) ==
  /\ pc = "idle"
  /\ text \notin Oversize
  /\ \A s \in Slot : file[s].gen < MaxGen
  /\ \E a \in Seen("A"), b \in Seen("B") :
       LET plan == PlanWrite(a, b)
       IN job' = [slot |-> plan.slot, gen |-> plan.gen, text |-> text]
  /\ pc' = "delete"
  /\ UNCHANGED <<file, told, woke>>

\* A payload open() would refuse to load is never written.
StoreRefused(text) ==
  /\ pc = "idle"
  /\ text \in Oversize
  /\ Answer("refused")
  /\ UNCHANGED <<file, job, woke>>

\* write_file, first half: the old slot file is opened and deleted.  The
\* status of delete() is not looked at, so a medium that refuses keeps it.
DeleteOld ==
  /\ pc = "delete"
  /\ file' \in {file, [file EXCEPT ![job.slot] = Absent]}
  /\ pc' = "create"
  /\ UNCHANGED <<job, told, woke>>

\* write_file opens the slot file afresh; an undeleted one is opened as it is.
CreateNew ==
  /\ pc = "create"
  /\ file' = IF file[job.slot].kind = "absent"
             THEN [file EXCEPT ![job.slot] = Torn] ELSE file
  /\ pc' = "write"
  /\ UNCHANGED <<job, told, woke>>

\* The volume or the file does not open: write_file returns false at once.
OpenFails ==
  /\ pc \in {"delete", "create"}
  /\ Answer("refused")
  /\ UNCHANGED <<file, job, woke>>

\* Whatever a write that is not known to have finished leaves in the slot.
AfterPartialWrite ==
  file' \in {file, [file EXCEPT ![job.slot] = Torn],
             [file EXCEPT ![job.slot] = Sealed(job.gen, job.text)]}

WriteAll ==
  /\ pc = "write"
  /\ file' = [file EXCEPT ![job.slot] = Sealed(job.gen, job.text)]
  /\ Answer("kept")
  /\ UNCHANGED <<job, woke>>

\* An error status or a short count: write_file returns false.
WriteFails ==
  /\ pc = "write"
  /\ AfterPartialWrite
  /\ Answer("refused")
  /\ UNCHANGED <<job, woke>>

PowerLoss ==
  /\ pc # "off"
  /\ pc' = "off"
  /\ IF pc = "write" THEN AfterPartialWrite ELSE UNCHANGED file
  /\ told' = "nothing"
  /\ UNCHANGED <<job, woke>>

\* journal_load at boot.
Boot ==
  /\ pc = "off"
  /\ pc' = "idle"
  /\ \E a \in Seen("A"), b \in Seen("B") :
       woke' = Newest(a, b, [s \in Slot |-> file[s].text])
  /\ UNCHANGED <<file, job, told>>

WriteFile == DeleteOld \/ CreateNew \/ OpenFails \/ WriteAll \/ WriteFails

Next ==
  \/ \E text \in Payload : Store(text) \/ StoreRefused(text)
  \/ WriteFile
  \/ PowerLoss
  \/ Boot

Spec == Init /\ [][Next]_vars
--------------------------------------------------------------------------------
(***************************************************************************)
(* NewestNeverAtRisk: while a store is deleting, creating and writing, the *)
(* slot it works on is not the one the next boot would load from, unless   *)
(* there is nothing to lose (core/src/main.rs journal_store: "The newest   *)
(* survivable memory is never the one at risk").                           *)
(***************************************************************************)
NewestNeverAtRisk ==
  pc \in {"delete", "create"} =>
    \/ Open(file[job.slot]) < Open(file[Other(job.slot)])
    \/ Open(file[job.slot]) = 0

(***************************************************************************)
(* NoGenerationTwice: two readable slots never carry the same generation,  *)
(* so the tie-breaks of plan_write and newest never choose between two     *)
(* different selves.                                                       *)
(***************************************************************************)
NoGenerationTwice ==
  (file["A"].kind = "sealed" /\ file["B"].kind = "sealed")
     => file["A"].gen # file["B"].gen

(***************************************************************************)
(* Cell: with reads that do not fail, the journal is a durable cell: see   *)
(* DurableCell.  The text the next boot loads is computed from the slots.  *)
(***************************************************************************)
Phase == IF pc = "off" THEN "off" ELSE IF pc = "idle" THEN "ready" ELSE "storing"

Cell == INSTANCE DurableCell WITH
          cell <- Loadable,
          asked <- job.text,
          phase <- Phase

ImplementsCell == Cell!Spec
================================================================================
