----------------------------- MODULE NotebookProofs -----------------------------
(***************************************************************************)
(* Theorems about module Journal, for every set of texts, every generation *)
(* bound and any number of stores, refusals, power losses and boots; and,  *)
(* on top of them, about module Notebook, which writes through it: for     *)
(* every capacity, any sizes of notes, and any number of notes, failing    *)
(* calls and power losses.                                                 *)
(***************************************************************************)
EXTENDS Notebook, SelectionProofs

---------------------------------------------------------------------------
(* The journal.                                                            *)

\* The firmware's reads do not fail: what the theorems below assume.  The
\* run journal_read_error shows why it is needed.
ReadsAreSound == ReadMayFail = FALSE

\* Generation 0 is exactly "does not decode".
GenerationsReal ==
  \A s \in Slot : file[s].gen > 0 <=> file[s].kind = "sealed"

\* A store in progress works on a slot the next boot does not need, with a
\* generation no readable slot has reached.
PlanSound ==
  Writing =>
    /\ \A s \in Slot : file[s].gen < job.gen
    /\ \/ file[job.slot].gen = 0
       \/ file[job.slot].gen < file[Other(job.slot)].gen

\* The inductive invariant.
IInv == TypeOK /\ GenerationsReal /\ PlanSound /\ NoGenerationTwice

USE DEF Slot

(***************************************************************************)
(* What plan_write returns: never the newest slot, always a new generation *)
(***************************************************************************)
LEMMA PlanWriteSound ==
  ASSUME NEW a \in Nat, NEW b \in Nat
  PROVE  /\ PlanWrite(a, b).slot \in Slot
         /\ PlanWrite(a, b).gen \in Nat
         /\ PlanWrite(a, b).gen > a /\ PlanWrite(a, b).gen > b
         /\ PlanWrite(a, b).slot = "A" => (a = 0 \/ a < b)
         /\ PlanWrite(a, b).slot = "B" => (b = 0 \/ b <= a)
  BY DEF PlanWrite

(***************************************************************************)
(* open() on the three kinds of slot file.                                 *)
(***************************************************************************)
LEMMA OpenIsGen ==
  ASSUME IInv, NEW s \in Slot
  PROVE  Open(file[s]) = file[s].gen
  BY DEF IInv, TypeOK, GenerationsReal, Open

(***************************************************************************)
(* An absent or torn slot file is a slot file of the journal's type.       *)
(***************************************************************************)
LEMMA UnreadableTypes ==
  /\ Absent = [kind |-> "absent", gen |-> 0, text |-> Genesis]
  /\ Torn = [kind |-> "torn", gen |-> 0, text |-> Genesis]
  /\ Genesis \in Payload
  BY JournalAssumption DEF Absent, Torn, Unreadable

(***************************************************************************)
(* Two absent slots, as on a new key, satisfy the inductive invariant.     *)
(***************************************************************************)
LEMMA InitIInv == Init => IInv
  BY UnreadableTypes
  DEF Init, IInv, TypeOK, GenerationsReal, PlanSound, NoGenerationTwice, Writing

(***************************************************************************)
(* The three things that can happen to the file a store works on, each of  *)
(* which keeps every readable generation apart.                            *)
(***************************************************************************)
LEMMA SlotChangeKeepsIInv ==
  ASSUME IInv, Writing,
         NEW f \in {file[job.slot], Absent, Torn, Sealed(job.gen, job.text)},
         file' = [file EXCEPT ![job.slot] = f]
  PROVE  /\ file' \in [Slot -> [kind : {"absent", "torn", "sealed"}, gen : Nat, text : Payload]]
         /\ \A s \in Slot : file'[s].kind = "sealed" => file'[s].text \notin Oversize
         /\ GenerationsReal'
         /\ NoGenerationTwice'
  <1>1. file \in [Slot -> [kind : {"absent", "torn", "sealed"}, gen : Nat, text : Payload]]
        /\ job \in [slot : Slot, gen : Nat, text : Payload]
    BY DEF IInv, TypeOK
  <1>2. f \in [kind : {"absent", "torn", "sealed"}, gen : Nat, text : Payload]
    BY <1>1, UnreadableTypes DEF Sealed
  <1>3. file' \in [Slot -> [kind : {"absent", "torn", "sealed"}, gen : Nat, text : Payload]]
    BY <1>1, <1>2
  <1>4. job.gen > 0 /\ \A s \in Slot : file[s].gen < job.gen
    BY <1>1 DEF IInv, PlanSound
  <1>5. f.gen > 0 <=> f.kind = "sealed"
    BY <1>1, <1>4, UnreadableTypes DEF IInv, GenerationsReal, Sealed
  <1>6. GenerationsReal'
    BY <1>1, <1>2, <1>5 DEF IInv, GenerationsReal
  <1>7. NoGenerationTwice'
    <2>1. f = file[job.slot] \/ f.kind # "sealed" \/ f.gen = job.gen
      BY UnreadableTypes DEF Sealed
    <2>2. QED BY <1>1, <1>2, <1>4, <2>1 DEF IInv, NoGenerationTwice
  <1>8. f.kind = "sealed" => f.text \notin Oversize
    BY <1>1, UnreadableTypes DEF IInv, TypeOK, Sealed
  <1>9. \A s \in Slot : file'[s].kind = "sealed" => file'[s].text \notin Oversize
    BY <1>1, <1>8 DEF IInv, TypeOK
  <1>10. QED BY <1>3, <1>6, <1>7, <1>9

(***************************************************************************)
(* No step of a store, a boot or a power loss leaves the invariant, if the *)
(* reads of journal_store and journal_load do not fail.                    *)
(***************************************************************************)
LEMMA NextIInv ==
  ASSUME ReadsAreSound, IInv, [Next]_vars
  PROVE  IInv'
  <1> USE DEF IInv
  <1>1. ASSUME NEW text \in Payload, Store(text) PROVE IInv'
    <2>1. PICK a \in Seen("A"), b \in Seen("B") :
            job' = [slot |-> PlanWrite(a, b).slot, gen |-> PlanWrite(a, b).gen,
                    text |-> text]
      BY <1>1 DEF Store
    <2>2. a = file["A"].gen /\ b = file["B"].gen
      BY <2>1, OpenIsGen DEF Seen, ReadsAreSound
    <2>3. a \in Nat /\ b \in Nat
      BY <2>2 DEF TypeOK
    <2>4. file' = file /\ pc' = "delete" /\ told' = told /\ woke' = woke
      BY <1>1 DEF Store
    <2>5. TypeOK'
      BY <1>1, <2>1, <2>3, <2>4, PlanWriteSound DEF Store, TypeOK
    <2>6. PlanSound'
      <3>1. \A s \in Slot : file[s].gen < job'.gen
        BY <2>1, <2>2, <2>3, PlanWriteSound
      <3>2. file[job'.slot].gen = 0 \/ file[job'.slot].gen < file[Other(job'.slot)].gen
        <4>1. CASE PlanWrite(a, b).slot = "A"
          BY <4>1, <2>1, <2>2, <2>3, PlanWriteSound DEF Other
        <4>2. CASE PlanWrite(a, b).slot = "B"
          <5>1. b = 0 \/ b < a
            BY <4>2, <2>2, <2>3, PlanWriteSound
               DEF NoGenerationTwice, GenerationsReal, TypeOK
          <5>2. QED BY <5>1, <4>2, <2>1, <2>2 DEF Other
        <4>3. QED BY <4>1, <4>2, <2>3, PlanWriteSound
      <3>3. QED BY <2>4, <3>1, <3>2 DEF PlanSound
    <2>7. GenerationsReal' /\ NoGenerationTwice'
      BY <2>4 DEF GenerationsReal, NoGenerationTwice
    <2>8. QED BY <2>5, <2>6, <2>7
  <1>2. ASSUME NEW text \in Payload, StoreRefused(text) PROVE IInv'
    BY <1>2 DEF StoreRefused, Answer, TypeOK, GenerationsReal, PlanSound,
                NoGenerationTwice, Writing
  <1>3. CASE DeleteOld
    <2>1. PICK f \in {file[job.slot], Absent} : file' = [file EXCEPT ![job.slot] = f]
      BY <1>3 DEF DeleteOld, TypeOK
    <2>2. Writing /\ Writing' /\ job' = job
      BY <1>3 DEF DeleteOld, Writing
    <2>3. TypeOK' /\ GenerationsReal' /\ NoGenerationTwice'
      BY <1>3, <2>1, <2>2, SlotChangeKeepsIInv DEF DeleteOld, TypeOK
    <2>4. PlanSound'
      BY <2>1, <2>2, UnreadableTypes DEF PlanSound, TypeOK, Other
    <2>5. QED BY <2>3, <2>4
  <1>4. CASE CreateNew
    <2>1. PICK f \in {file[job.slot], Torn} : file' = [file EXCEPT ![job.slot] = f]
      BY <1>4 DEF CreateNew, TypeOK
    <2>2. Writing /\ Writing' /\ job' = job
      BY <1>4 DEF CreateNew, Writing
    <2>3. TypeOK' /\ GenerationsReal' /\ NoGenerationTwice'
      BY <1>4, <2>1, <2>2, SlotChangeKeepsIInv DEF CreateNew, TypeOK
    <2>4. PlanSound'
      BY <2>1, <2>2, UnreadableTypes DEF PlanSound, TypeOK, Other
    <2>5. QED BY <2>3, <2>4
  <1>5. CASE OpenFails
    BY <1>5 DEF OpenFails, Answer, TypeOK, GenerationsReal, PlanSound,
                NoGenerationTwice, Writing
  <1>6. CASE WriteAll
    <2>1. TypeOK' /\ GenerationsReal' /\ NoGenerationTwice'
      BY <1>6, SlotChangeKeepsIInv DEF WriteAll, Answer, Writing, TypeOK
    <2>2. QED BY <1>6, <2>1 DEF WriteAll, Answer, PlanSound, Writing
  <1>7. CASE WriteFails
    <2>1. PICK f \in {file[job.slot], Torn, Sealed(job.gen, job.text)} :
            file' = [file EXCEPT ![job.slot] = f]
      BY <1>7 DEF WriteFails, AfterPartialWrite, TypeOK
    <2>2. TypeOK' /\ GenerationsReal' /\ NoGenerationTwice'
      BY <1>7, <2>1, SlotChangeKeepsIInv DEF WriteFails, Answer, Writing, TypeOK
    <2>3. QED BY <1>7, <2>2 DEF WriteFails, Answer, PlanSound, Writing
  <1>8. CASE PowerLoss
    <2>1. CASE pc = "write"
      <3>1. PICK f \in {file[job.slot], Torn, Sealed(job.gen, job.text)} :
              file' = [file EXCEPT ![job.slot] = f]
        BY <1>8, <2>1 DEF PowerLoss, AfterPartialWrite, TypeOK
      <3>2. TypeOK' /\ GenerationsReal' /\ NoGenerationTwice'
        BY <1>8, <2>1, <3>1, SlotChangeKeepsIInv DEF PowerLoss, Writing, TypeOK
      <3>3. QED BY <1>8, <3>2 DEF PowerLoss, PlanSound, Writing
    <2>2. CASE pc # "write"
      BY <1>8, <2>2 DEF PowerLoss, TypeOK, GenerationsReal, PlanSound,
                        NoGenerationTwice, Writing
    <2>3. QED BY <2>1, <2>2
  <1>9. CASE Boot
    <2>1. woke' \in Payload
      BY <1>9, UnreadableTypes DEF Boot, Newest, TypeOK
    <2>2. QED BY <1>9, <2>1 DEF Boot, TypeOK, GenerationsReal, PlanSound,
                                NoGenerationTwice, Writing
  <1>10. CASE UNCHANGED vars
    BY <1>10 DEF vars, TypeOK, GenerationsReal, PlanSound, NoGenerationTwice, Writing
  <1>11. QED
    BY <1>1, <1>2, <1>3, <1>4, <1>5, <1>6, <1>7, <1>8, <1>9, <1>10
    DEF Next, WriteFile

(***************************************************************************)
(* Invariance: the journal's inductive invariant holds in every state.     *)
(***************************************************************************)
THEOREM Invariance ==
  ASSUME ReadsAreSound
  PROVE  Spec => []IInv
  <1>1. IInv /\ [Next]_vars => IInv'
    BY NextIInv
  <1>2. QED BY InitIInv, <1>1, PTL DEF Spec

(***************************************************************************)
(* TypeCorrect: every variable keeps its type, and no text that open()     *)
(* would refuse is ever sealed.                                            *)
(***************************************************************************)
THEOREM TypeCorrect ==
  ASSUME ReadsAreSound
  PROVE  Spec => []TypeOK
  <1>1. IInv => TypeOK
    BY DEF IInv
  <1>2. QED BY Invariance, <1>1, PTL

(***************************************************************************)
(* NewestSurvives: at no moment of any store does journal_store work on    *)
(* the slot the next boot would load (journal_store's comment: "The newest *)
(* survivable memory is never the one at risk").                           *)
(***************************************************************************)
THEOREM NewestSurvives ==
  ASSUME ReadsAreSound
  PROVE  Spec => []NewestNeverAtRisk
  <1>1. IInv => NewestNeverAtRisk
    BY OpenIsGen DEF IInv, TypeOK, PlanSound, NewestNeverAtRisk, Writing, Other
  <1>2. QED BY Invariance, <1>1, PTL

(***************************************************************************)
(* GenerationsDiffer: plan_write never hands out a generation that a       *)
(* readable slot already carries.                                          *)
(***************************************************************************)
THEOREM GenerationsDiffer ==
  ASSUME ReadsAreSound
  PROVE  Spec => []NoGenerationTwice
  <1>1. IInv => NoGenerationTwice
    BY DEF IInv
  <1>2. QED BY Invariance, <1>1, PTL

(***************************************************************************)
(* While a store works on its slot, what the next boot loads is what it    *)
(* loaded before, until the slot is completely sealed: then it is the      *)
(* stored text.                                                            *)
(***************************************************************************)
LEMMA SlotChangeAndLoadable ==
  ASSUME IInv, Writing
  PROVE  /\ \A f \in {Absent, Torn} :
              file' = [file EXCEPT ![job.slot] = f] => Loadable' = Loadable
         /\ file' = [file EXCEPT ![job.slot] = Sealed(job.gen, job.text)]
              => Loadable' = job.text
  <1>1. /\ file \in [Slot -> [kind : {"absent", "torn", "sealed"}, gen : Nat, text : Payload]]
        /\ job \in [slot : Slot, gen : Nat, text : Payload]
        /\ \A s \in Slot : file[s].gen < job.gen
        /\ file[job.slot].gen = 0 \/ file[job.slot].gen < file[Other(job.slot)].gen
    BY DEF IInv, TypeOK, PlanSound
  <1>2. \A s \in Slot : Open(file[s]) = file[s].gen
    BY OpenIsGen
  <1>3. ASSUME NEW f \in {Absent, Torn}, file' = [file EXCEPT ![job.slot] = f]
        PROVE  Loadable' = Loadable
    <2>1. Open(f) = 0
      BY UnreadableTypes DEF Open
    <2>2. file'[job.slot] = f /\ file'[Other(job.slot)] = file[Other(job.slot)]
      BY <1>1, <1>3 DEF Other
    <2>3. CASE job.slot = "A"
      BY <2>1, <2>2, <2>3, <1>1, <1>2 DEF Loadable, Newest, Other
    <2>4. CASE job.slot = "B"
      BY <2>1, <2>2, <2>4, <1>1, <1>2 DEF Loadable, Newest, Other
    <2>5. QED BY <2>3, <2>4, <1>1
  <1>4. ASSUME file' = [file EXCEPT ![job.slot] = Sealed(job.gen, job.text)]
        PROVE  Loadable' = job.text
    <2>1. Open(Sealed(job.gen, job.text)) = job.gen /\ Sealed(job.gen, job.text).text = job.text
      BY DEF Open, Sealed
    <2>2. /\ file'[job.slot] = Sealed(job.gen, job.text)
          /\ file'[Other(job.slot)] = file[Other(job.slot)]
      BY <1>1, <1>4 DEF Other
    <2>3. CASE job.slot = "A"
      BY <2>1, <2>2, <2>3, <1>1, <1>2 DEF Loadable, Newest, Other
    <2>4. CASE job.slot = "B"
      BY <2>1, <2>2, <2>4, <1>1, <1>2 DEF Loadable, Newest, Other
    <2>5. QED BY <2>3, <2>4, <1>1
  <1>5. QED BY <1>1, <1>3, <1>4

(***************************************************************************)
(* A write that is not known to have finished: the cell has taken the text *)
(* or is as it was.                                                        *)
(***************************************************************************)
LEMMA PartialWriteAndLoadable ==
  ASSUME IInv, pc = "write", AfterPartialWrite
  PROVE  Loadable' \in {Loadable, job.text}
  <1>1. CASE file' = file
    BY <1>1 DEF Loadable
  <1>2. CASE file' # file
    BY <1>2, SlotChangeAndLoadable DEF AfterPartialWrite, Writing
  <1>3. QED BY <1>1, <1>2

USE DEF Cell!vars, Cell!Init, Cell!Next, Cell!MayHaveTaken, Cell!Ask, Cell!Keep,
        Cell!Refuse, Cell!PowerLoss, Cell!Wake, Phase

(***************************************************************************)
(* Every step of the journal is a step of the durable cell, or a stutter.  *)
(***************************************************************************)
LEMMA CellStep ==
  ASSUME ReadsAreSound, IInv, [Next]_vars
  PROVE  [Cell!Next]_(Cell!vars)
  <1>1. ASSUME NEW text \in Payload, Store(text) PROVE Cell!Ask(text)
    BY <1>1 DEF Store, Loadable
  <1>2. ASSUME NEW text \in Payload, StoreRefused(text) PROVE Cell!Refuse
    BY <1>2 DEF StoreRefused, Answer, Loadable
  <1>3. CASE DeleteOld
    <2>1. Loadable' = Loadable
      BY <1>3, SlotChangeAndLoadable DEF DeleteOld, Writing, Loadable
    <2>2. QED BY <1>3, <2>1 DEF DeleteOld
  <1>4. CASE CreateNew
    <2>1. Loadable' = Loadable
      BY <1>4, SlotChangeAndLoadable DEF CreateNew, Writing, Loadable
    <2>2. QED BY <1>4, <2>1 DEF CreateNew
  <1>5. CASE OpenFails
    <2>1. Loadable' = Loadable
      BY <1>5 DEF OpenFails, Loadable
    <2>2. Cell!Refuse
      BY <1>5, <2>1 DEF OpenFails, Answer
    <2>3. QED BY <2>2
  <1>6. CASE WriteAll
    <2>1. Loadable' = job.text
      BY <1>6, SlotChangeAndLoadable DEF WriteAll, Writing
    <2>2. Cell!Keep
      BY <1>6, <2>1 DEF WriteAll, Answer
    <2>3. QED BY <2>2
  <1>7. CASE WriteFails
    <2>1. Loadable' \in {Loadable, job.text}
      BY <1>7, PartialWriteAndLoadable DEF WriteFails
    <2>2. Cell!Refuse
      BY <1>7, <2>1 DEF WriteFails, Answer
    <2>3. QED BY <2>2
  <1>8. CASE PowerLoss
    <2>1. CASE pc = "write"
      <3>1. Loadable' \in {Loadable, job.text}
        BY <1>8, <2>1, PartialWriteAndLoadable DEF PowerLoss
      <3>2. QED BY <1>8, <2>1, <3>1 DEF PowerLoss
    <2>2. CASE pc # "write"
      BY <1>8, <2>2 DEF PowerLoss, Loadable
    <2>3. QED BY <2>1, <2>2
  <1>9. CASE Boot
    <2>1. woke' = Loadable
      BY <1>9, OpenIsGen DEF Boot, Seen, ReadsAreSound, Loadable
    <2>2. Loadable' = Loadable
      BY <1>9 DEF Boot, Loadable
    <2>3. QED BY <1>9, <2>1, <2>2 DEF Boot
  <1>10. CASE UNCHANGED vars
    BY <1>10 DEF vars, Loadable
  <1>11. QED
    BY <1>1, <1>2, <1>3, <1>4, <1>5, <1>6, <1>7, <1>8, <1>9, <1>10
    DEF Next, WriteFile

(***************************************************************************)
(* JournalImplementsCell: through every interruption of every step of      *)
(* every store the two slots behave as one durable cell: a store that      *)
(* answered true has replaced it, a boot wakes with what it holds.         *)
(***************************************************************************)
THEOREM JournalImplementsCell ==
  ASSUME ReadsAreSound
  PROVE  Spec => ImplementsCell
  <1>1. Init => Cell!Init
    BY UnreadableTypes DEF Init, Loadable, Newest, Open
  <1>2. IInv /\ [Next]_vars => [Cell!Next]_(Cell!vars)
    BY CellStep
  <1>3. QED
    BY <1>1, <1>2, Invariance, PTL DEF Spec, ImplementsCell, Cell!Spec

---------------------------------------------------------------------------
(* The notebook.                                                           *)

\* The texts of the journal are notes.
TextsAreNotes == Payload = Seq(Note)

\* The notebook starts empty, or with a file that was there before and fits.
StartsAsFile ==
  /\ Genesis \in Seq(Note) /\ Len(Genesis) <= 1
  /\ \A i \in 1 .. Len(Genesis) : Genesis[i].n = 0
  /\ Weight(Genesis) <= Capacity

Saying == [note : Note, fate : {"asked", "kept", "refused"}]

\* The notes of a text were said in its order.
Sorted(text) == \A i, k \in 1 .. Len(text) : i < k => text[i].n < text[k].n
Has(text, n) == \E i \in 1 .. Len(text) : text[i].n = n

\* Every note of it is as it was said.
Genuine(text) ==
  \A i \in 1 .. Len(text) : /\ text[i].n <= Len(said)
                            /\ text[i].n > 0 => text[i] = said[text[i].n].note

Said == said \in Seq(Saying) /\ \A k \in 1 .. Len(said) : said[k].note.n = k
Book ==
  Loadable \in Seq(Note) /\ Sorted(Loadable) /\ Weight(Loadable) <= Capacity /\ Genuine(Loadable)

\* What is being written is what can be read and the latest note.
InHand ==
  Writing => /\ Len(said) > 0 /\ \A i \in 1 .. Len(Loadable) : Loadable[i].n < Len(said)
             /\ job.text = Fit(Append(Loadable, said[Len(said)].note))

Remembers(text, k) == Has(text, k) \/ Weight(SaidFrom(k)) > Capacity
KeptStay == \A k \in 1 .. Len(said) : said[k].fate = "kept" => Remembers(Loadable, k)

\* The inductive invariant, on top of the journal's.
NInv == IInv /\ Said /\ Book /\ InHand /\ KeptStay

--------------------------------------------------------------------------------
(***************************************************************************)
(* What notes weigh together: nothing when there are none, and one more    *)
(* note adds its size.                                                     *)
(***************************************************************************)
LEMMA Sizes == \A note \in Note : note.size \in Nat \ {0} /\ note.size <= Capacity
<1>1. Size \subseteq 1 .. Capacity /\ Capacity \in Nat
  BY NotebookAssumption
<1>2. ASSUME NEW note \in Note PROVE note.size \in Nat \ {0} /\ note.size <= Capacity
  <2>1. note.size \in Size
    BY DEF Note
  <2>2. note.size \in 1 .. Capacity
    BY <1>1, <2>1
  <2> QED BY <1>1, <2>2
<1> QED BY <1>2

\* The recursion that Weight is defined by.
Sums(text, f) ==
  /\ f[0] = 0
  /\ \A i \in 1 .. Len(text) : f[i] = f[i - 1] + text[i].size

\* Weight is what a function with that recursion has at the length of the text.
LEMMA WeightRecursion ==
  ASSUME NEW text \in Seq(Note)
  PROVE  \E f \in [0 .. Len(text) -> Nat] : Sums(text, f) /\ Weight(text) = f[Len(text)]
<1>1. PICK n \in Nat : n = Len(text)
  BY LenProperties
<1>2. \A i \in 1 .. n : text[i].size \in Nat
  BY <1>1, ElementOfSeq, Sizes
<1> DEFINE step == [i \in 1 .. n |-> [t \in Nat |-> t + text[i].size]]
<1>3. /\ step \in [1 .. n -> [Nat -> Nat]]
      /\ \A i \in 1 .. n, t \in Nat : step[i][t] = t + text[i].size
  BY <1>2
<1> HIDE DEF step
<1>4. PICK f \in [0 .. n -> Nat] : f[0] = 0 /\ \A i \in 1 .. n : f[i] = step[i][f[i - 1]]
  <2>1. 0 \in Nat
    OBVIOUS
  <2>2. \E f \in [0 .. n -> Nat] : Obeys(f, n, 0, step)
    BY <1>1, <1>3, <2>1, Recursion
  <2> QED BY <2>2 DEF Obeys
<1> DEFINE E(g, i) == IF i = 0 THEN 0 ELSE g[i - 1] + text[i].size
           F(g) == [i \in 0 .. n |-> E(g, i)]
           sum == CHOOSE g : g = F(g)
<1>5. f = F(f)
  <2>1. ASSUME NEW i \in 0 .. n PROVE f[i] = E(f, i)
    <3>1. CASE i = 0
      BY <1>4, <3>1
    <3>2. CASE i # 0
      <4>1. i \in 1 .. n /\ f[i - 1] \in Nat
        BY <1>1, <1>4, <3>2
      <4> QED BY <1>3, <1>4, <3>2, <4>1
    <3> QED BY <3>1, <3>2
  <2> HIDE DEF E
  <2> QED BY <1>4, <2>1
<1>6. sum = F(sum)
  <2> HIDE DEF F
  <2> QED BY <1>5, Zenon
<1>7. Weight(text) = sum[n]
  BY <1>1, Zenon DEF Weight
<1> HIDE DEF sum
<1>8. \A i \in 0 .. n : sum[i] = E(sum, i)
  <2> HIDE DEF E
  <2> QED BY <1>6, Zenon
<1>9. sum[0] = 0 /\ \A i \in 1 .. n : sum[i] = sum[i - 1] + text[i].size
  <2>1. \A i \in 1 .. n : i \in 0 .. n /\ i # 0
    OBVIOUS
  <2> QED BY <1>1, <1>8, <2>1
<1>10. sum \in [0 .. n -> Nat]
  <2>1. sum = [i \in 0 .. n |-> sum[i]]
    <3> HIDE DEF E
    <3> QED BY <1>6, <1>8
  <2> DEFINE G == {i \in 0 .. n : sum[i] \in Nat}
  <2>2. 0 \in G /\ \A i \in 1 .. n : i - 1 \in G => i \in G
    BY <1>1, <1>2, <1>9
  <2>3. 0 .. n \subseteq G
    <3> HIDE DEF G
    <3> QED BY <1>1, <2>2, UpTo
  <2> QED BY <2>1, <2>3
<1> QED BY <1>1, <1>7, <1>9, <1>10 DEF Sums

\* A weight is a natural number.
LEMMA WeightType ==
  ASSUME NEW text \in Seq(Note) PROVE Weight(text) \in Nat
<1>1. PICK f \in [0 .. Len(text) -> Nat] : Sums(text, f) /\ Weight(text) = f[Len(text)]
  BY WeightRecursion
<1> QED BY <1>1, LenProperties

\* No notes weigh nothing.
LEMMA WeightEmpty == Weight(<<>>) = 0
<1>1. <<>> \in Seq(Note) /\ Len(<<>>) = 0
  BY EmptySeq
<1>2. PICK f \in [0 .. Len(<<>>) -> Nat] : Sums(<<>>, f) /\ Weight(<<>>) = f[Len(<<>>)]
  BY <1>1, WeightRecursion
<1> QED BY <1>1, <1>2 DEF Sums

\* One more note adds its size.
LEMMA WeightAppend ==
  ASSUME NEW text \in Seq(Note), NEW note \in Note
  PROVE  Weight(Append(text, note)) = Weight(text) + note.size
<1>1. PICK n \in Nat : n = Len(text)
  BY LenProperties
<1>2. /\ Append(text, note) \in Seq(Note) /\ Len(Append(text, note)) = n + 1
      /\ Append(text, note)[n + 1] = note /\ \A i \in 1 .. n : Append(text, note)[i] = text[i]
  BY <1>1, AppendProperties
<1>3. PICK f \in [0 .. n -> Nat] : Sums(text, f) /\ Weight(text) = f[n]
  BY <1>1, WeightRecursion
<1>4. PICK g \in [0 .. n + 1 -> Nat] :
        Sums(Append(text, note), g) /\ Weight(Append(text, note)) = g[n + 1]
  BY <1>2, WeightRecursion
<1>5. f[0] = 0 /\ \A i \in 1 .. n : f[i] = f[i - 1] + text[i].size
  BY <1>1, <1>3 DEF Sums
<1>6. g[0] = 0 /\ \A i \in 1 .. n + 1 : g[i] = g[i - 1] + Append(text, note)[i].size
  BY <1>2, <1>4 DEF Sums
<1> DEFINE G == {i \in 0 .. n : f[i] = g[i]}
<1>7. 0 \in G /\ \A i \in 1 .. n : i - 1 \in G => i \in G
  BY <1>1, <1>2, <1>5, <1>6
<1>8. 0 .. n \subseteq G
  <2> HIDE DEF G
  <2> QED BY <1>1, <1>7, UpTo
<1>9. f[n] = g[n]
  BY <1>1, <1>8
<1>10. n + 1 \in 1 .. n + 1 /\ n + 1 - 1 = n
  BY <1>1
<1>11. g[n + 1] = g[n] + note.size
  BY <1>2, <1>6, <1>10
<1> QED BY <1>3, <1>4, <1>9, <1>11

\* Two texts together weigh the sum.
LEMMA WeightConcat ==
  ASSUME NEW s \in Seq(Note), NEW t \in Seq(Note)
  PROVE  Weight(s \o t) = Weight(s) + Weight(t)
<1> DEFINE G == {u \in Seq(Note) : Weight(s \o u) = Weight(s) + Weight(u)}
<1>1. <<>> \in G
  <2>1. s \o <<>> = s /\ <<>> \in Seq(Note) /\ Weight(s) \in Nat
    BY ConcatEmptySeq, EmptySeq, WeightType
  <2> QED BY <2>1, WeightEmpty
<1>2. ASSUME NEW u \in Seq(Note), NEW e \in Note, u \in G PROVE Append(u, e) \in G
  <2>1. s \o Append(u, e) = Append(s \o u, e) /\ s \o u \in Seq(Note) /\ Append(u, e) \in Seq(Note)
    BY AppendToConcat, ConcatProperties, AppendProperties
  <2>2. Weight(Append(s \o u, e)) = Weight(s \o u) + e.size /\ Weight(Append(u, e)) = Weight(u) + e.size
    BY <2>1, WeightAppend
  <2>3. Weight(s) \in Nat /\ Weight(u) \in Nat /\ e.size \in Nat
    BY WeightType, Sizes
  <2>4. Weight(s \o u) = Weight(s) + Weight(u)
    BY <1>2
  <2>5. Weight(s \o Append(u, e)) = Weight(s) + Weight(Append(u, e))
    BY <2>1, <2>2, <2>3, <2>4
  <2> QED BY <2>1, <2>5
<1>3. Seq(Note) \subseteq G
  <2> HIDE DEF G
  <2> QED BY <1>1, <1>2, SequencesByAppending
<1> QED BY <1>3

(***************************************************************************)
(* The longer an end of the text, the heavier.                             *)
(***************************************************************************)
LEMMA EndsWeigh ==
  ASSUME NEW text \in Seq(Note), NEW i \in 1 .. Len(text) + 1, NEW j \in i .. Len(text) + 1
  PROVE  /\ SubSeq(text, i, Len(text)) \in Seq(Note) /\ SubSeq(text, j, Len(text)) \in Seq(Note)
         /\ Weight(SubSeq(text, j, Len(text))) <= Weight(SubSeq(text, i, Len(text)))
<1>1. PICK n \in Nat : n = Len(text)
  BY LenProperties
<1>2. ASSUME NEW p \in 1 .. n + 1, NEW q \in 0 .. n PROVE SubSeq(text, p, q) \in Seq(Note)
  <2>1. \A k \in p .. q : text[k] \in Note
    BY <1>1, ElementOfSeq
  <2> QED BY <1>1, <2>1, SubSeqProperties
<1>3. i \in 1 .. n + 1 /\ j \in 1 .. n + 1 /\ j - 1 \in 0 .. n /\ n \in 0 .. n /\ j - 1 \in i - 1 .. n
      /\ n \in j - 1 .. n /\ j - 1 + 1 = j
  BY <1>1
<1>4. SubSeq(text, i, j - 1) \o SubSeq(text, j, n) = SubSeq(text, i, n)
  <2>1. SubSeq(text, i, j - 1) \o SubSeq(text, j - 1 + 1, n) = SubSeq(text, i, n)
    BY <1>1, <1>3, ConcatAdjacentSubSeq
  <2> QED BY <1>3, <2>1
<1>5. SubSeq(text, i, j - 1) \in Seq(Note) /\ SubSeq(text, j, n) \in Seq(Note) /\ SubSeq(text, i, n) \in Seq(Note)
  BY <1>2, <1>3
<1>6. Weight(SubSeq(text, i, n)) = Weight(SubSeq(text, i, j - 1)) + Weight(SubSeq(text, j, n))
  BY <1>4, <1>5, WeightConcat
<1>7. Weight(SubSeq(text, i, j - 1)) \in Nat /\ Weight(SubSeq(text, j, n)) \in Nat
  BY <1>5, WeightType
<1> QED BY <1>1, <1>5, <1>6, <1>7

--------------------------------------------------------------------------------
(***************************************************************************)
(* What the loop of notes.write leaves of a text: its longest end that is  *)
(* within the capacity.                                                    *)
(***************************************************************************)
FitsFrom(text, j) ==
  /\ Fit(text) = SubSeq(text, j, Len(text))
  /\ Weight(Fit(text)) <= Capacity
  /\ j > 1 => Weight(SubSeq(text, j - 1, Len(text))) > Capacity

\* Every text has such an end, and Fit leaves it.
LEMMA FitIsEnd ==
  ASSUME NEW text \in Seq(Note)
  PROVE  /\ \E j \in 1 .. Len(text) + 1 : FitsFrom(text, j)
         /\ Fit(text) \in Seq(Note)
<1>1. PICK n \in Nat : n = Len(text)
  BY LenProperties
<1> DEFINE fits == {k \in 1 .. n + 1 : Weight(SubSeq(text, k, n)) <= Capacity}
           j == CHOOSE k \in fits : \A i \in fits : k <= i
<1>2. n + 1 \in fits
  <2>1. SubSeq(text, n + 1, n) = <<>>
    BY <1>1, SubSeqEmpty
  <2>2. Weight(SubSeq(text, n + 1, n)) <= Capacity
    <3>1. Capacity \in Nat /\ 0 <= Capacity
      BY NotebookAssumption
    <3> QED BY <2>1, <3>1, WeightEmpty
  <2> QED BY <1>1, <2>2
<1>3. fits \subseteq Nat
  BY <1>1
<1>4. j \in fits /\ \A i \in fits : j <= i
  <2>1. \E k \in fits : \A i \in fits : k <= i
    <3> HIDE DEF fits
    <3> QED BY <1>2, <1>3, LeastNumber
  <2> HIDE DEF fits
  <2> QED BY <2>1, Zenon
<1>5. Fit(text) = SubSeq(text, j, n)
  BY <1>1, Zenon DEF Fit
<1> HIDE DEF j
<1>6. j \in 1 .. n + 1 /\ Weight(SubSeq(text, j, n)) <= Capacity
  BY <1>4
<1>7. j > 1 => Weight(SubSeq(text, j - 1, n)) > Capacity
  <2>1. SUFFICES ASSUME j > 1 PROVE Weight(SubSeq(text, j - 1, n)) > Capacity
    OBVIOUS
  <2>2. j - 1 \in 1 .. n + 1 /\ ~(j <= j - 1)
    BY <1>1, <1>6, <2>1
  <2>3. j - 1 \notin fits
    <3> HIDE DEF fits
    <3> QED BY <1>4, <2>2
  <2>4. ~(Weight(SubSeq(text, j - 1, n)) <= Capacity)
    BY <2>2, <2>3
  <2>5. SubSeq(text, j - 1, n) \in Seq(Note)
    BY <1>1, <2>2, EndsWeigh
  <2>6. Weight(SubSeq(text, j - 1, n)) \in Nat
    BY <2>5, WeightType
  <2> QED BY <2>4, <2>6, NotebookAssumption
<1>8. Fit(text) \in Seq(Note)
  BY <1>1, <1>5, <1>6, EndsWeigh
<1> QED BY <1>1, <1>5, <1>6, <1>7, <1>8 DEF FitsFrom

\* The text consists of notes that were said between the k-th and the m-th.
Among(text, notes, k, m) ==
  \A i \in 1 .. Len(text) : text[i].n \in k .. m /\ text[i] = notes[text[i].n]

(***************************************************************************)
(* Some of the notes said between two moments are no heavier than all.     *)
(***************************************************************************)
LEMMA SomeWeighLess ==
  ASSUME NEW notes \in Seq(Note), NEW k \in 1 .. Len(notes)
  PROVE  \A text \in Seq(Note), m \in k - 1 .. Len(notes) :
           Sorted(text) /\ Among(text, notes, k, m) => Weight(text) <= Weight(SubSeq(notes, k, m))
<1>1. PICK n \in Nat : n = Len(notes)
  BY LenProperties
<1>2. ASSUME NEW p \in 1 .. n + 1, NEW q \in 0 .. n PROVE SubSeq(notes, p, q) \in Seq(Note)
  <2>1. \A i \in p .. q : notes[i] \in Note
    BY <1>1, ElementOfSeq
  <2> QED BY <1>1, <2>1, SubSeqProperties
<1>3. ASSUME NEW q \in k - 1 .. n, NEW m \in q .. n
      PROVE  Weight(SubSeq(notes, k, q)) <= Weight(SubSeq(notes, k, m))
  <2>1. k \in 1 .. n + 1 /\ q \in 0 .. n /\ m \in 0 .. n /\ q + 1 \in 1 .. n + 1
    BY <1>1
  <2>2. SubSeq(notes, k, q) \o SubSeq(notes, q + 1, m) = SubSeq(notes, k, m)
    BY <1>1, <2>1, ConcatAdjacentSubSeq
  <2>3. SubSeq(notes, k, q) \in Seq(Note) /\ SubSeq(notes, q + 1, m) \in Seq(Note)
    BY <1>2, <2>1
  <2>4. Weight(SubSeq(notes, k, m)) = Weight(SubSeq(notes, k, q)) + Weight(SubSeq(notes, q + 1, m))
    BY <2>2, <2>3, WeightConcat
  <2>5. Weight(SubSeq(notes, k, q)) \in Nat /\ Weight(SubSeq(notes, q + 1, m)) \in Nat
    BY <2>3, WeightType
  <2> QED BY <2>4, <2>5
<1> DEFINE Light(text) == \A m \in k - 1 .. n :
             Sorted(text) /\ Among(text, notes, k, m) => Weight(text) <= Weight(SubSeq(notes, k, m))
           G == {text \in Seq(Note) : Light(text)}
<1>4. <<>> \in G
  <2>1. ASSUME NEW m \in k - 1 .. n PROVE Weight(<<>>) <= Weight(SubSeq(notes, k, m))
    <3>1. k \in 1 .. n + 1 /\ m \in 0 .. n
      BY <1>1
    <3>2. Weight(SubSeq(notes, k, m)) \in Nat
      BY <1>2, <3>1, WeightType
    <3> QED BY <3>2, WeightEmpty
  <2> QED BY <2>1, EmptySeq
<1>5. ASSUME NEW t \in Seq(Note), NEW e \in Note, t \in G PROVE Append(t, e) \in G
  <2>1. PICK l \in Nat : l = Len(t)
    BY LenProperties
  <2>2. /\ Append(t, e) \in Seq(Note) /\ Len(Append(t, e)) = l + 1
        /\ Append(t, e)[l + 1] = e /\ \A i \in 1 .. l : Append(t, e)[i] = t[i]
    BY <2>1, AppendProperties
  <2>3. ASSUME NEW m \in k - 1 .. n, Sorted(Append(t, e)), Among(Append(t, e), notes, k, m)
        PROVE  Weight(Append(t, e)) <= Weight(SubSeq(notes, k, m))
    <3>1. /\ \A i, j \in 1 .. l + 1 : i < j => Append(t, e)[i].n < Append(t, e)[j].n
          /\ \A i \in 1 .. l + 1 : Append(t, e)[i].n \in k .. m /\ Append(t, e)[i] = notes[Append(t, e)[i].n]
      BY <2>2, <2>3 DEF Sorted, Among
    <3>2. PICK q \in k .. m : q = e.n /\ e = notes[q]
      <4>1. l + 1 \in 1 .. l + 1
        BY <2>1
      <4> QED BY <2>2, <3>1, <4>1
    <3>3. \A i \in 1 .. l : i \in 1 .. l + 1 /\ l + 1 \in 1 .. l + 1 /\ i < l + 1
      BY <2>1
    <3>4. Sorted(t)
      BY <2>1, <2>2, <3>1, <3>3 DEF Sorted
    <3>5. Among(t, notes, k, q - 1)
      <4>1. ASSUME NEW i \in 1 .. l PROVE t[i].n \in k .. q - 1 /\ t[i] = notes[t[i].n]
        <5>1. t[i].n \in k .. m /\ t[i].n < q /\ t[i] = notes[t[i].n]
          BY <2>2, <3>1, <3>2, <3>3
        <5> QED BY <3>2, <5>1
      <4> QED BY <2>1, <4>1 DEF Among
    <3>6. q - 1 \in k - 1 .. n /\ q \in k .. n /\ q \in k - 1 .. n /\ m \in q .. n /\ k \in 1 .. n + 1
          /\ q - 1 \in 0 .. n /\ m \in 0 .. n /\ q \in 0 .. n
      BY <1>1, <3>2
    <3>7. Weight(t) <= Weight(SubSeq(notes, k, q - 1))
      BY <1>5, <3>4, <3>5, <3>6
    <3>8. SubSeq(notes, k, q) = Append(SubSeq(notes, k, q - 1), e)
      <4>1. SubSeq(notes, k, q) = SubSeq(notes, k, q - 1) \o <<notes[q]>>
        BY <1>1, <3>6, SubSeqRecursiveSecond
      <4>2. SubSeq(notes, k, q - 1) \in Seq(Note)
        BY <1>2, <3>6
      <4>3. PICK u \in Seq(Note) : u = SubSeq(notes, k, q - 1)
        BY <4>2
      <4>4. notes[q] = e /\ e \in Note /\ Append(u, e) = u \o <<e>>
        BY <3>2, AppendIsConcat
      <4> QED BY <4>1, <4>3, <4>4
    <3>9. SubSeq(notes, k, q - 1) \in Seq(Note) /\ SubSeq(notes, k, q) \in Seq(Note) /\ SubSeq(notes, k, m) \in Seq(Note)
      BY <1>2, <3>6
    <3>10. /\ Weight(SubSeq(notes, k, q)) = Weight(SubSeq(notes, k, q - 1)) + e.size
           /\ Weight(Append(t, e)) = Weight(t) + e.size
      BY <3>8, <3>9, WeightAppend
    <3>11. Weight(SubSeq(notes, k, q)) <= Weight(SubSeq(notes, k, m))
      BY <1>3, <3>6
    <3>12. /\ Weight(t) \in Nat /\ e.size \in Nat /\ Weight(SubSeq(notes, k, q - 1)) \in Nat
           /\ Weight(SubSeq(notes, k, m)) \in Nat
      BY <3>9, WeightType, Sizes
    <3> QED BY <3>7, <3>10, <3>11, <3>12
  <2> QED BY <2>2, <2>3
<1>6. Seq(Note) \subseteq G
  <2> HIDE DEF G
  <2> QED BY <1>4, <1>5, SequencesByAppending
<1> QED BY <1>1, <1>6

--------------------------------------------------------------------------------
(***************************************************************************)
(* The end of a sorted text is sorted.                                     *)
(***************************************************************************)
IsEnd(v, text, p) ==
  /\ v \in Seq(Note) /\ Len(v) = Len(text) - p + 1 /\ Sorted(v)
  /\ \A i \in 1 .. Len(text) - p + 1 : p - 1 + i \in p .. Len(text) /\ v[i] = text[p - 1 + i]

\* The end of a text from p on holds its notes from p on, in their order.
LEMMA EndSorted ==
  ASSUME NEW text \in Seq(Note), Sorted(text), NEW p \in 1 .. Len(text) + 1
  PROVE  IsEnd(SubSeq(text, p, Len(text)), text, p)
<1>1. PICK n \in Nat : n = Len(text)
  BY LenProperties
<1>2. PICK v : v = SubSeq(text, p, n)
  OBVIOUS
<1>3. \A i \in p .. n : text[i] \in Note
  BY <1>1, ElementOfSeq
<1>4. /\ v \in Seq(Note) /\ Len(v) = (IF p <= n THEN n - p + 1 ELSE 0)
      /\ \A i \in 1 .. n - p + 1 : v[i] = text[p + i - 1]
  BY <1>3, <1>1, <1>2, SubSeqProperties
<1>5. Len(v) = n - p + 1
  <2>1. CASE p <= n
    BY <1>4, <2>1
  <2>2. CASE p = n + 1
    <3>1. n - p + 1 = 0 /\ ~(p <= n)
      BY <1>1, <2>2
    <3> QED BY <1>4, <3>1
  <2> QED BY <1>1, <2>1, <2>2
<1>6. ASSUME NEW i \in 1 .. n - p + 1 PROVE p - 1 + i \in p .. n /\ v[i] = text[p - 1 + i]
  <2>1. p + i - 1 = p - 1 + i
    BY <1>1
  <2> QED BY <1>4, <1>1, <2>1
<1>7. Sorted(v)
  <2>1. ASSUME NEW i \in 1 .. n - p + 1, NEW k \in 1 .. n - p + 1, i < k PROVE v[i].n < v[k].n
    <3>1. p - 1 + i \in 1 .. n /\ p - 1 + k \in 1 .. n /\ p - 1 + i < p - 1 + k
      BY <1>1, <2>1
    <3> QED BY <1>6, <1>1, <3>1 DEF Sorted
  <2> QED BY <1>5, <2>1 DEF Sorted
<1> QED BY <1>4, <1>5, <1>6, <1>7, <1>1, <1>2 DEF IsEnd

(***************************************************************************)
(* The notes of what was said.                                             *)
(***************************************************************************)
Notes == [k \in DOMAIN said |-> said[k].note]

\* They are as many notes as were said, each the one that was said.
LEMMA NotesSaid ==
  ASSUME Said
  PROVE  /\ Notes \in Seq(Note) /\ Len(Notes) = Len(said)
         /\ \A k \in 1 .. Len(said) : Notes[k] = said[k].note /\ said[k].note \in Note
<1>1. PICK m \in Nat : m = Len(said) /\ DOMAIN said = 1 .. m
  BY LenProperties DEF Said
<1>2. \A k \in 1 .. m : said[k] \in Saying
  BY <1>1, ElementOfSeq DEF Said
<1>3. \A k \in 1 .. m : said[k].note \in Note
  BY <1>2 DEF Saying
<1>4. Notes = [k \in 1 .. m |-> said[k].note]
  BY <1>1 DEF Notes
<1>5. Notes \in Seq(Note) /\ Len(Notes) = m
  BY <1>3, <1>4, IsASeq
<1> QED BY <1>1, <1>3, <1>4, <1>5

(***************************************************************************)
(* What is about to be written is a notebook with the latest note, and     *)
(* what it no longer holds was pushed out by later notes.                  *)
(***************************************************************************)
LEMMA Written ==
  ASSUME NInv, Writing
  PROVE  /\ job.text \in Seq(Note) /\ Sorted(job.text) /\ Weight(job.text) <= Capacity
         /\ Genuine(job.text) /\ Has(job.text, Len(said))
         /\ \A k \in 1 .. Len(said) : Remembers(Loadable, k) => Remembers(job.text, k)
<1>1. PICK m \in Nat, l \in Nat : m = Len(said) /\ l = Len(Loadable)
  BY LenProperties DEF NInv, Said, Book
<1>2. m > 0 /\ (\A i \in 1 .. l : Loadable[i].n < m) /\ job.text = Fit(Append(Loadable, said[m].note))
  BY <1>1 DEF NInv, InHand
<1>3. PICK e \in Note : e = said[m].note /\ e.n = m
  <2>1. m \in 1 .. Len(said)
    BY <1>1, <1>2
  <2> QED BY <1>1, <2>1, NotesSaid DEF NInv, Said
<1>4. Loadable \in Seq(Note) /\ Sorted(Loadable) /\ Genuine(Loadable)
  BY DEF NInv, Book
<1>5. PICK t \in Seq(Note) :
        /\ t = Append(Loadable, e) /\ Len(t) = l + 1
        /\ t[l + 1] = e /\ \A i \in 1 .. l : t[i] = Loadable[i]
  <2>1. e \in Note /\ Loadable \in Seq(Note)
    BY <1>3, <1>4
  <2>2. PICK t : t = Append(Loadable, e)
    OBVIOUS
  <2>3. /\ t \in Seq(Note) /\ Len(t) = l + 1 /\ t[l + 1] = e
        /\ \A i \in 1 .. l : t[i] = Loadable[i]
    BY <1>1, <2>1, <2>2, AppendProperties
  <2> QED BY <2>2, <2>3
<1>6. Sorted(t)
  <2>1. ASSUME NEW i \in 1 .. l + 1, NEW k \in 1 .. l + 1, i < k PROVE t[i].n < t[k].n
    <3>1. i \in 1 .. l
      BY <1>1, <2>1
    <3>2. CASE k = l + 1
      BY <1>2, <1>3, <1>5, <3>1, <3>2
    <3>3. CASE k # l + 1
      <4>1. k \in 1 .. l
        BY <1>1, <3>3
      <4> QED BY <1>1, <1>4, <1>5, <2>1, <3>1, <4>1 DEF Sorted
    <3> QED BY <3>2, <3>3
  <2> QED BY <1>5, <2>1 DEF Sorted
<1>7. \A i \in 1 .. l + 1 : t[i].n <= m /\ (t[i].n > 0 => t[i] = said[t[i].n].note)
  <2>1. ASSUME NEW i \in 1 .. l + 1 PROVE t[i].n <= m /\ (t[i].n > 0 => t[i] = said[t[i].n].note)
    <3>1. CASE i = l + 1
      BY <1>1, <1>3, <1>5, <3>1
    <3>2. CASE i # l + 1
      <4>1. i \in 1 .. l
        BY <1>1, <3>2
      <4> QED BY <1>1, <1>4, <1>5, <4>1 DEF Genuine
    <3> QED BY <3>1, <3>2
  <2> QED BY <2>1
<1>8. PICK j \in 1 .. l + 2 : FitsFrom(t, j)
  <2>1. l + 1 + 1 = l + 2
    BY <1>1
  <2> QED BY <1>5, <2>1, FitIsEnd
<1>9. PICK v : v = job.text
  OBVIOUS
<1>10. v = SubSeq(t, j, l + 1) /\ Weight(v) <= Capacity /\ v = Fit(t)
  BY <1>2, <1>3, <1>5, <1>8, <1>9 DEF FitsFrom
<1>11. /\ v \in Seq(Note) /\ Len(v) = l + 1 - j + 1 /\ Sorted(v)
       /\ \A i \in 1 .. l + 1 - j + 1 : j - 1 + i \in j .. l + 1 /\ v[i] = t[j - 1 + i]
  <2>1. Len(t) = l + 1 /\ j \in 1 .. Len(t) + 1 /\ v = SubSeq(t, j, Len(t))
    BY <1>1, <1>5, <1>8, <1>10
  <2>2. IsEnd(SubSeq(t, j, Len(t)), t, j)
    BY <1>6, <2>1, EndSorted
  <2> QED BY <2>1, <2>2 DEF IsEnd
<1>12. Genuine(v)
  <2>1. ASSUME NEW i \in 1 .. l + 1 - j + 1
        PROVE  v[i].n <= m /\ (v[i].n > 0 => v[i] = said[v[i].n].note)
    <3>1. j - 1 + i \in 1 .. l + 1 /\ v[i] = t[j - 1 + i]
      BY <1>8, <1>11
    <3> QED BY <1>7, <3>1
  <2> QED BY <1>1, <1>11, <2>1 DEF Genuine
<1>13. ASSUME NEW p \in 1 .. l + 1, p >= j PROVE Has(v, t[p].n)
  <2>1. p - j + 1 \in 1 .. l + 1 - j + 1 /\ j - 1 + (p - j + 1) = p
    BY <1>1, <1>8, <1>13
  <2>2. v[p - j + 1] = t[p]
    BY <1>11, <2>1
  <2> QED BY <1>11, <2>1, <2>2 DEF Has
<1>14. Has(v, m)
  <2>1. l + 1 >= j
    <3>1. SUFFICES ASSUME j = l + 2 PROVE FALSE
      BY <1>1, <1>8
    <3>2. j > 1 /\ j - 1 = l + 1
      BY <1>1, <3>1
    <3>3. Weight(SubSeq(t, l + 1, l + 1)) > Capacity
      BY <1>5, <1>8, <3>2 DEF FitsFrom
    <3>4. SubSeq(t, l + 1, l + 1) = Append(<<>>, e)
      <4>1. l + 1 \in 1 .. Len(t) /\ l + 1 \in l + 1 .. Len(t) /\ l + 1 - 1 = l /\ l < l + 1
        BY <1>1, <1>5
      <4>2. SubSeq(t, l + 1, l + 1) = SubSeq(t, l + 1, l + 1 - 1) \o <<t[l + 1]>>
        BY <4>1, SubSeqRecursiveSecond
      <4>3. SubSeq(t, l + 1, l) = <<>>
        BY <1>1, <4>1, SubSeqEmpty
      <4>4. <<>> \in Seq(Note)
        BY EmptySeq
      <4>5. e \in Note /\ t[l + 1] = e
        BY <1>3, <1>5
      <4>6. Append(<<>>, e) = <<>> \o <<e>>
        BY <4>4, <4>5, AppendIsConcat
      <4> QED BY <4>1, <4>2, <4>3, <4>5, <4>6
    <3>5. Weight(Append(<<>>, e)) = 0 + e.size
      <4>1. <<>> \in Seq(Note)
        BY EmptySeq
      <4>2. e \in Note
        BY <1>3
      <4> QED BY <4>1, <4>2, WeightAppend, WeightEmpty
    <3>6. e.size \in Nat /\ e.size <= Capacity /\ Capacity \in Nat
      BY <1>3, Sizes, NotebookAssumption
    <3>7. 0 + e.size > Capacity
      BY <3>3, <3>4, <3>5, Zenon
    <3> QED BY <3>6, <3>7
  <2>2. l + 1 \in 1 .. l + 1
    BY <1>1
  <2> QED BY <1>3, <1>5, <1>13, <2>1, <2>2
<1>15. ASSUME NEW k \in 1 .. m, Remembers(Loadable, k) PROVE Remembers(v, k)
  <2>1. CASE Weight(SaidFrom(k)) > Capacity
    BY <2>1 DEF Remembers
  <2>2. CASE Has(Loadable, k)
    <3>1. PICK p \in 1 .. l : Loadable[p].n = k
      BY <1>1, <2>2 DEF Has
    <3>2. p \in 1 .. l + 1 /\ t[p].n = k
      BY <1>1, <1>5, <3>1
    <3>3. CASE p >= j
      BY <1>13, <3>2, <3>3 DEF Remembers
    <3>4. CASE ~(p >= j)
      <4>1. PICK w : w = SubSeq(t, p, l + 1)
        OBVIOUS
      <4>2. /\ j > 1 /\ p \in 1 .. Len(t) + 1 /\ j - 1 \in p .. Len(t) + 1
        BY <1>1, <1>5, <1>8, <3>2, <3>4
      <4>3. Weight(SubSeq(t, j - 1, l + 1)) > Capacity
        BY <1>5, <1>8, <4>2 DEF FitsFrom
      <4>4. SubSeq(t, j - 1, l + 1) \in Seq(Note) /\ Weight(SubSeq(t, j - 1, l + 1)) <= Weight(w)
        BY <1>5, <4>1, <4>2, EndsWeigh
      <4>5. /\ w \in Seq(Note) /\ Len(w) = l + 1 - p + 1 /\ Sorted(w)
            /\ \A i \in 1 .. l + 1 - p + 1 : p - 1 + i \in p .. l + 1 /\ w[i] = t[p - 1 + i]
        <5>1. Len(t) = l + 1 /\ p \in 1 .. Len(t) + 1 /\ w = SubSeq(t, p, Len(t))
          BY <1>1, <1>5, <3>2, <4>1
        <5>2. IsEnd(SubSeq(t, p, Len(t)), t, p)
          BY <1>6, <5>1, EndSorted
        <5> QED BY <5>1, <5>2 DEF IsEnd
      <4>6. Among(w, Notes, k, m)
        <5>1. ASSUME NEW i \in 1 .. l + 1 - p + 1 PROVE w[i].n \in k .. m /\ w[i] = Notes[w[i].n]
          <6>1. PICK q \in p .. l + 1 : q = p - 1 + i /\ w[i] = t[q]
            BY <4>5
          <6>2. q \in 1 .. l + 1
            BY <3>2, <6>1
          <6>3. t[q] \in Note
            BY <1>5, <6>2, ElementOfSeq
          <6>4. t[q].n \in Nat
            BY <6>3, NotebookAssumption DEF Note
          <6>5. t[q].n >= k
            <7>1. CASE q = p
              BY <3>2, <6>4, <7>1
            <7>2. CASE q # p
              <8>1. p < q
                BY <3>2, <6>1, <7>2
              <8>2. t[p].n < t[q].n
                BY <1>5, <1>6, <3>2, <6>2, <8>1 DEF Sorted
              <8> QED BY <3>2, <6>4, <8>2
            <7> QED BY <7>1, <7>2
          <6>6. t[q].n <= m /\ t[q].n > 0 /\ t[q] = said[t[q].n].note
            <7>1. PICK a \in 1 .. l + 1 : a = q
              BY <6>2
            <7>2. PICK b \in Nat : b = t[a].n
              BY <6>4, <7>1
            <7>3. b > 0
              <8>1. k \in Nat /\ k >= 1 /\ b >= k
                BY <1>1, <6>5, <7>1, <7>2
              <8> QED BY <7>2, <8>1
            <7>4. b <= m /\ t[a] = said[b].note
              BY <1>7, <7>2, <7>3
            <7> QED BY <7>1, <7>2, <7>3, <7>4
          <6>7. t[q].n \in k .. m /\ t[q].n \in 1 .. m
            BY <1>1, <6>4, <6>5, <6>6
          <6>8. Notes[t[q].n] = said[t[q].n].note
            BY <1>1, <6>7, NotesSaid DEF NInv
          <6> QED BY <6>1, <6>6, <6>7, <6>8
        <5> QED BY <4>5, <5>1 DEF Among
      <4>7. Weight(w) <= Weight(SubSeq(Notes, k, m))
        <5>1. Notes \in Seq(Note) /\ Len(Notes) = m
          BY <1>1, NotesSaid DEF NInv
        <5>2. k \in 1 .. Len(Notes) /\ m \in k - 1 .. Len(Notes)
          BY <1>1, <5>1
        <5> QED BY <4>5, <4>6, <5>1, <5>2, SomeWeighLess
      <4>8. SaidFrom(k) = SubSeq(Notes, k, m)
        BY <1>1 DEF SaidFrom, Notes
      <4>9. SubSeq(Notes, k, m) \in Seq(Note)
        <5>1. Notes \in Seq(Note) /\ Len(Notes) = m
          BY <1>1, NotesSaid DEF NInv
        <5>2. \A i \in k .. m : Notes[i] \in Note
          BY <5>1, ElementOfSeq
        <5> QED BY <1>1, <5>2, SubSeqProperties
      <4>10. /\ Weight(w) \in Nat /\ Weight(SubSeq(Notes, k, m)) \in Nat
            /\ Weight(SubSeq(t, j - 1, l + 1)) \in Nat /\ Capacity \in Nat
        BY <4>4, <4>5, <4>9, WeightType, NotebookAssumption
      <4>11. Weight(SaidFrom(k)) > Capacity
        BY <4>3, <4>4, <4>7, <4>8, <4>10
      <4> QED BY <4>11 DEF Remembers
    <3> QED BY <3>3, <3>4
  <2> QED BY <1>15, <2>1, <2>2 DEF Remembers
<1> QED BY <1>1, <1>9, <1>10, <1>11, <1>12, <1>14, <1>15

--------------------------------------------------------------------------------
(***************************************************************************)
(* The steps of a store: only the write can bring the new text in, and it  *)
(* is in whenever the store is told to be kept.                            *)
(***************************************************************************)
LEMMA WriteSteps ==
  ASSUME IInv, WriteFile
  PROVE  /\ Writing /\ job' = job
         /\ Loadable' = Loadable \/ (pc = "write" /\ Loadable' = job.text)
         /\ Writing' => Loadable' = Loadable
         /\ pc' = "idle" \/ Writing'
         /\ pc' = "idle" => /\ told' \in {"kept", "refused"}
                            /\ told' = "kept" => Loadable' = job.text
<1>1. /\ file \in [Slot -> [kind : {"absent", "torn", "sealed"}, gen : Nat, text : Payload]]
      /\ job.slot \in Slot
  BY DEF IInv, TypeOK
<1>2. CASE DeleteOld
  <2>1. Writing /\ job' = job /\ Writing' /\ pc' # "idle"
    BY <1>2 DEF DeleteOld, Writing
  <2>2. file' = file \/ file' = [file EXCEPT ![job.slot] = Absent]
    BY <1>2 DEF DeleteOld
  <2>3. Loadable' = Loadable
    <3>1. CASE file' = file
      BY <3>1 DEF Loadable
    <3>2. CASE file' = [file EXCEPT ![job.slot] = Absent]
      BY <2>1, <3>2, SlotChangeAndLoadable
    <3> QED BY <2>2, <3>1, <3>2
  <2> QED BY <2>1, <2>3
<1>3. CASE CreateNew
  <2>1. Writing /\ job' = job /\ Writing' /\ pc' # "idle"
    BY <1>3 DEF CreateNew, Writing
  <2>2. file' = file \/ file' = [file EXCEPT ![job.slot] = Torn]
    BY <1>3 DEF CreateNew
  <2>3. Loadable' = Loadable
    <3>1. CASE file' = file
      BY <3>1 DEF Loadable
    <3>2. CASE file' = [file EXCEPT ![job.slot] = Torn]
      BY <2>1, <3>2, SlotChangeAndLoadable
    <3> QED BY <2>2, <3>1, <3>2
  <2> QED BY <2>1, <2>3
<1>4. CASE OpenFails
  <2>1. Loadable' = Loadable
    BY <1>4 DEF OpenFails, Loadable
  <2> QED BY <1>4, <2>1 DEF OpenFails, Answer, Writing
<1>5. CASE WriteAll
  <2>1. Writing
    BY <1>5 DEF WriteAll, Writing
  <2>2. Loadable' = job.text
    BY <1>5, <2>1, SlotChangeAndLoadable DEF WriteAll
  <2> QED BY <1>5, <2>1, <2>2 DEF WriteAll, Answer, Writing
<1>6. CASE WriteFails
  <2>1. Loadable' \in {Loadable, job.text}
    BY <1>6, PartialWriteAndLoadable DEF WriteFails
  <2> QED BY <1>6, <2>1 DEF WriteFails, Answer, Writing
<1> QED BY <1>2, <1>3, <1>4, <1>5, <1>6 DEF WriteFile

(***************************************************************************)
(* A step that says nothing new keeps the notebook's part of the invariant *)
(* if what can be read stays or becomes what was being written, and if a   *)
(* note is told to be kept only then.                                      *)
(***************************************************************************)
SameNotes ==
  /\ said' \in Seq(Saying) /\ Len(said') = Len(said)
  /\ \A k \in 1 .. Len(said) : said'[k].note = said[k].note

KeptWhenRead ==
  \A k \in 1 .. Len(said) :
    said'[k].fate = "kept" =>
      said[k].fate = "kept" \/ (k = Len(said) /\ Writing /\ Loadable' = job.text)

\* Such a step keeps the invariant.
LEMMA Keeps ==
  ASSUME NInv, IInv', SameNotes, KeptWhenRead,
         Loadable' = Loadable \/ (Writing /\ Loadable' = job.text),
         Writing' => Writing /\ job' = job /\ Loadable' = Loadable
  PROVE  NInv'
<1>1. PICK m \in Nat : m = Len(said) /\ m = Len(said') /\ DOMAIN said = 1 .. m /\ DOMAIN said' = 1 .. m
  BY LenProperties DEF NInv, Said, SameNotes
<1>2. \A k \in 1 .. m : said'[k].note = said[k].note
  BY <1>1 DEF SameNotes
<1>3. Said'
  BY <1>1, <1>2 DEF NInv, Said, SameNotes
<1>4. PICK b \in Seq(Note) : b = Loadable'
  BY Written DEF NInv, Book
<1>5. /\ Sorted(b) /\ Weight(b) <= Capacity /\ Genuine(b)
      /\ \A k \in 1 .. m : Remembers(Loadable, k) => Remembers(b, k)
  BY <1>1, <1>4, Written DEF NInv, Book
<1>6. Genuine(b)'
  <2>1. PICK l \in Nat : l = Len(b)
    BY LenProperties
  <2>2. ASSUME NEW i \in 1 .. l PROVE b[i].n <= m /\ (b[i].n > 0 => b[i] = said'[b[i].n].note)
    <3>1. b[i].n <= m /\ (b[i].n > 0 => b[i] = said[b[i].n].note)
      BY <1>1, <1>5, <2>1 DEF Genuine
    <3>2. b[i].n \in Nat
      <4>1. b[i] \in Note
        BY <1>4, <2>1, ElementOfSeq
      <4> QED BY <4>1, NotebookAssumption DEF Note
    <3>3. b[i].n > 0 => b[i].n \in 1 .. m
      BY <1>1, <3>1, <3>2
    <3> QED BY <1>2, <3>1, <3>3
  <2> QED BY <1>1, <2>1, <2>2 DEF Genuine
<1>7. Book'
  BY <1>4, <1>5, <1>6 DEF Book, Genuine, Sorted
<1>8. InHand'
  <2>1. SUFFICES ASSUME Writing'
                 PROVE  /\ Len(said') > 0 /\ \A i \in 1 .. Len(Loadable') : Loadable'[i].n < Len(said')
                        /\ job'.text = Fit(Append(Loadable', said'[Len(said')].note))
    BY DEF InHand
  <2>2. m > 0 /\ (\A i \in 1 .. Len(Loadable) : Loadable[i].n < m)
        /\ job.text = Fit(Append(Loadable, said[m].note)) /\ job' = job /\ Loadable' = Loadable
    BY <1>1, <2>1 DEF NInv, InHand
  <2>3. said'[m].note = said[m].note
    BY <1>1, <1>2, <2>2
  <2> QED BY <1>1, <2>2, <2>3
<1>9. ASSUME NEW k \in 1 .. m PROVE SaidFrom(k)' = SaidFrom(k)
  <2>1. [i \in DOMAIN said' |-> said'[i].note] = [i \in DOMAIN said |-> said[i].note]
    BY <1>1, <1>2
  <2> QED BY <1>1, <2>1 DEF SaidFrom
<1>10. KeptStay'
  <2>1. ASSUME NEW k \in 1 .. m, said'[k].fate = "kept" PROVE Remembers(b, k)
    <3>1. CASE said[k].fate = "kept"
      BY <1>1, <1>5, <3>1 DEF NInv, KeptStay
    <3>2. CASE k = m /\ Writing /\ Loadable' = job.text
      BY <1>1, <1>4, <3>2, Written DEF Remembers
    <3> QED BY <1>1, <2>1, <3>1, <3>2 DEF KeptWhenRead
  <2>2. ASSUME NEW k \in 1 .. m, said'[k].fate = "kept"
        PROVE  Has(Loadable', k) \/ Weight(SaidFrom(k)') > Capacity
    BY <1>4, <1>9, <2>1, <2>2 DEF Remembers
  <2> QED BY <1>1, <2>2 DEF KeptStay, Remembers, Has
<1> QED BY <1>3, <1>7, <1>8, <1>10 DEF NInv
(***************************************************************************)
(* A new note: it is put behind what can be read, and those before it are  *)
(* one note further from being forgotten.                                  *)
(***************************************************************************)
LEMMA NoteAsked ==
  ASSUME ReadsAreSound, TextsAreNotes, NInv, NEW size \in Size, WriteNote(size)
  PROVE  NInv'
<1>1. PICK m \in Nat : m = Len(said) /\ m < MaxNotes
  BY LenProperties DEF NInv, Said, WriteNote
<1>2. PICK e \in Note : e = [n |-> m + 1, size |-> size]
  <2>1. m + 1 \in 0 .. MaxNotes
    BY <1>1, NotebookAssumption
  <2> QED BY <2>1 DEF Note
<1>3. PICK last \in Saying : last = [note |-> e, fate |-> "asked"]
  BY <1>2 DEF Saying
<1>4. PICK prior \in Prior : Store(Fit(Append(prior, e)))
  BY <1>1, <1>2 DEF WriteNote
<1>5. said' = Append(said, last)
  BY <1>1, <1>2, <1>3 DEF WriteNote
<1>6. /\ said' \in Seq(Saying) /\ Len(said') = m + 1 /\ said'[m + 1] = last
      /\ \A k \in 1 .. m : said'[k] = said[k]
  BY <1>1, <1>5, AppendProperties DEF NInv, Said
<1>7. prior = Loadable
  BY <1>4 DEF Prior, Seen, ReadsAreSound, Loadable
<1>8. PICK text \in Seq(Note) : text = Fit(Append(Loadable, e)) /\ Store(text)
  <2>1. Append(Loadable, e) \in Seq(Note)
    BY <1>2, AppendProperties DEF NInv, Book
  <2> QED BY <1>4, <1>7, <2>1, FitIsEnd
<1>9. file' = file /\ Loadable' = Loadable /\ job'.text = text
  BY <1>8 DEF Store, Loadable
<1>10. IInv'
  BY <1>8, NextIInv DEF NInv, Next, TextsAreNotes
<1>11. PICK l \in Nat : l = Len(Loadable)
  BY LenProperties DEF NInv, Book
<1>12. \A i \in 1 .. l : Loadable[i].n <= m /\ Loadable[i].n \in Nat
  <2>1. ASSUME NEW i \in 1 .. l PROVE Loadable[i].n <= m /\ Loadable[i].n \in Nat
    <3>1. Loadable[i] \in Note
      BY <1>11, ElementOfSeq DEF NInv, Book
    <3>2. Loadable[i].n \in Nat
      BY <3>1, NotebookAssumption DEF Note
    <3> QED BY <1>1, <1>11, <3>2 DEF NInv, Book, Genuine
  <2> QED BY <2>1
<1>13. Said'
  <2>1. ASSUME NEW k \in 1 .. m + 1 PROVE said'[k].note.n = k
    <3>1. CASE k = m + 1
      BY <1>2, <1>3, <1>6, <3>1
    <3>2. CASE k # m + 1
      <4>1. k \in 1 .. m
        BY <1>1, <3>2
      <4> QED BY <1>1, <1>6, <4>1 DEF NInv, Said
    <3> QED BY <3>1, <3>2
  <2> QED BY <1>6, <2>1 DEF Said
<1>14. Book'
  <2>1. ASSUME NEW i \in 1 .. l
        PROVE  Loadable[i].n <= m + 1 /\ (Loadable[i].n > 0 => Loadable[i] = said'[Loadable[i].n].note)
    <3>1. Loadable[i].n > 0 => Loadable[i].n \in 1 .. m
      BY <1>12
    <3>2. Loadable[i].n > 0 => Loadable[i] = said[Loadable[i].n].note
      BY <1>11 DEF NInv, Book, Genuine
    <3> QED BY <1>1, <1>6, <1>12, <3>1, <3>2
  <2> QED BY <1>6, <1>9, <1>11, <2>1 DEF NInv, Book, Genuine, Sorted
<1>15. InHand'
  <2>1. \A i \in 1 .. l : Loadable[i].n < m + 1
    BY <1>1, <1>12
  <2>2. m + 1 > 0 /\ said'[m + 1].note = e
    BY <1>1, <1>3, <1>6
  <2> QED BY <1>6, <1>8, <1>9, <1>11, <2>1, <2>2 DEF InHand
<1>16. ASSUME NEW k \in 1 .. m, Remembers(Loadable, k)
       PROVE  Has(Loadable, k) \/ Weight(SaidFrom(k)') > Capacity
  <2>1. CASE Has(Loadable, k)
    BY <2>1
  <2>2. CASE Weight(SaidFrom(k)) > Capacity
    <3>1. DOMAIN said = 1 .. m /\ DOMAIN said' = 1 .. m + 1 /\ m + 1 \in 1 .. m + 1
      BY <1>1, <1>6, LenProperties DEF NInv, Said
    <3>2. Notes \in Seq(Note) /\ Len(Notes) = m /\ \A i \in 1 .. m : Notes[i] = said[i].note
      BY <1>1, NotesSaid DEF NInv
    <3>3. PICK t : t = Append(Notes, e)
      OBVIOUS
    <3>4. t \in Seq(Note) /\ Len(t) = m + 1 /\ t[m + 1] = e /\ \A i \in 1 .. m : t[i] = Notes[i]
      BY <1>2, <3>2, <3>3, AppendProperties
    <3>5. [i \in DOMAIN said' |-> said'[i].note] = t
      <4>1. ASSUME NEW i \in 1 .. m + 1 PROVE said'[i].note = t[i]
        <5>1. CASE i = m + 1
          BY <1>3, <1>6, <3>4, <5>1
        <5>2. CASE i # m + 1
          <6>1. i \in 1 .. m
            BY <1>1, <5>2
          <6> QED BY <1>6, <3>2, <3>4, <6>1
        <5> QED BY <5>1, <5>2
      <4>2. t = [i \in 1 .. m + 1 |-> t[i]]
        BY <3>4, LenProperties
      <4> QED BY <3>1, <4>1, <4>2
    <3>6. SaidFrom(k)' = SubSeq(t, k, m + 1) /\ SaidFrom(k) = SubSeq(Notes, k, m)
      BY <1>1, <1>6, <3>5 DEF SaidFrom, Notes
    <3>7. SubSeq(Notes, k, m) \in Seq(Note)
      BY <3>2, ElementOfSeq, SubSeqProperties
    <3>8. SubSeq(t, k, m + 1) = Append(SubSeq(Notes, k, m), e)
      <4>1. SubSeq(t, k, m) = SubSeq(Notes, k, m)
        <5>1. \A i \in k .. m : Notes[i] \in Note /\ t[i] \in Note /\ t[i] = Notes[i]
          BY <3>2, <3>4, ElementOfSeq
        <5>2. PICK u, v : u = SubSeq(t, k, m) /\ v = SubSeq(Notes, k, m)
          OBVIOUS
        <5>3. /\ u \in Seq(Note) /\ Len(u) = m - k + 1 /\ \A i \in 1 .. m - k + 1 : u[i] = t[k + i - 1]
              /\ v \in Seq(Note) /\ Len(v) = m - k + 1 /\ \A i \in 1 .. m - k + 1 : v[i] = Notes[k + i - 1]
          BY <1>1, <5>1, <5>2, SubSeqProperties
        <5>4. \A i \in 1 .. m - k + 1 : u[i] = v[i]
          <6>1. \A i \in 1 .. m - k + 1 : k + i - 1 \in k .. m
            BY <1>1
          <6> QED BY <5>1, <5>3, <6>1
        <5> QED BY <5>2, <5>3, <5>4, SeqEqual
      <4>2. SubSeq(t, k, m + 1) = SubSeq(t, k, m) \o <<t[m + 1]>>
        <5>1. k \in 1 .. Len(t) /\ m + 1 \in k .. Len(t) /\ m + 1 - 1 = m
          BY <1>1, <3>4
        <5>2. SubSeq(t, k, m + 1) = SubSeq(t, k, m + 1 - 1) \o <<t[m + 1]>>
          BY <3>4, <5>1, SubSeqRecursiveSecond
        <5> QED BY <5>1, <5>2
      <4>3. Append(SubSeq(Notes, k, m), e) = SubSeq(Notes, k, m) \o <<e>>
        BY <1>2, <3>7, AppendIsConcat
      <4> QED BY <3>4, <4>1, <4>2, <4>3
    <3>9. Weight(SaidFrom(k)') = Weight(SaidFrom(k)) + e.size
      BY <1>2, <3>6, <3>7, <3>8, WeightAppend
    <3>10. Weight(SaidFrom(k)) \in Nat /\ e.size \in Nat /\ Capacity \in Nat
      BY <1>2, <3>6, <3>7, WeightType, Sizes, NotebookAssumption
    <3> QED BY <2>2, <3>9, <3>10
  <2> QED BY <1>16, <2>1, <2>2 DEF Remembers
<1>17. KeptStay'
  <2>1. ASSUME NEW k \in 1 .. m + 1, said'[k].fate = "kept"
        PROVE  Has(Loadable, k) \/ Weight(SaidFrom(k)') > Capacity
    <3>1. k # m + 1
      BY <1>3, <1>6, <2>1
    <3>2. k \in 1 .. m
      BY <1>1, <3>1
    <3>3. said[k].fate = "kept"
      BY <1>6, <2>1, <3>2
    <3> QED BY <1>1, <1>16, <3>2, <3>3 DEF NInv, KeptStay
  <2> QED BY <1>6, <1>9, <2>1 DEF KeptStay, Remembers, Has
<1> QED BY <1>10, <1>13, <1>14, <1>15, <1>17 DEF NInv

(***************************************************************************)
(* The answer of a store is put down with the latest note.                 *)
(***************************************************************************)
LEMMA Answered ==
  ASSUME ReadsAreSound, NInv, StoreNotes
  PROVE  NInv'
<1>1. IInv /\ WriteFile
  BY DEF NInv, StoreNotes
<1>2. IInv'
  BY <1>1, NextIInv DEF Next
<1>3. /\ Writing /\ job' = job
      /\ Loadable' = Loadable \/ Loadable' = job.text
      /\ Writing' => Loadable' = Loadable
      /\ pc' = "idle" => told' \in {"kept", "refused"} /\ (told' = "kept" => Loadable' = job.text)
  BY <1>1, WriteSteps
<1>4. PICK m \in Nat : m = Len(said) /\ m > 0
  BY <1>3, LenProperties DEF NInv, Said, InHand
<1>5. said \in Seq(Saying)
  BY DEF NInv, Said
<1>6. SameNotes /\ KeptWhenRead
  <2>1. CASE pc' = "idle"
    <3>1. PICK last \in Saying : last = [said[m] EXCEPT !.fate = told']
      <4>1. said[m] \in Saying
        BY <1>4, <1>5, ElementOfSeq
      <4> QED BY <1>3, <2>1, <4>1 DEF Saying
    <3>2. said' = [said EXCEPT ![m] = last]
      BY <1>4, <2>1, <3>1 DEF StoreNotes
    <3>3. /\ said' \in Seq(Saying) /\ Len(said') = m /\ said'[m] = last
          /\ \A k \in 1 .. m : k # m => said'[k] = said[k]
      BY <1>4, <1>5, <3>2, ExceptSeq
    <3>4. said[m] \in Saying
      BY <1>4, <1>5, ElementOfSeq
    <3>5. last.note = said[m].note /\ last.fate = told'
      BY <3>1, <3>4 DEF Saying
    <3>6. SameNotes
      BY <1>4, <3>3, <3>5 DEF SameNotes
    <3>7. KeptWhenRead
      <4>1. ASSUME NEW k \in 1 .. m, said'[k].fate = "kept", said[k].fate # "kept"
            PROVE  k = m /\ Loadable' = job.text
        BY <1>3, <2>1, <3>3, <3>5, <4>1
      <4> QED BY <1>3, <1>4, <4>1 DEF KeptWhenRead
    <3> QED BY <3>6, <3>7
  <2>2. CASE pc' # "idle"
    <3>1. said' = said
      BY <2>2 DEF StoreNotes
    <3> QED BY <1>5, <3>1 DEF SameNotes, KeptWhenRead
  <2> QED BY <2>1, <2>2
<1> QED BY <1>2, <1>3, <1>6, Keeps

(***************************************************************************)
(* No step of the notebook leaves the invariant.                           *)
(***************************************************************************)
LEMMA NextNInv ==
  ASSUME ReadsAreSound, TextsAreNotes, NInv, [NotebookNext]_<<vars, said>>
  PROVE  NInv'
<1>1. ASSUME NEW size \in Size, WriteNote(size) PROVE NInv'
  BY <1>1, NoteAsked
<1>2. CASE StoreNotes
  BY <1>2, Answered
<1>3. ASSUME UNCHANGED said, IInv',
             Loadable' = Loadable \/ (Writing /\ Loadable' = job.text),
             Writing' => Writing /\ job' = job /\ Loadable' = Loadable
      PROVE  NInv'
  <2>1. SameNotes /\ KeptWhenRead
    BY <1>3 DEF NInv, Said, SameNotes, KeptWhenRead
  <2> QED BY <1>3, <2>1, Keeps
<1>4. CASE PowerLoss /\ UNCHANGED said
  <2>1. IInv'
    BY <1>4, NextIInv DEF Next, NInv
  <2>2. Loadable' = Loadable \/ (Writing /\ Loadable' = job.text)
    <3>1. CASE pc = "write"
      BY <1>4, <3>1, PartialWriteAndLoadable DEF PowerLoss, NInv, Writing
    <3>2. CASE pc # "write"
      BY <1>4, <3>2 DEF PowerLoss, Loadable
    <3> QED BY <3>1, <3>2
  <2>3. ~Writing'
    BY <1>4 DEF PowerLoss, Writing
  <2> QED BY <1>3, <1>4, <2>1, <2>2, <2>3
<1>5. CASE PowerOn
  <2>1. IInv'
    BY <1>5 DEF PowerOn, NInv, IInv, TypeOK, GenerationsReal, PlanSound, NoGenerationTwice, Writing
  <2>2. Loadable' = Loadable /\ ~Writing' /\ UNCHANGED said
    BY <1>5 DEF PowerOn, Loadable, Writing
  <2> QED BY <1>3, <2>1, <2>2
<1>6. CASE UNCHANGED <<vars, said>>
  <2>1. IInv'
    BY <1>6, NextIInv DEF vars, NInv
  <2>2. Loadable' = Loadable /\ job' = job /\ UNCHANGED said /\ (Writing' => Writing)
    BY <1>6 DEF vars, Loadable, Writing
  <2> QED BY <1>3, <2>1, <2>2
<1> QED BY <1>1, <1>2, <1>4, <1>5, <1>6 DEF NotebookNext

(***************************************************************************)
(* A new notebook, or the file that was there, satisfies the invariant.    *)
(***************************************************************************)
LEMMA InitNInv ==
  ASSUME StartsAsFile, NotebookInit
  PROVE  NInv
<1>1. Loadable = Genesis
  <2>1. file = [s \in Slot |-> Absent] /\ "A" \in Slot /\ "B" \in Slot
    BY DEF NotebookInit, Init, Slot
  <2>2. Open(file["A"]) = 0 /\ Open(file["B"]) = 0
    BY <2>1, UnreadableTypes DEF Open
  <2> QED BY <2>2 DEF Loadable, Newest
<1>2. IInv
  BY InitIInv DEF NotebookInit
<1>3. said = <<>> /\ Len(said) = 0 /\ said \in Seq(Saying)
  BY EmptySeq DEF NotebookInit
<1>4. PICK l \in Nat : l = Len(Genesis) /\ l <= 1 /\ \A i \in 1 .. l : Genesis[i].n = 0
  BY LenProperties DEF StartsAsFile
<1>5. Sorted(Genesis) /\ Genuine(Genesis)
  <2>1. \A i, k \in 1 .. l : ~(i < k)
    BY <1>4
  <2> QED BY <1>3, <1>4, <2>1 DEF Sorted, Genuine
<1>6. Book
  BY <1>1, <1>5 DEF Book, StartsAsFile
<1>7. ~Writing
  BY DEF NotebookInit, Init, Writing
<1> QED BY <1>2, <1>3, <1>6, <1>7 DEF NInv, Said, InHand, KeptStay

--------------------------------------------------------------------------------
(***************************************************************************)
(* AlwaysFits: the notebook never holds more than its capacity.            *)
(***************************************************************************)
THEOREM AlwaysFits ==
  ASSUME ReadsAreSound, TextsAreNotes, StartsAsFile
  PROVE  NotebookSpec => []NotesFit
<1>1. NInv => NotesFit
  BY DEF NInv, Book, NotesFit
<1>2. NInv /\ [NotebookNext]_<<vars, said>> => NInv'
  BY NextNInv
<1>3. NotebookInit => NInv
  BY InitNInv
<1> QED BY <1>1, <1>2, <1>3, PTL DEF NotebookSpec

(***************************************************************************)
(* ToldIsKept: a note told to be written is read until the later ones fill *)
(* the notebook, in the order it was said.                                 *)
(***************************************************************************)
THEOREM ToldIsKept ==
  ASSUME ReadsAreSound, TextsAreNotes, StartsAsFile
  PROVE  NotebookSpec => []KeptNotesStay
<1>1. NInv => KeptNotesStay
  <2>1. SUFFICES ASSUME NInv PROVE KeptNotesStay
    OBVIOUS
  <2>2. DOMAIN said = 1 .. Len(said) /\ DOMAIN Loadable = 1 .. Len(Loadable)
    BY <2>1, LenProperties DEF NInv, Said, Book
  <2> QED BY <2>1, <2>2 DEF NInv, Book, KeptStay, Remembers, Has, Holds, Sorted, KeptNotesStay
<1>2. NInv /\ [NotebookNext]_<<vars, said>> => NInv'
  BY NextNInv
<1>3. NotebookInit => NInv
  BY InitNInv
<1> QED BY <1>1, <1>2, <1>3, PTL DEF NotebookSpec

(***************************************************************************)
(* NothingReturns: a step changes the notebook only by the latest note and *)
(* what it pushes out; no step brings an older notebook back.              *)
(***************************************************************************)
THEOREM NothingReturns ==
  ASSUME ReadsAreSound, TextsAreNotes, StartsAsFile
  PROVE  NotebookSpec => NotesOnlyGrow
<1>1. ASSUME NInv, [NotebookNext]_<<vars, said>>, Loadable' # Loadable
      PROVE  Loadable' = Fit(Append(Loadable, Last(said).note)) /\ pc = "write"
  <2>1. Loadable' = job.text /\ pc = "write"
    <3>1. ASSUME NEW size \in Size, WriteNote(size) PROVE FALSE
      BY <1>1, <3>1 DEF WriteNote, Store, Loadable
    <3>2. CASE StoreNotes
      BY <1>1, <3>2, WriteSteps DEF StoreNotes, NInv
    <3>3. CASE PowerLoss /\ UNCHANGED said
      <4>1. CASE pc = "write"
        BY <1>1, <3>3, <4>1, PartialWriteAndLoadable DEF PowerLoss, NInv
      <4>2. CASE pc # "write"
        BY <1>1, <3>3, <4>2 DEF PowerLoss, Loadable
      <4> QED BY <4>1, <4>2
    <3>4. ~PowerOn /\ ~UNCHANGED <<vars, said>>
      BY <1>1 DEF PowerOn, vars, Loadable
    <3> QED BY <1>1, <3>1, <3>2, <3>3, <3>4 DEF NotebookNext
  <2> QED BY <1>1, <2>1 DEF NInv, InHand, Writing, Last
<1>2. NInv /\ [NotebookNext]_<<vars, said>> =>
        [Loadable' # Loadable =>
           /\ Loadable' = Fit(Append(Loadable, Last(said).note))
           /\ pc = "write"]_<<vars, said>>
  BY <1>1
<1>3. NInv /\ [NotebookNext]_<<vars, said>> => NInv'
  BY NextNInv
<1>4. NotebookInit => NInv
  BY InitNInv
<1> QED BY <1>2, <1>3, <1>4, PTL DEF NotebookSpec, NotesOnlyGrow
================================================================================
