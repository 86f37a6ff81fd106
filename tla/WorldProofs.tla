------------------------------ MODULE WorldProofs ------------------------------
(***************************************************************************)
(* Theorems about module World, for every set of paths, texts and          *)
(* spellings, however the folders nest, and for every sequence of          *)
(* requests, failing firmware calls and power losses.                      *)
(***************************************************************************)
EXTENDS World, TLAPS

\* Which operations have which firmware calls, and what their answers need.
PhaseOfVerb ==
  /\ pc = "clear" => job.verb \in {"fs.write", "web.save", "fs.move"}
  /\ pc = "make" => job.verb \in {"fs.write", "web.save", "fs.move", "fs.mkdir"}
  /\ pc = "fill" => job.verb \in {"fs.write", "web.save"}
  /\ pc = "copy" => job.verb = "fs.move"
  /\ pc = "unlink" => job.verb \in {"fs.delete", "fs.move"}
  /\ pc = "off" => told # "done"

\* Every operation but a move has one path, and the gate let no delete, write
\* or move through that names the marker in plain spelling; a mkdir starts when
\* the marker is there.
Guarded ==
  /\ job.verb # "fs.move" => job.src = job.dst
  /\ job.verb \in {"fs.write", "fs.delete", "fs.move"} => ~Plain(job.name)
  /\ (pc = "make" /\ job.verb = "fs.mkdir") => Exists(Marker)

\* Where the file being moved is, call by call.
MoveSafe ==
  job.verb = "fs.move" =>
    /\ job.was.kind = "file" => job.text = job.was
    /\ pc \in {"clear", "make"} => job.copied = 0
    /\ job.copied <= job.text.n
    /\ (ProperMove /\ job.src # job.dst) =>
         /\ pc \in {"clear", "make", "copy", "unlink"} => Holds(job.src, job.was)
         /\ (pc = "copy" /\ job.copied > 0) => disk[job.dst] = File(job.text.of, job.copied)
         /\ pc = "unlink" => Holds(job.dst, job.was)

\* The inductive invariant.
IInv == TypeOK /\ PhaseOfVerb /\ Guarded /\ MoveSafe /\ MoveLosesNothing /\ ToldTrue

(***************************************************************************)
(* What a path may hold is of the disk's type.                             *)
(***************************************************************************)
LEMMA EntryTypes ==
  /\ Nothing \in Entry /\ Folder \in Entry
  /\ \A t \in Text, k \in Nat : File(t, k) \in Entry
  /\ \A e \in Entry : Bytes(e) \in Entry
  <1>1. Certificate \in Text /\ Listing \in Text /\ Chunks[Listing] \in Nat
    BY WorldAssumption
  <1>2. /\ Nothing \in Entry /\ Folder \in Entry
        /\ \A t \in Text, k \in Nat : File(t, k) \in Entry
    BY <1>1 DEF Nothing, Folder, File, Entry
  <1>3. \A e \in Entry : Bytes(e) \in Entry
    BY <1>1, <1>2 DEF Bytes
  <1>4. QED BY <1>2, <1>3

(***************************************************************************)
(* A job of the five operations is of the job's type.                      *)
(***************************************************************************)
LEMMA JobTypes ==
  ASSUME NEW src \in Path, NEW dst \in Path, NEW was \in Entry, NEW text \in Entry,
         NEW name \in Spelling \cup {<<>>},
         NEW verb \in {"none", "fs.write", "fs.delete", "fs.mkdir", "fs.move", "web.save"}
  PROVE  NewJob(verb, name, src, dst, was, text) \in Job
  BY DEF NewJob, Job

(***************************************************************************)
(* So is the job of a core that has none.                                  *)
(***************************************************************************)
LEMMA NoJobTypes ==
  NoJob \in Job /\ NoJob.verb = "none" /\ NoJob.src = NoJob.dst
  BY KiraAssumption, JobTypes, EntryTypes DEF NoJob, NewJob

(***************************************************************************)
(* A world disk as make_world.py leaves it satisfies the invariant.        *)
(***************************************************************************)
LEMMA InitIInv == Init => IInv
  <1> SUFFICES ASSUME Init PROVE IInv
    OBVIOUS
  <1>1. Certificate \in Text /\ Chunks[Certificate] \in Nat /\ Marker \in Path
    BY WorldAssumption, KiraAssumption
  <1>2. NoJob \in Job
    BY NoJobTypes
  <1>3. TypeOK
    BY <1>1, <1>2, EntryTypes DEF Init, TypeOK
  <1>4. job.verb = "none" /\ job.src = job.dst
    BY NoJobTypes DEF Init
  <1>5. QED BY <1>3, <1>4 DEF Init, IInv, PhaseOfVerb, Guarded, MoveSafe,
              MoveLosesNothing, ToldTrue, ProperMove

(***************************************************************************)
(* trim_start_matches cuts what is in front, if something else follows it. *)
(***************************************************************************)
LEMMA TrimmedCutsFront ==
  ASSUME NEW S, NEW s \in Seq(S), NEW c, NEW k \in 0 .. Len(s) - 1,
         \A i \in 1 .. k : s[i] = c, s[k + 1] # c
  PROVE  Trimmed(s, c) = SubSeq(s, k + 1, Len(s))
  <1> DEFINE Stands(n) == (\A i \in 1 .. n : s[i] = c) /\ (n < Len(s) => s[n + 1] # c)
  <1>1. Len(s) \in Nat /\ k \in 0 .. Len(s)
    OBVIOUS
  <1>2. Stands(k)
    OBVIOUS
  <1>3. \A n \in 0 .. Len(s) : Stands(n) => n = k
    <2> SUFFICES ASSUME NEW n \in 0 .. Len(s), Stands(n), n # k PROVE FALSE
      OBVIOUS
    <2>1. CASE n < k
      <3>1. s[n + 1] = c
        BY <1>1, <2>1
      <3>2. QED BY <1>1, <2>1, <3>1
    <2>2. CASE n > k
      <3>1. k + 1 \in 1 .. n
        BY <1>1, <2>2
      <3>2. QED BY <3>1
    <2>3. QED BY <1>1, <2>1, <2>2
  <1>4. Leading(s, c) = CHOOSE n \in 0 .. Len(s) : Stands(n)
    BY DEF Leading
  <1> HIDE DEF Stands
  <1>5. Leading(s, c) = k
    BY <1>1, <1>2, <1>3, <1>4
  <1>6. QED BY <1>5 DEF Trimmed

(***************************************************************************)
(* normalize_world_path makes WORLD.ID of every plain spelling of it.      *)
(***************************************************************************)
LEMMA PlainIsNormalized ==
  ASSUME NEW s \in Spelling, Plain(s)
  PROVE  normalize_world_path(s) = Marker
  <1> DEFINE Token == Word \cup {"/", "\\", ".", ".."}
             last == s[Len(s)]
  <1>1. s \in Seq(Token) /\ s # <<>>
    BY KiraAssumption
  <1>2. Len(s) \in Nat /\ Len(s) > 0
    BY <1>1
  <1>3. PICK k \in 0 .. Len(s) - 1 :
          /\ \A i \in 1 .. k : s[i] = "\\"
          /\ \A i \in k + 1 .. Len(s) - 1 : s[i] = "/"
          /\ last \in Word /\ <<Upper[last]>> = Marker
    BY DEF Plain
  <1>4. last # "/" /\ last # "\\"
    BY <1>3, KiraAssumption
  <1>5. s[k + 1] # "\\"
    <2>1. CASE k + 1 = Len(s)
      BY <1>4, <2>1
    <2>2. CASE k + 1 # Len(s)
      <3>1. k + 1 \in k + 1 .. Len(s) - 1
        BY <1>2, <2>2
      <3>2. QED BY <1>3, <3>1
    <2>3. QED BY <2>1, <2>2
  <1> DEFINE t == SubSeq(s, k + 1, Len(s))
             m == Len(s) - k - 1
  <1>6. Trimmed(s, "\\") = t
    BY <1>1, <1>3, <1>5, TrimmedCutsFront
  <1>7. /\ t \in Seq(Token) /\ Len(t) = m + 1
        /\ \A i \in 1 .. m + 1 : t[i] = s[k + i]
    BY <1>1, <1>2
  <1>8. m \in 0 .. Len(t) - 1
    BY <1>2, <1>7
  <1>9. \A i \in 1 .. m : t[i] = "/"
    <2> SUFFICES ASSUME NEW i \in 1 .. m PROVE t[i] = "/"
      OBVIOUS
    <2>1. k + i \in k + 1 .. Len(s) - 1 /\ i \in 1 .. m + 1
      BY <1>2
    <2>2. QED BY <1>3, <1>7, <2>1
  <1>10. t[m + 1] = last
    <2>1. m + 1 \in 1 .. m + 1 /\ k + (m + 1) = Len(s)
      BY <1>2, <1>8
    <2>2. QED BY <1>7, <2>1
  <1> HIDE DEF t, m, Token
  <1>11. Trimmed(t, "/") = SubSeq(t, m + 1, Len(t))
    BY <1>4, <1>7, <1>8, <1>9, <1>10, TrimmedCutsFront
  <1>12. SubSeq(t, m + 1, Len(t)) = <<last>>
    <2>1. m \in Nat /\ m + 1 = Len(t)
      BY <1>7, <1>8
    <2>2. Len(SubSeq(t, m + 1, Len(t))) = 1
      BY <1>7, <2>1
    <2>3. SubSeq(t, m + 1, Len(t))[1] = t[m + 1]
      BY <1>7, <2>1
    <2>4. SubSeq(t, m + 1, Len(t)) \in Seq(Token)
      BY <1>7, <2>1
    <2>5. ASSUME NEW u \in Seq(Token), Len(u) = 1 PROVE u = <<u[1]>>
      BY <2>5
    <2>6. QED BY <1>10, <2>2, <2>3, <2>4, <2>5
  <1>13. Letter(last) = Upper[last]
    BY <1>3 DEF Letter
  <1>14. normalize_world_path(s) = [i \in 1 .. Len(<<last>>) |-> Letter(<<last>>[i])]
    BY <1>6, <1>11, <1>12 DEF normalize_world_path
  <1>15. normalize_world_path(s) = <<Letter(last)>>
    BY <1>14
  <1>16. QED BY <1>3, <1>13, <1>15

(***************************************************************************)
(* A request that the gate granted does not name, in plain spelling, the   *)
(* marker as what it deletes, writes or moves from.                        *)
(***************************************************************************)
LEMMA GrantedSparesMarker ==
  ASSUME NEW verb \in {"fs.write", "fs.delete", "fs.move"}, NEW s \in Spelling, NEW to,
         NEW b, Verdict(UseLimb(verb, s, to, FALSE), b) = "granted"
  PROVE  ~Plain(s)
  <1>1. ~MarkerHit(UseLimb(verb, s, to, FALSE))
    BY DEF Verdict, Permitted
  <1>2. normalize_world_path(s) # Marker
    BY <1>1 DEF MarkerHit, Guards, UseLimb, Request
  <1>3. QED BY <1>2, PlainIsNormalized

(***************************************************************************)
(* What a granted request names opens a path of the disk.                  *)
(***************************************************************************)
LEMMA GrantedOpens ==
  ASSUME NEW verb \in OnePath \cup {"fs.move", "web.save"}, NEW s, NEW to, NEW b,
         Verdict(UseLimb(verb, s, to, FALSE), b) = "granted"
  PROVE  /\ verb # "web.save" /\ s \in Spelling => Opened(s) \in Path
         /\ verb \in {"fs.move", "web.save"} /\ to \in Spelling => Opened(to) \in Path
  <1>1. Valid(UseLimb(verb, s, to, FALSE))
    BY DEF Verdict
  <1>2. /\ verb # "web.save" => valid_world_path(s)
        /\ verb \in {"fs.move", "web.save"} => valid_world_path(to)
    BY <1>1 DEF Valid, UseLimb, Request
  <1>3. QED BY <1>2, KiraAssumption

(***************************************************************************)
(* Dispatch of an operation other than a move keeps the invariant.         *)
(***************************************************************************)
LEMMA BeginKeepsIInv ==
  ASSUME IInv, NEW a, NEW first, NEW newJob \in Job, NEW refusal \in BOOLEAN,
         Begin(a, first, newJob, refusal),
         newJob.verb # "fs.move", newJob.src = newJob.dst,
         newJob.verb \in {"fs.write", "fs.delete"} => ~Plain(newJob.name),
         \/ first = "clear" /\ newJob.verb \in {"fs.write", "web.save"}
         \/ first = "unlink" /\ newJob.verb = "fs.delete"
         \/ first = "make" /\ newJob.verb = "fs.mkdir" /\ (refusal \/ Exists(Marker))
  PROVE  IInv'
  <1>1. /\ disk' = disk /\ plugged' = plugged /\ body' = body
        /\ \/ refusal /\ pc' = "idle" /\ told' = "refused" /\ job' = NoJob
           \/ ~refusal /\ pc' = first /\ told' = "nothing" /\ job' = newJob
    BY DEF Begin, Answer
  <1>2. job' \in Job /\ job'.verb # "fs.move" /\ job'.src = job'.dst
    BY <1>1, NoJobTypes
  <1>3. TypeOK'
    BY <1>1, <1>2 DEF IInv, TypeOK
  <1>4. PhaseOfVerb' /\ Guarded'
    BY <1>1, <1>2, NoJobTypes DEF PhaseOfVerb, Guarded, Exists
  <1>5. MoveSafe' /\ MoveLosesNothing' /\ ToldTrue'
    BY <1>1, <1>2 DEF MoveSafe, MoveLosesNothing, ToldTrue, ProperMove
  <1>6. QED BY <1>3, <1>4, <1>5 DEF IInv

(***************************************************************************)
(* Every request, granted or denied, keeps the invariant.                  *)
(***************************************************************************)
LEMMA ProposalKeepsIInv ==
  ASSUME IInv, Proposal
  PROVE  IInv'
  <1> USE EntryTypes
  <1>1. TypeOK /\ disk \in [Path -> Entry]
    BY DEF IInv, TypeOK
  <1>2. WorldPresent => Exists(Marker)
    BY DEF WorldPresent, Exists, File
  <1>3. ASSUME NEW s \in Spelling, NEW t \in Text, Write(s, t) PROVE IInv'
    <2> DEFINE p == Opened(s)
               j == NewJob("fs.write", s, p, p, Nothing, File(t, Chunks[t]))
    <2>1. Begin(UseLimb("fs.write", s, <<>>, FALSE), "clear", j, ~WorldPresent)
      BY <1>3 DEF Write
    <2>2. Verdict(UseLimb("fs.write", s, <<>>, FALSE), body) = "granted"
      BY <2>1 DEF Begin
    <2>3. p \in Path /\ ~Plain(s)
      BY <2>2, GrantedOpens, GrantedSparesMarker DEF OnePath
    <2>4. Chunks[t] \in Nat
      BY WorldAssumption
    <2>5. j \in Job
      BY <2>3, <2>4, JobTypes
    <2>6. j.verb = "fs.write" /\ j.name = s /\ j.src = p /\ j.dst = p
      BY DEF NewJob
    <2> HIDE DEF j, p
    <2>7. QED BY <2>1, <2>3, <2>5, <2>6, BeginKeepsIInv
  <1>4. ASSUME NEW s \in Spelling, NEW t \in Text, Save(s, t) PROVE IInv'
    <2> DEFINE p == Opened(s)
               j == NewJob("web.save", <<>>, p, p, Nothing, File(t, Chunks[t]))
    <2>1. PICK answered \in BOOLEAN :
            Begin(UseLimb("web.save", <<>>, s, FALSE), "clear", j, ~(WorldPresent /\ answered))
      BY <1>4 DEF Save
    <2>2. Verdict(UseLimb("web.save", <<>>, s, FALSE), body) = "granted"
      BY <2>1 DEF Begin
    <2>3. p \in Path
      BY <2>2, GrantedOpens
    <2>4. Chunks[t] \in Nat
      BY WorldAssumption
    <2>5. j \in Job
      BY <2>3, <2>4, JobTypes
    <2>6. j.verb = "web.save" /\ j.src = p /\ j.dst = p
      BY DEF NewJob
    <2> HIDE DEF j, p
    <2>7. QED BY <2>1, <2>5, <2>6, BeginKeepsIInv
  <1>5. ASSUME NEW s \in Spelling, Delete(s) PROVE IInv'
    <2> DEFINE p == Opened(s)
               j == NewJob("fs.delete", s, p, p, Nothing, Nothing)
    <2>1. Begin(UseLimb("fs.delete", s, <<>>, FALSE), "unlink", j, ~(WorldPresent /\ Exists(p)))
      BY <1>5 DEF Delete
    <2>2. Verdict(UseLimb("fs.delete", s, <<>>, FALSE), body) = "granted"
      BY <2>1 DEF Begin
    <2>3. p \in Path /\ ~Plain(s)
      BY <2>2, GrantedOpens, GrantedSparesMarker DEF OnePath
    <2>4. j \in Job
      BY <2>3, JobTypes
    <2>5. j.verb = "fs.delete" /\ j.name = s /\ j.src = p /\ j.dst = p
      BY DEF NewJob
    <2> HIDE DEF j, p
    <2>6. QED BY <2>1, <2>3, <2>4, <2>5, BeginKeepsIInv
  <1>6. ASSUME NEW s \in Spelling, MakeFolder(s) PROVE IInv'
    <2> DEFINE p == Opened(s)
               j == NewJob("fs.mkdir", s, p, p, Nothing, Nothing)
    <2>1. Begin(UseLimb("fs.mkdir", s, <<>>, FALSE), "make", j, ~WorldPresent)
      BY <1>6 DEF MakeFolder
    <2>2. Verdict(UseLimb("fs.mkdir", s, <<>>, FALSE), body) = "granted"
      BY <2>1 DEF Begin
    <2>3. p \in Path
      BY <2>2, GrantedOpens DEF OnePath
    <2>4. j \in Job
      BY <2>3, JobTypes
    <2>5. j.verb = "fs.mkdir" /\ j.src = p /\ j.dst = p
      BY DEF NewJob
    <2> HIDE DEF j, p
    <2>6. QED BY <1>2, <2>1, <2>4, <2>5, BeginKeepsIInv
  <1>7. ASSUME NEW s \in Spelling, NEW to \in Spelling, Move(s, to) PROVE IInv'
    <2> DEFINE src == Opened(s)
               dst == Opened(to)
               j == NewJob("fs.move", s, src, dst, disk[src], Bytes(disk[src]))
    <2>1. /\ Verdict(UseLimb("fs.move", s, to, FALSE), body) = "granted"
          /\ disk' = disk /\ plugged' = plugged /\ body' = body
          /\ \/ pc' = "idle" /\ told' = "refused" /\ job' = NoJob
             \/ pc' = "clear" /\ told' = "nothing" /\ job' = j
      BY <1>7 DEF Move, Begin, Answer
    <2>2. src \in Path /\ dst \in Path /\ ~Plain(s)
      BY <2>1, GrantedOpens, GrantedSparesMarker
    <2>3. disk[src] \in Entry /\ Bytes(disk[src]) \in Entry
      BY <1>1, <2>2
    <2>4. j \in Job
      BY <2>2, <2>3, JobTypes
    <2>5. /\ j.verb = "fs.move" /\ j.name = s /\ j.src = src /\ j.dst = dst /\ j.copied = 0
          /\ j.was = disk[src] /\ j.text = Bytes(disk[src])
      BY DEF NewJob
    <2>6. j.was.kind = "file" => j.text = j.was
      BY <2>5 DEF Bytes
    <2>7. j.text.n \in Nat
      BY <2>3, <2>5 DEF Entry
    <2> HIDE DEF j, src, dst
    <2>8. CASE pc' = "idle" /\ told' = "refused" /\ job' = NoJob
      BY <1>1, <2>1, <2>8, NoJobTypes
      DEF IInv, TypeOK, PhaseOfVerb, Guarded, ToldTrue, MoveSafe, MoveLosesNothing, ProperMove
    <2>9. CASE pc' = "clear" /\ told' = "nothing" /\ job' = j
      <3>1. TypeOK'
        BY <1>1, <2>1, <2>4, <2>9 DEF TypeOK
      <3>2. PhaseOfVerb' /\ Guarded' /\ ToldTrue'
        BY <2>2, <2>5, <2>9 DEF PhaseOfVerb, Guarded, ToldTrue
      <3>3. ProperMove' => Holds(src, disk[src])'
        BY <2>1, <2>5, <2>9 DEF ProperMove, Holds
      <3>4. MoveSafe' /\ MoveLosesNothing'
        BY <2>1, <2>5, <2>6, <2>7, <2>9, <3>3 DEF MoveSafe, MoveLosesNothing, Holds
      <3>5. QED BY <3>1, <3>2, <3>4 DEF IInv
    <2>10. QED BY <2>1, <2>8, <2>9
  <1>8. CASE Denied
    BY <1>8 DEF Denied, IInv, TypeOK, PhaseOfVerb, Guarded, MoveSafe, MoveLosesNothing,
                ToldTrue, ProperMove, Holds, Exists
  <1>9. QED BY <1>3, <1>4, <1>5, <1>6, <1>7, <1>8 DEF Proposal

(***************************************************************************)
(* Changing what one path holds.                                           *)
(***************************************************************************)
LEMMA PutChanges ==
  ASSUME TypeOK, NEW p \in Path, NEW e \in Entry, Put(p, e)
  PROVE  /\ disk' \in [Path -> Entry]
         /\ disk'[p] = e
         /\ \A q \in Path : q # p => disk'[q] = disk[q]
  BY DEF TypeOK, Put

(***************************************************************************)
(* What lands of a write changes the destination only.                     *)
(***************************************************************************)
LEMMA LandedChanges ==
  ASSUME TypeOK, NEW k \in Nat, Landed(k)
  PROVE  /\ disk' \in [Path -> Entry]
         /\ disk'[job.dst] = File(job.text.of, k)
         /\ \A q \in Path : q # job.dst => disk'[q] = disk[q]
  <1>1. job.dst \in Path /\ job.text.of \in Text
    BY DEF TypeOK, Job, Entry
  <1>2. File(job.text.of, k) \in Entry
    BY <1>1, EntryTypes
  <1>3. QED BY <1>1, <1>2, PutChanges DEF Landed

(***************************************************************************)
(* Every firmware call of world_write, world_mkdir, world_delete and       *)
(* world_move keeps the invariant.                                         *)
(***************************************************************************)
LEMMA FirmwareCallKeepsIInv ==
  ASSUME IInv, FirmwareCall
  PROVE  IInv'
  <1>1. /\ TypeOK /\ PhaseOfVerb /\ Guarded /\ MoveSafe /\ MoveLosesNothing
        /\ disk \in [Path -> Entry] /\ job \in Job
    BY DEF IInv, TypeOK
  <1>2. /\ job.src \in Path /\ job.dst \in Path /\ job.was \in Entry
        /\ job.text \in Entry /\ job.copied \in Nat
    BY <1>1 DEF Job
  <1>3. /\ job.text.n \in Nat /\ job.was.n \in Nat /\ job.text.of \in Text
    BY <1>2 DEF Entry
  <1>4. CASE ClearOld
    <2>1. /\ disk' \in [Path -> Entry]
          /\ \A q \in Path : q # job.dst => disk'[q] = disk[q]
      BY <1>1, <1>2, <1>4, PutChanges, EntryTypes DEF ClearOld
    <2>2. /\ pc = "clear" /\ pc' = "make" /\ job' = job /\ told' = told
          /\ plugged' = plugged /\ body' = body
      BY <1>4 DEF ClearOld
    <2>3. TypeOK'
      BY <1>1, <2>1, <2>2 DEF TypeOK
    <2>4. PhaseOfVerb' /\ Guarded' /\ ToldTrue'
      BY <1>1, <2>2 DEF PhaseOfVerb, Guarded, ToldTrue
    <2>5. (ProperMove /\ job.src # job.dst) => Holds(job.src, job.was)'
      BY <1>1, <1>2, <2>1, <2>2 DEF MoveSafe, ProperMove, Holds
    <2>6. MoveSafe' /\ MoveLosesNothing'
      BY <1>1, <2>2, <2>5 DEF MoveSafe, MoveLosesNothing, ProperMove, Holds
    <2>7. QED BY <2>3, <2>4, <2>6 DEF IInv
  <1>5. CASE CreateNew
    <2>1. /\ disk' \in [Path -> Entry]
          /\ \A q \in Path : q # job.dst => disk'[q] = disk[q]
      BY <1>1, <1>2, <1>3, <1>5, PutChanges, EntryTypes DEF CreateNew
    <2>2. /\ pc = "make" /\ job.verb # "fs.mkdir" /\ job' = job /\ told' = told
          /\ pc' = (IF job.verb = "fs.move" THEN "copy" ELSE "fill")
          /\ plugged' = plugged /\ body' = body
      BY <1>5 DEF CreateNew
    <2>3. TypeOK'
      BY <1>1, <2>1, <2>2 DEF TypeOK
    <2>4. PhaseOfVerb' /\ Guarded' /\ ToldTrue'
      BY <1>1, <2>2 DEF PhaseOfVerb, Guarded, ToldTrue
    <2>5. (ProperMove /\ job.src # job.dst) => Holds(job.src, job.was)'
      BY <1>1, <1>2, <2>1, <2>2 DEF MoveSafe, ProperMove, Holds
    <2>6. MoveSafe' /\ MoveLosesNothing'
      BY <1>1, <1>2, <2>2, <2>5 DEF MoveSafe, MoveLosesNothing, ProperMove, Holds
    <2>7. QED BY <2>3, <2>4, <2>6 DEF IInv
  <1>6. CASE CreateFolder
    <2>1. disk' \in [Path -> Entry] /\ disk'[job.dst].kind # "none"
      BY <1>1, <1>2, <1>6, PutChanges, EntryTypes DEF CreateFolder, Exists, Folder
    <2>2. /\ job.verb = "fs.mkdir" /\ job' = job /\ pc' = "idle" /\ told' = "done"
          /\ plugged' = plugged /\ body' = body
      BY <1>6 DEF CreateFolder, Answer
    <2>3. TypeOK'
      BY <1>1, <2>1, <2>2 DEF TypeOK
    <2>4. QED BY <1>1, <2>1, <2>2, <2>3
          DEF IInv, PhaseOfVerb, Guarded, MoveSafe, MoveLosesNothing, ToldTrue,
              ProperMove, Exists
  <1>7. CASE OpenFails
    <2>1. /\ pc \in {"make", "unlink"} /\ pc' = "idle" /\ told' = "refused"
          /\ UNCHANGED <<disk, plugged, body, job>>
      BY <1>7 DEF OpenFails, Answer
    <2>2. QED BY <1>1, <2>1
          DEF IInv, TypeOK, PhaseOfVerb, Guarded, MoveSafe, MoveLosesNothing, ToldTrue,
              ProperMove, Holds
  <1>8. CASE WriteAll
    <2>1. /\ pc = "fill" /\ job' = job /\ pc' = "idle" /\ told' = "done"
          /\ plugged' = plugged /\ body' = body
      BY <1>8 DEF WriteAll, Answer
    <2>2. disk' \in [Path -> Entry] /\ disk'[job.dst] = File(job.text.of, job.text.n)
      BY <1>1, <1>3, <1>8, LandedChanges DEF WriteAll
    <2>3. TypeOK'
      BY <1>1, <2>1, <2>2 DEF TypeOK
    <2>4. job.verb \in {"fs.write", "web.save"}
      BY <1>1, <2>1 DEF PhaseOfVerb
    <2>5. Holds(job.dst, job.text)'
      BY <2>1, <2>2 DEF Holds, File
    <2>6. QED BY <1>1, <2>1, <2>3, <2>4, <2>5
          DEF IInv, PhaseOfVerb, Guarded, MoveSafe, MoveLosesNothing, ToldTrue, ProperMove
  <1>9. CASE WriteFails
    <2>1. /\ pc = "fill" /\ job' = job /\ pc' = "idle" /\ told' = "refused"
          /\ plugged' = plugged /\ body' = body
      BY <1>9 DEF WriteFails, Answer
    <2>2. disk' \in [Path -> Entry]
      BY <1>1, <1>3, <1>9, LandedChanges DEF WriteFails
    <2>3. TypeOK'
      BY <1>1, <2>1, <2>2 DEF TypeOK
    <2>4. QED BY <1>1, <2>1, <2>3
          DEF IInv, PhaseOfVerb, Guarded, MoveSafe, MoveLosesNothing, ToldTrue, ProperMove
  <1>10. CASE CopyChunk
    <2>1. /\ pc = "copy" /\ pc' = "copy" /\ job.copied < job.text.n
          /\ job' = [job EXCEPT !.copied = job.copied + 1] /\ told' = told
          /\ plugged' = plugged /\ body' = body
      BY <1>10 DEF CopyChunk
    <2>2. /\ disk' \in [Path -> Entry]
          /\ disk'[job.dst] = File(job.text.of, job.copied + 1)
          /\ \A q \in Path : q # job.dst => disk'[q] = disk[q]
      BY <1>1, <1>2, <1>10, LandedChanges DEF CopyChunk
    <2>3. /\ job'.verb = job.verb /\ job'.src = job.src /\ job'.dst = job.dst
          /\ job'.was = job.was /\ job'.text = job.text /\ job'.copied = job.copied + 1
          /\ job' \in Job
      BY <1>1, <1>2, <2>1 DEF Job
    <2>4. TypeOK'
      BY <1>1, <2>1, <2>2, <2>3 DEF TypeOK
    <2>5. PhaseOfVerb' /\ Guarded' /\ ToldTrue'
      BY <1>1, <2>1, <2>3 DEF PhaseOfVerb, Guarded, ToldTrue
    <2>6. (ProperMove' /\ job.src # job.dst) => Holds(job.src, job.was)'
      BY <1>1, <1>2, <2>1, <2>2, <2>3 DEF MoveSafe, ProperMove, Holds
    <2>7. job.copied + 1 <= job.text.n
      BY <1>2, <1>3, <2>1
    <2>8. MoveSafe' /\ MoveLosesNothing'
      BY <1>1, <2>1, <2>2, <2>3, <2>6, <2>7 DEF MoveSafe, MoveLosesNothing, ProperMove, Holds
    <2>9. QED BY <2>4, <2>5, <2>8 DEF IInv
  <1>11. CASE CopyFails
    <2>1. /\ pc = "copy" /\ job' = job /\ pc' = "idle" /\ told' = "refused"
          /\ plugged' = plugged /\ body' = body
      BY <1>11 DEF CopyFails, Answer
    <2>2. /\ disk' \in [Path -> Entry]
          /\ \A q \in Path : q # job.dst => disk'[q] = disk[q]
      BY <1>1, <1>2, <1>11, LandedChanges DEF CopyFails
    <2>3. TypeOK'
      BY <1>1, <2>1, <2>2 DEF TypeOK
    <2>4. PhaseOfVerb' /\ Guarded' /\ ToldTrue'
      BY <1>1, <2>1 DEF PhaseOfVerb, Guarded, ToldTrue
    <2>5. (ProperMove /\ job.src # job.dst) => Holds(job.src, job.was)'
      BY <1>1, <1>2, <2>1, <2>2 DEF MoveSafe, ProperMove, Holds
    <2>6. MoveSafe' /\ MoveLosesNothing'
      BY <1>1, <2>1, <2>5 DEF MoveSafe, MoveLosesNothing, ProperMove, Holds
    <2>7. QED BY <2>3, <2>4, <2>6 DEF IInv
  <1>12. CASE CopyEnds
    <2>1. /\ pc = "copy" /\ pc' = "unlink" /\ UNCHANGED <<disk, plugged, body, job, told>>
          /\ job.copied = job.text.n \/ job.src = job.dst
      BY <1>12 DEF CopyEnds
    <2>2. job.verb = "fs.move"
      BY <1>1, <2>1 DEF PhaseOfVerb
    <2>3. ASSUME ProperMove, job.src # job.dst PROVE Holds(job.dst, job.was)
      <3>1. job.copied = job.text.n /\ job.text = job.was /\ job.copied > 0
        BY <1>1, <2>1, <2>3 DEF MoveSafe, ProperMove
      <3>2. disk[job.dst] = File(job.text.of, job.copied)
        BY <1>1, <2>1, <2>2, <2>3, <3>1 DEF MoveSafe
      <3>3. QED BY <3>1, <3>2 DEF Holds, File
    <2>4. MoveSafe' /\ MoveLosesNothing'
      BY <1>1, <2>1, <2>3 DEF MoveSafe, MoveLosesNothing, ProperMove, Holds
    <2>5. QED BY <1>1, <2>1, <2>2, <2>4
          DEF IInv, TypeOK, PhaseOfVerb, Guarded, ToldTrue
  <1>13. CASE Unlink
    <2>1. /\ pc = "unlink" /\ job' = job /\ pc' = "idle" /\ told' = "done"
          /\ plugged' = plugged /\ body' = body
      BY <1>13 DEF Unlink, Answer
    <2>2. /\ disk' \in [Path -> Entry]
          /\ disk'[job.src] = Nothing
          /\ \A q \in Path : q # job.src => disk'[q] = disk[q]
      BY <1>1, <1>2, <1>13, PutChanges, EntryTypes DEF Unlink
    <2>3. TypeOK'
      BY <1>1, <2>1, <2>2 DEF TypeOK
    <2>4. job.verb \in {"fs.delete", "fs.move"}
      BY <1>1, <2>1 DEF PhaseOfVerb
    <2>5. ~Exists(job.src)'
      BY <2>1, <2>2 DEF Exists, Nothing
    <2>6. (ProperMove /\ job.src # job.dst) => Holds(job.dst, job.was)'
      BY <1>1, <1>2, <2>1, <2>2 DEF MoveSafe, ProperMove, Holds
    <2>7. PhaseOfVerb' /\ Guarded'
      BY <1>1, <2>1 DEF PhaseOfVerb, Guarded
    <2>8. MoveSafe' /\ MoveLosesNothing'
      BY <1>1, <2>1, <2>6 DEF MoveSafe, MoveLosesNothing, ProperMove, Holds
    <2>9. ToldTrue'
      BY <2>1, <2>4, <2>5, <2>6 DEF ToldTrue, ProperMove, Holds, Exists
    <2>10. QED BY <2>3, <2>7, <2>8, <2>9 DEF IInv
  <1>14. QED BY <1>4, <1>5, <1>6, <1>7, <1>8, <1>9, <1>10, <1>11, <1>12, <1>13
         DEF FirmwareCall

(***************************************************************************)
(* Boot, acquisition and power loss keep the invariant.                    *)
(***************************************************************************)
LEMMA LifeKeepsIInv ==
  ASSUME IInv, Boot \/ (\E r \in Offers : AcquireLimb(r)) \/ PowerLoss
  PROVE  IInv'
  <1>1. /\ TypeOK /\ PhaseOfVerb /\ Guarded /\ MoveSafe /\ MoveLosesNothing /\ ToldTrue
        /\ disk \in [Path -> Entry] /\ job \in Job
    BY DEF IInv, TypeOK
  <1>2. CASE Boot
    <2>1. /\ pc = "off" /\ pc' = "idle" /\ disk' = disk /\ told' = told
          /\ job' = NoJob /\ plugged' \in BOOLEAN
      BY <1>2 DEF Boot
    <2>2. PICK net \in SUBSET {NetLimb} :
            body' = net \cup (IF WorldPresent' THEN {FilesLimb} ELSE {})
      BY <1>2 DEF Boot
    <2>3. \A r \in body' : r = NetLimb \/ r = FilesLimb
      BY <2>2
    <2>4. NetLimb.id # FilesLimb.id
      BY DEF NetLimb, FilesLimb
    <2>5. NoJob \in Job
      BY NoJobTypes
    <2>6. TypeOK'
      BY <1>1, <2>1, <2>3, <2>4, <2>5 DEF TypeOK
    <2>7. job'.verb = "none" /\ job'.src = job'.dst
      BY <2>1, NoJobTypes
    <2>8. QED BY <1>1, <2>1, <2>6, <2>7
          DEF IInv, PhaseOfVerb, Guarded, MoveSafe, MoveLosesNothing, ToldTrue, ProperMove
  <1>3. ASSUME NEW r \in Offers, AcquireLimb(r) PROVE IInv'
    <2>1. body' = Acquire(body, r) /\ UNCHANGED <<disk, plugged, pc, job, told>>
      BY <1>3 DEF AcquireLimb
    <2>2. \A s, t \in body' : s.id = t.id => s = t
      BY <1>1, <2>1 DEF TypeOK, Acquire, Knows, Incorporate
    <2>3. TypeOK'
      BY <1>1, <2>1, <2>2 DEF TypeOK
    <2>4. QED BY <1>1, <2>1, <2>3
          DEF IInv, PhaseOfVerb, Guarded, MoveSafe, MoveLosesNothing, ToldTrue,
              ProperMove, Holds, Exists
  <1>4. CASE PowerLoss
    <2>1. /\ pc # "off" /\ pc' = "off" /\ told' = "nothing" /\ job' = job
          /\ plugged' = FALSE /\ body' = {}
      BY <1>4 DEF PowerLoss
    <2>2. job.dst \in Path /\ job.src \in Path /\ job.text.n \in Nat /\ job.copied \in Nat
      BY <1>1 DEF Job, Entry
    <2>3. /\ disk' \in [Path -> Entry]
          /\ disk' = disk \/ pc \in {"fill", "copy"}
          /\ \A q \in Path : q # job.dst => disk'[q] = disk[q]
      BY <1>1, <1>4, <2>2, LandedChanges DEF PowerLoss
    <2>4. TypeOK'
      BY <1>1, <2>1, <2>3 DEF TypeOK
    <2>5. PhaseOfVerb' /\ Guarded' /\ ToldTrue'
      BY <1>1, <2>1 DEF PhaseOfVerb, Guarded, ToldTrue
    <2>6. ASSUME ProperMove, job.src # job.dst
          PROVE  Holds(job.src, job.was)' \/ Holds(job.dst, job.was)'
      <3>1. CASE pc \in {"fill", "copy"}
        <4>1. Holds(job.src, job.was)
          BY <1>1, <2>6, <3>1 DEF MoveSafe, ProperMove, PhaseOfVerb
        <4>2. QED BY <2>1, <2>2, <2>3, <2>6, <4>1 DEF Holds
      <3>2. CASE pc \notin {"fill", "copy"}
        BY <1>1, <2>1, <2>3, <2>6, <3>2 DEF MoveLosesNothing, Holds
      <3>3. QED BY <3>1, <3>2
    <2>7. MoveSafe' /\ MoveLosesNothing'
      BY <1>1, <2>1, <2>6 DEF MoveSafe, MoveLosesNothing, ProperMove, Holds
    <2>8. QED BY <2>4, <2>5, <2>7 DEF IInv
  <1>5. QED BY <1>2, <1>3, <1>4

(***************************************************************************)
(* The invariant is inductive, and so holds in every behaviour.            *)
(***************************************************************************)
THEOREM Invariance == Spec => []IInv
  <1>1. IInv /\ [Next]_vars => IInv'
    <2> SUFFICES ASSUME IInv, [Next]_vars PROVE IInv'
      OBVIOUS
    <2>1. CASE Next
      BY <2>1, ProposalKeepsIInv, FirmwareCallKeepsIInv, LifeKeepsIInv DEF Next
    <2>2. CASE UNCHANGED vars
      BY <2>2 DEF vars, IInv, TypeOK, PhaseOfVerb, Guarded, MoveSafe, MoveLosesNothing,
                  ToldTrue, ProperMove, Holds, Exists
    <2>3. QED BY <2>1, <2>2
  <1>2. QED BY InitIInv, <1>1, PTL DEF Spec

(***************************************************************************)
(* Type correctness of the world disk, the body map and the job in hand.   *)
(***************************************************************************)
THEOREM TypeCorrect == Spec => []TypeOK
  <1>1. IInv => TypeOK
    BY DEF IInv
  <1>2. QED BY Invariance, <1>1, PTL

(***************************************************************************)
(* No failure and no power loss makes world_move lose a file that it moves *)
(* to another path, however many chunks it has and whatever is at the      *)
(* destination, a folder included.                                         *)
(***************************************************************************)
THEOREM MoveIsSafe == Spec => []MoveLosesNothing
  <1>1. IInv => MoveLosesNothing
    BY DEF IInv
  <1>2. QED BY Invariance, <1>1, PTL

(***************************************************************************)
(* What absorb_result narrates as done is done on the disk.                *)
(***************************************************************************)
THEOREM DoneIsDone == Spec => []ToldTrue
  <1>1. IInv => ToldTrue
    BY DEF IInv
  <1>2. QED BY Invariance, <1>1, PTL

(***************************************************************************)
(* A request that spells the marker plainly never changes it, unless it is *)
(* a save or a move onto its path: whatever else changes the marker is an  *)
(* operation whose spelling the gate takes for another file.               *)
(***************************************************************************)
THEOREM MarkerIsGuarded == Spec => MarkerGuarded
  <1> DEFINE Onto == job.verb \in {"fs.move", "web.save"} /\ job.dst = Marker
             Unrecognized == /\ job.verb \in {"fs.delete", "fs.write", "fs.move"}
                             /\ job.src = Marker /\ ~Plain(job.name)
  <1>1. IInv /\ [Next]_vars => [disk'[Marker] # disk[Marker] => Onto \/ Unrecognized]_vars
    <2> SUFFICES ASSUME IInv, Next, disk'[Marker] # disk[Marker]
                 PROVE  Onto \/ Unrecognized
      OBVIOUS
    <2>1. /\ TypeOK /\ PhaseOfVerb /\ Guarded
          /\ Marker \in Path /\ job.src \in Path /\ job.dst \in Path
          /\ job.text.n \in Nat /\ job.copied \in Nat /\ job.text.of \in Text
      BY KiraAssumption DEF IInv, TypeOK, Job, Entry
    <2>2. CASE ClearOld
      <3>1. job.dst = Marker
        BY <2>1, <2>2, PutChanges, EntryTypes DEF ClearOld
      <3>2. QED BY <2>1, <2>2, <3>1 DEF ClearOld, PhaseOfVerb, Guarded
    <2>3. CASE CreateNew
      <3>1. job.dst = Marker
        BY <2>1, <2>3, PutChanges, EntryTypes DEF CreateNew
      <3>2. QED BY <2>1, <2>3, <3>1 DEF CreateNew, PhaseOfVerb, Guarded
    <2>4. CASE CreateFolder
      <3>1. job.dst = Marker /\ ~Exists(Marker)
        BY <2>1, <2>4, PutChanges, EntryTypes DEF CreateFolder
      <3>2. QED BY <2>1, <2>4, <3>1 DEF CreateFolder, Guarded
    <2>5. CASE Unlink
      <3>1. job.src = Marker
        BY <2>1, <2>5, PutChanges, EntryTypes DEF Unlink
      <3>2. QED BY <2>1, <2>5, <3>1 DEF Unlink, PhaseOfVerb, Guarded
    <2>6. CASE WriteAll \/ WriteFails \/ CopyChunk \/ CopyFails \/ PowerLoss
      <3>1. PICK k \in Nat : Landed(k)
        BY <2>1, <2>6 DEF WriteAll, WriteFails, CopyChunk, CopyFails, PowerLoss
      <3>2. job.dst = Marker
        BY <2>1, <3>1, LandedChanges
      <3>3. pc \in {"fill", "copy"}
        BY <2>6 DEF WriteAll, WriteFails, CopyChunk, CopyFails, PowerLoss
      <3>4. QED BY <2>1, <3>2, <3>3 DEF PhaseOfVerb, Guarded
    <2>7. CASE Boot \/ Proposal \/ OpenFails \/ CopyEnds \/ \E r \in Offers : AcquireLimb(r)
      <3>1. disk' = disk
        BY <2>7 DEF Boot, Proposal, Write, Save, Delete, MakeFolder, Move, Denied, Begin,
                    OpenFails, CopyEnds, AcquireLimb
      <3>2. QED BY <3>1
    <2>8. QED BY <2>2, <2>3, <2>4, <2>5, <2>6, <2>7 DEF Next, FirmwareCall
  <1>2. QED BY Invariance, <1>1, PTL DEF Spec, MarkerGuarded
================================================================================
