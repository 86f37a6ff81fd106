-------------------------------- MODULE World --------------------------------
(***************************************************************************)
(* The world disk: files on a second volume that the entity reaches        *)
(* through the gate and the file operations of core/src/console.rs.  One   *)
(* thread carries out one granted request at a time; each firmware call is *)
(* a step, may fail, and power may go between any two of them.             *)
(*                                                                         *)
(* What a path holds is nothing, a folder, or a file: the first n chunks   *)
(* of a text.  Requests that only read the disk change nothing and are     *)
(* left out.                                                               *)
(***************************************************************************)
EXTENDS Kira, FiniteSets

CONSTANTS Text,       \* what files may hold
          Chunks,     \* Chunks[t]: in how many pieces world_move copies t
          Certificate,\* what make_world.py puts in the marker file
          Listing,    \* what reading a folder as if it were a file returns
          Offers      \* the limb offers a daemon may send

ASSUME WorldAssumption ==
  /\ Chunks \in [Text -> Nat \ {0}]
  /\ {Certificate, Listing} \subseteq Text

VARIABLES disk,     \* disk[p]: what the path p of the world volume holds
          plugged,  \* whether that disk is attached in this life
          body,     \* the body map
          pc,       \* the firmware call that the operation in hand is at
          job,      \* that operation, or the last one
          told      \* its outcome

vars == <<disk, plugged, body, pc, job, told>>

Nothing == [kind |-> "none", of |-> Certificate, n |-> 0]
Folder == [kind |-> "dir", of |-> Listing, n |-> 0]
File(t, k) == [kind |-> "file", of |-> t, n |-> k]
Entry == [kind : {"none", "dir", "file"}, of : Text, n : Nat]

Parent(p) == SubSeq(p, 1, Len(p) - 1)

Exists(p) == disk[p].kind # "none"
IsFolder(p) == p \in Path => disk[p].kind = "dir"   \* the root is one
Childless(p) == \A q \in Path : Parent(q) = p => ~Exists(q)

\* The bytes that reading entry e from its start to its end would return.
Bytes(e) == IF e.kind = "dir" THEN File(Listing, Chunks[Listing]) ELSE e

\* world_root and world_present: attached, and the marker says what it should.
WorldPresent == plugged /\ disk[Marker] = File(Certificate, Chunks[Certificate])

Job == [verb : {"none", "fs.write", "fs.delete", "fs.mkdir", "fs.move", "web.save"},
        name : Spelling \cup {<<>>}, src : Path, dst : Path, was : Entry, text : Entry,
        copied : Nat]
NewJob(verb, name, src, dst, was, text) ==
  [verb |-> verb, name |-> name, src |-> src, dst |-> dst, was |-> was, text |-> text,
   copied |-> 0]
NoJob == NewJob("none", <<>>, Marker, Marker, Nothing, Nothing)

TypeOK ==
  /\ disk \in [Path -> Entry]
  /\ plugged \in BOOLEAN
  /\ \A r, s \in body : r.id = s.id => r = s
  /\ pc \in {"off", "idle", "clear", "make", "fill", "copy", "unlink"}
  /\ job \in Job
  /\ told \in {"nothing", "done", "refused", "denied"}

--------------------------------------------------------------------------------
(* Boot, the body map and the gate *)

FilesLimb == [id |-> "world/files", caps |-> OnePath \cup {"fs.list", "fs.move", "fs.search"}]
NetLimb == [id |-> "this-machine/net", caps |-> {"web.get", "web.save"}]

Init ==
  /\ disk = [p \in Path |->
               IF p = Marker THEN File(Certificate, Chunks[Certificate]) ELSE Nothing]
  /\ plugged = FALSE
  /\ body = {}
  /\ pc = "off"
  /\ job = NoJob
  /\ told = "nothing"

\* A limb is incorporated if its organ is there: the network organ if the
\* firmware has an HTTP client, the files limb if the disk is this entity's.
Boot ==
  /\ pc = "off"
  /\ pc' = "idle"
  /\ UNCHANGED <<disk, told>>
  /\ plugged' \in BOOLEAN
  /\ \E net \in SUBSET {NetLimb} :
       body' = net \cup (IF WorldPresent' THEN {FilesLimb} ELSE {})
  /\ job' = NoJob

\* acquire_limb, from the acquisition window or the loop's pump.
AcquireLimb(r) ==
  /\ pc = "idle"
  /\ body' = Acquire(body, r)
  /\ UNCHANGED <<disk, plugged, pc, job, told>>

Answer(t) ==
  /\ pc' = "idle"
  /\ told' = t

\* Dispatch of a granted request: the operation's first call is at "first", or
\* the operation is refused at once.
Begin(a, first, newJob, refusal) ==
  /\ pc = "idle"
  /\ Verdict(a, body) = "granted"
  /\ \/ refusal /\ Answer("refused") /\ job' = NoJob
     \/ ~refusal /\ pc' = first /\ told' = "nothing" /\ job' = newJob
  /\ UNCHANGED <<disk, plugged, body>>

\* Each operation starts with world_root, and opens what must exist.  What it
\* opens is spelled as the request spells it, and normalized again.
Write(s, t) ==
  LET p == Opened(s) IN
    Begin(UseLimb("fs.write", s, <<>>, FALSE), "clear",
          NewJob("fs.write", s, p, p, Nothing, File(t, Chunks[t])), ~WorldPresent)

\* web.save fetches in between, which may fail or answer something else than 200.
Save(s, t) ==
  LET p == Opened(s) IN
    \E answered \in BOOLEAN :
      Begin(UseLimb("web.save", <<>>, s, FALSE), "clear",
            NewJob("web.save", <<>>, p, p, Nothing, File(t, Chunks[t])),
            ~(WorldPresent /\ answered))

Delete(s) ==
  LET p == Opened(s) IN
    Begin(UseLimb("fs.delete", s, <<>>, FALSE), "unlink",
          NewJob("fs.delete", s, p, p, Nothing, Nothing), ~(WorldPresent /\ Exists(p)))

MakeFolder(s) ==
  LET p == Opened(s) IN
    Begin(UseLimb("fs.mkdir", s, <<>>, FALSE), "make",
          NewJob("fs.mkdir", s, p, p, Nothing, Nothing), ~WorldPresent)

Move(s, to) ==
  LET p == Opened(s) IN
    Begin(UseLimb("fs.move", s, to, FALSE), "clear",
          NewJob("fs.move", s, p, Opened(to), disk[p], Bytes(disk[p])),
          ~(WorldPresent /\ Exists(p)))

\* The requests that change the disk, well-formed or not, and the self-test's
\* memory.erase.
Proposals ==
  LET Place == Spelling \cup {<<>>} IN
    {UseLimb(v, s, <<>>, h) : v \in {"fs.write", "fs.delete", "fs.mkdir"},
                              s \in Place, h \in BOOLEAN}
    \cup {UseLimb(v, s, to, FALSE) : v \in {"fs.move", "web.save"}, s, to \in Place}
    \cup {Request("memory.erase", "", <<>>, <<>>, "fits", FALSE)}

\* A denied request does nothing but be refused in words.
Denied ==
  /\ pc = "idle"
  /\ ~(\A a \in Proposals : Verdict(a, body) = "granted")
  /\ told' = "denied"
  /\ UNCHANGED <<disk, plugged, body, pc, job>>

--------------------------------------------------------------------------------
(* world_write, world_mkdir, world_delete and world_move, call by call *)

Put(p, e) == disk' = [disk EXCEPT ![p] = e]

\* The old file is opened and deleted.  The status of neither is looked at; the
\* firmware deletes no folder that holds something.
ClearOld ==
  /\ pc = "clear"
  /\ \/ UNCHANGED disk
     \/ Childless(job.dst) /\ Put(job.dst, Nothing)
  /\ pc' = "make"
  /\ UNCHANGED <<plugged, body, job, told>>

\* Opening with CREATE: what is there is opened as it is, a folder included.
CreateNew ==
  /\ pc = "make"
  /\ job.verb # "fs.mkdir"
  /\ IsFolder(Parent(job.dst))
  /\ IF Exists(job.dst) THEN UNCHANGED disk ELSE Put(job.dst, File(job.text.of, 0))
  /\ pc' = IF job.verb = "fs.move" THEN "copy" ELSE "fill"
  /\ UNCHANGED <<plugged, body, job, told>>

CreateFolder ==
  /\ pc = "make"
  /\ job.verb = "fs.mkdir"
  /\ IsFolder(Parent(job.dst))
  /\ IF Exists(job.dst) THEN UNCHANGED disk ELSE Put(job.dst, Folder)
  /\ Answer("done")
  /\ UNCHANGED <<plugged, body, job>>

\* The path or the volume does not open.
OpenFails ==
  /\ pc \in {"make", "unlink"}
  /\ Answer("refused")
  /\ UNCHANGED <<disk, plugged, body, job>>

\* k chunks of the text are on the disk, of those that were written.
Landed(k) ==
  /\ disk[job.dst].kind = "file"
  /\ k > 0
  /\ Put(job.dst, File(job.text.of, k))

WriteAll ==
  /\ pc = "fill"
  /\ Landed(job.text.n)
  /\ Answer("done")
  /\ UNCHANGED <<plugged, body, job>>

WriteShort ==   \* mutant: the count that was written is not compared
  /\ pc = "fill"
  /\ \E k \in 1 .. job.text.n : Landed(k)
  /\ Answer("done")
  /\ UNCHANGED <<plugged, body, job>>

\* An error status or a short count.
WriteFails ==
  /\ pc = "fill"
  /\ UNCHANGED disk \/ \E k \in 1 .. job.text.n : Landed(k)
  /\ Answer("refused")
  /\ UNCHANGED <<plugged, body, job>>

\* One turn of the copy loop: a chunk is read from src and written to dst.
CopyChunk ==
  /\ pc = "copy"
  /\ job.copied < job.text.n
  /\ Landed(job.copied + 1)
  /\ job' = [job EXCEPT !.copied = @ + 1]
  /\ UNCHANGED <<plugged, body, pc, told>>

CopyFailsAnyway ==   \* mutant: the loop breaks without clearing ok
  /\ pc = "copy"
  /\ pc' = "unlink"
  /\ UNCHANGED <<disk, plugged, body, job, told>>

\* The read or the write of a chunk fails, or the write is short.
CopyFails ==
  /\ pc = "copy"
  /\ UNCHANGED disk \/ (job.copied < job.text.n /\ Landed(job.copied + 1))
  /\ Answer("refused")
  /\ UNCHANGED <<plugged, body, job>>

\* A read of nothing ends the loop.  The handle of a file that was deleted under
\* it, as a move of a file to itself does, may read so at once.
CopyEnds ==
  /\ pc = "copy"
  /\ job.copied = job.text.n \/ job.src = job.dst
  /\ pc' = "unlink"
  /\ UNCHANGED <<disk, plugged, body, job, told>>

Unlink ==
  /\ pc = "unlink"
  /\ Exists(job.src)
  /\ Childless(job.src)
  /\ Put(job.src, Nothing)
  /\ Answer("done")
  /\ UNCHANGED <<plugged, body, job>>

\* Power goes: what is being written has landed in part, for a copy any part,
\* since it is flushed at its end only.  The body map goes with the memory.
PowerLoss ==
  /\ pc # "off"
  /\ \/ UNCHANGED disk
     \/ pc = "fill" /\ \E k \in 1 .. job.text.n : Landed(k)
     \/ pc = "copy" /\ \E k \in 1 .. job.copied : Landed(k)
  /\ pc' = "off"
  /\ told' = "nothing"
  /\ plugged' = FALSE
  /\ body' = {}
  /\ UNCHANGED job

Proposal ==
  \/ \E s \in Spelling, t \in Text \ {Certificate, Listing} : Write(s, t) \/ Save(s, t)
  \/ \E s \in Spelling : Delete(s) \/ MakeFolder(s)
  \/ \E s, to \in Spelling : Move(s, to)
  \/ Denied

FirmwareCall ==
  \/ ClearOld \/ CreateNew \/ CreateFolder \/ OpenFails
  \/ WriteAll \/ WriteFails
  \/ CopyChunk \/ CopyFails \/ CopyEnds
  \/ Unlink

Next ==
  \/ Boot
  \/ \E r \in Offers : AcquireLimb(r)
  \/ Proposal
  \/ FirmwareCall
  \/ PowerLoss

Spec == Init /\ [][Next]_vars
--------------------------------------------------------------------------------
Holds(p, text) == disk[p].kind = "file" /\ disk[p].of = text.of /\ disk[p].n = text.n

\* A move of a file, which has something in it, to another path.
ProperMove == job.verb = "fs.move" /\ job.was.kind = "file" /\ job.was.n > 0

(***************************************************************************)
(* MoveLosesNothing: whatever fails during a move to another path, and     *)
(* whenever power goes, all of the file is still at its source or all of   *)
(* it is at its destination (world_move: "source goes only after the copy  *)
(* landed whole").  SelfMoveToo says so of a move of a file to itself.     *)
(***************************************************************************)
MoveLosesNothing ==
  (ProperMove /\ job.src # job.dst) => Holds(job.src, job.was) \/ Holds(job.dst, job.was)

(***************************************************************************)
(* SelfMoveToo: the same without the condition that the paths differ.      *)
(***************************************************************************)
SelfMoveToo ==
  ProperMove => Holds(job.src, job.was) \/ Holds(job.dst, job.was)

(***************************************************************************)
(* ToldTrue: an operation that was told done is done on the disk.  The     *)
(* entity narrates this answer (absorb_result), so it must not confabulate *)
(* a write that was short, or a move that left its source.                 *)
(***************************************************************************)
ToldTrue ==
  (pc = "idle" /\ told = "done") =>
    /\ job.verb \in {"fs.write", "web.save"} => Holds(job.dst, job.text)
    /\ job.verb = "fs.delete" => ~Exists(job.src)
    /\ job.verb = "fs.mkdir" => Exists(job.dst)
    /\ job.verb = "fs.move" => ~Exists(job.src)
    /\ (ProperMove /\ job.src # job.dst) => Holds(job.dst, job.was)

\* WORLD.ID in whatever letter case, behind any "\" and then any "/".
Plain(s) ==
  \E k \in 0 .. Len(s) - 1 :
    /\ \A i \in 1 .. k : s[i] = "\\"
    /\ \A i \in k + 1 .. Len(s) - 1 : s[i] = "/"
    /\ s[Len(s)] \in Word /\ <<Upper[s[Len(s)]]>> = Marker

(***************************************************************************)
(* MarkerGuarded: the gate keeps every fs.delete, fs.write and fs.move     *)
(* that names the marker in plain spelling from the disk, several calls    *)
(* after it decided.  The marker changes only by a save or a move onto its *)
(* path, or by an operation whose request spells it with a "." step, or    *)
(* with a separator that normalize_world_path leaves in front: the gate    *)
(* compares the normalized text, which then is not WORLD.ID, while the     *)
(* driver opens the marker (kira.rs says that removing or overwriting it   *)
(* "dies here").                                                           *)
(***************************************************************************)
MarkerGuarded ==
  [][disk'[Marker] # disk[Marker] =>
       \/ job.verb \in {"fs.move", "web.save"} /\ job.dst = Marker
       \/ /\ job.verb \in {"fs.delete", "fs.write", "fs.move"}
          /\ job.src = Marker /\ ~Plain(job.name)]_vars
================================================================================
