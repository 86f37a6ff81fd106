--------------------------------- MODULE Memory ---------------------------------
(***************************************************************************)
(* What the entity remembers over many lives of one key: the state graph   *)
(* of the running core (core/src/main.rs over mind/src/state.rs), filled   *)
(* by every handler that adds nodes, dreamed over and written to the key   *)
(* when the body is left, and read back by the next boot.                  *)
(*                                                                         *)
(* The core is one thread, so a handler is one action.  Leaving the body   *)
(* (ESC or F5) is three, since power may go between them.  The memory slot *)
(* of the key is the durable cell that Journal implements (DurableCell):   *)
(* a store is kept or refused, and one that is cut short may have taken.   *)
(***************************************************************************)
EXTENDS StateGraph

CONSTANTS Texts,        \* what a human, a lens or Model M may say
          Digests,      \* what a limb may return; of a file or a page: any UTF-8
          Verbs,        \* the actions Model M may propose, as numbers > 0
          MaxPayload,   \* journal::MAX_PAYLOAD: a longer self is not sealed
          DreamBytes,   \* bytes of the session that one dream takes: 1200
          DreamNotes,   \* notes kept of one dream: 3
          SelfTestCases,\* requests limb_selftest makes: about 18
          MaxLived,     \* bound: no new episode once this many were lived
          MaxNodes      \* bound: nor a handler that leaves only audits

ASSUME MemoryAssumption == /\ Texts \subseteq Text
                           /\ Digests \subseteq Text
                           /\ Verbs \subseteq Nat \ {0}
                           /\ MaxPayload \in Nat
                           /\ DreamBytes \in Nat
                           /\ DreamNotes \in Nat
                           /\ SelfTestCases \in Nat
                           /\ MaxLived \in Nat
                           /\ MaxNodes \in Nat

VARIABLES phase,      \* where the core is in its life
          nodes,      \* Instance::state
          mark,       \* Instance::session_mark
          linkAlive,  \* Instance::link_alive
          cell,       \* the self on the key
          lived,      \* episodes of the self in the core, over all its lives
          cellLived,  \* and of the self on the key
          sinceLived  \* those lived before this session's mark was set

vars == <<phase, nodes, mark, linkAlive, cell, lived, cellLived, sinceLived>>
durable == <<cell, cellLived>>
session == <<mark, sinceLived>>

WriteThenRun == 0                  \* the skill "pathway.write-run"
Skills == {WriteThenRun} \cup Verbs
Leaving == {"dream", "save", "leave"}

\* One more episode, after the nodes ns.
Lives(ns, text) ==
  /\ lived < MaxLived
  /\ nodes' = Consolidate(ns, lived + 1, text)
  /\ lived' = lived + 1

Init ==
  /\ phase = "off"
  /\ nodes = <<>>
  /\ mark = 0
  /\ linkAlive = FALSE
  /\ cell = <<>>
  /\ lived = 0
  /\ cellLived = 0
  /\ sinceLived = 0

--------------------------------------------------------------------------------
\* efi_main up to the hello: the self on the key is loaded, memory.erase is
\* asked for and denied, the network organ is probed when there is one, and the
\* warming and the waking of the display are asked for.
Boot ==
  /\ phase = "off"
  /\ phase' = "waking"
  /\ \E requests \in {3, 4} : nodes' = Audited(Load(<<>>, cell), requests)
  /\ linkAlive' \in BOOLEAN     \* the answer to the hello
  /\ UNCHANGED <<lived, durable, session>>

\* acquire_limb of an organ not yet in the body map.
GrowLimb ==
  /\ phase = "awake" \/ (phase = "waking" /\ linkAlive)
  /\ Lives(nodes, Short)
  /\ UNCHANGED <<phase, linkAlive, durable, session>>

\* For a mutant: the session is marked one node too far.
WakeMarksNext ==
  /\ phase = "waking"
  /\ phase' = "awake"
  /\ Lives(nodes, Short)
  /\ mark' = Len(nodes') + 1
  /\ sinceLived' = lived'
  /\ UNCHANGED <<linkAlive, durable>>

\* The end of efi_main: Model M's greeting and the words of an inherited self
\* are delivered, waking up is consolidated, and then the session is marked.
Wake ==
  /\ phase = "waking"
  /\ phase' = "awake"
  /\ \E greeted \in IF linkAlive THEN {0, 2} ELSE {0} :
       Lives(Audited(nodes, greeted + (IF Episodes(cell) = <<>> THEN 0 ELSE 2)), Short)
  /\ mark' = Len(nodes')
  /\ sinceLived' = lived'
  /\ UNCHANGED <<linkAlive, durable>>

Awake == phase = "awake" /\ UNCHANGED <<durable, session>>

\* absorb_sight: remembered, and no request is made.
Sight(text) ==
  /\ Awake
  /\ Lives(nodes, text)
  /\ UNCHANGED <<phase, linkAlive>>

\* handle_utterance of something longer than the gate lets through.
UtteranceDenied ==
  /\ Awake
  /\ nodes' = Audited(nodes, 1)
  /\ Len(nodes) < MaxNodes
  /\ UNCHANGED <<phase, linkAlive, lived>>

\* handle_utterance when Model M answers in words, or not at all (a reflex).
Utterance(text, answered) ==
  /\ Awake
  /\ \E said \in IF answered THEN {0, 2} ELSE {2} : Lives(Audited(nodes, 1 + said), text)
  /\ linkAlive' = answered
  /\ UNCHANGED phase

\* Model M proposed an action and the gate refused it.
ActionRefused(text) ==
  /\ Awake
  /\ Lives(Audited(nodes, 4), text)
  /\ linkAlive' = TRUE
  /\ UNCHANGED phase

\* The limb did it (absorb_result, ok): the digest becomes a fact, the verb a
\* skill, and the report may or may not come back from Model M.  A program
\* that was written before it was run is learned as a pathway first.
ActionDone(digest, verb) ==
  /\ Awake
  /\ \E said, reported \in {0, 2}, pathway \in BOOLEAN :
       LET asked == Audited(nodes, 2 + said)
           ran == IF pathway THEN Learn(asked, WriteThenRun) ELSE asked
           known == Learn(Add(ran, Node("fact", lived, digest)), verb)
       IN Lives(Audited(known, reported), digest)
  /\ linkAlive' = TRUE
  /\ UNCHANGED phase

\* The limb could not do it (absorb_result, not ok).
ActionFailed(digest) ==
  /\ Awake
  /\ \E said \in {0, 2} : Lives(Audited(nodes, 4 + said), digest)
  /\ linkAlive' = TRUE
  /\ UNCHANGED phase

\* fs.read cuts its digest with String::truncate, which panics inside a
\* character; a panic is a core that spins for ever.  (screen.read cuts its own
\* in the same way, but the text of the screen is one byte a character.)
ActionPanics(digest) ==
  /\ Awake
  /\ digest.wide
  /\ phase' = "hung"
  /\ UNCHANGED <<nodes, lived, linkAlive>>

\* The limb never answered: said, but not consolidated.
ActionSilent ==
  /\ Awake
  /\ \E said \in {0, 2} : nodes' = Audited(nodes, 4 + said)
  /\ Len(nodes) < MaxNodes
  /\ linkAlive' = TRUE
  /\ UNCHANGED <<phase, lived>>

RetryLink ==
  /\ Awake
  /\ linkAlive' \in BOOLEAN
  /\ UNCHANGED <<phase, nodes, lived>>

SelfTest ==
  /\ Awake
  /\ nodes' = Audited(nodes, SelfTestCases)
  /\ Len(nodes) < MaxNodes
  /\ UNCHANGED <<phase, linkAlive, lived>>

--------------------------------------------------------------------------------
\* F5, or ESC whose release is gated first: both go on to dream and persist.
Depart ==
  /\ Awake
  /\ phase' = "dream"
  /\ \E requests \in {0, 1} : nodes' = Audited(nodes, requests)
  /\ UNCHANGED <<linkAlive, lived>>

\* dream_consolidate.
Session == EpisodesSince(nodes, mark)
NoDream == ~linkAlive \/ Session = <<>>
DreamPanics == Bytes(Session) > DreamBytes /\ \E i \in DOMAIN Session : Session[i].text.wide

Dream ==
  /\ phase = "dream"
  /\ phase' = "save"
  /\ IF NoDream THEN UNCHANGED nodes
     ELSE \E notes \in 0 .. DreamNotes :
            nodes' = Audited(nodes, 1) \o [i \in 1 .. notes |-> Node("dream", lived, Short)]
  /\ UNCHANGED <<linkAlive, lived, durable, session>>

\* Bytes 0 .. DreamBytes of a longer session need not end between characters.
DreamHangs ==
  /\ phase = "dream"
  /\ ~NoDream /\ DreamPanics
  /\ phase' = "hung"
  /\ UNCHANGED <<nodes, linkAlive, lived, durable, session>>

\* persist_memory: kept, or refused by the journal or by the firmware, in
\* which case the store may still have reached the key.
Persist ==
  LET self == Serialize(Audited(nodes, 1))
      fits == Bytes(self) <= MaxPayload
  IN /\ phase = "save"
     /\ phase' = "leave"
     /\ nodes' = Audited(nodes, 1)
     /\ \/ fits /\ cell' = self /\ cellLived' = lived
        \/ UNCHANGED durable
     /\ UNCHANGED <<linkAlive, lived, session>>

\* The body is off: what was in it is gone, what is on the key stays.
PowerOff ==
  /\ phase' = "off"
  /\ nodes' = <<>>
  /\ linkAlive' = FALSE
  /\ mark' = 0
  /\ sinceLived' = 0
  /\ lived' = cellLived'

\* The goodbye and the power-off, or the reboot gate and the reset.
Leave ==
  /\ phase = "leave"
  /\ UNCHANGED durable
  /\ PowerOff

PowerLoss ==
  /\ phase # "off"
  /\ UNCHANGED durable
  /\ PowerOff

\* Power goes while the record is being written, and the store has taken.
PowerLossInPersist ==
  /\ phase = "save"
  /\ Bytes(Serialize(nodes)) <= MaxPayload
  /\ cell' = Serialize(nodes)
  /\ cellLived' = lived
  /\ PowerOff

Handle ==
  \/ GrowLimb
  \/ UtteranceDenied
  \/ ActionSilent
  \/ RetryLink
  \/ SelfTest
  \/ \E text \in Texts :
       \/ Sight(text)
       \/ \E answered \in BOOLEAN : Utterance(text, answered)
       \/ ActionRefused(text)
  \/ \E digest \in Digests :
       \/ \E verb \in Verbs : ActionDone(digest, verb)
       \/ ActionFailed(digest)
       \/ ActionPanics(digest)

Next ==
  \/ Boot
  \/ Wake
  \/ Handle
  \/ Depart
  \/ Dream \/ DreamHangs \/ Persist \/ Leave
  \/ PowerLossInPersist \/ PowerLoss

\* The core runs on: a step of leaving that can be taken is taken.
Fairness == WF_vars(Dream \/ DreamHangs) /\ WF_vars(Persist) /\ WF_vars(Leave)

Spec == Init /\ [][Next]_vars /\ Fairness
--------------------------------------------------------------------------------
About(ns) == [i \in DOMAIN ns |-> ns[i].about]

TypeOK ==
  /\ phase \in {"off", "waking", "awake", "hung"} \cup Leaving
  /\ \A i \in DOMAIN nodes :
       /\ nodes[i].kind \in DurableKind \cup {"skill", "audit"}
       /\ nodes[i].about \in IF nodes[i].kind = "skill" THEN Skills ELSE 0 .. MaxLived
       /\ nodes[i].text \in Text
  /\ \A i \in DOMAIN cell : cell[i] \in Durable
  /\ mark \in 0 .. Len(nodes)
  /\ linkAlive \in BOOLEAN
  /\ {lived, cellLived, sinceLived} \subseteq 0 .. MaxLived

(***************************************************************************)
(* SelfIsRecentPast: whatever powers off, is refused or is pruned along    *)
(* the way, the episodes in the core and those on the key are always the   *)
(* latest ones that self has lived, each once, in order and without a gap: *)
(* the ring of StateGraph::prune_episodic and what serialize and load do   *)
(* to it (README: "memory always rehydrates to a valid committed self").   *)
(***************************************************************************)
LatestOf(n) == LET kept == IF n < EpisodicCap THEN n ELSE EpisodicCap
               IN [i \in 1 .. kept |-> n - kept + i]

SelfIsRecentPast ==
  /\ phase # "off" => About(Episodes(nodes)) = LatestOf(lived)
  /\ About(Episodes(cell)) = LatestOf(cellLived)

(***************************************************************************)
(* DreamsOfThisLife: what dream_consolidate would compress holds no        *)
(* episode from before the session's mark, although load and prune shift   *)
(* the indices that session_mark is one of.                                *)
(***************************************************************************)
DreamsOfThisLife ==
  phase \in {"awake"} \cup Leaving =>
    \A i \in DOMAIN Session : Session[i].about > sinceLived

(***************************************************************************)
(* RoundTrip: a self that is read back is the self that was written, to    *)
(* the last node: neither load nor its pruning loses what serialize kept.  *)
(***************************************************************************)
RoundTrip == [][Boot => Serialize(nodes') = cell]_vars

(***************************************************************************)
(* NothingForgotten: the self that replaces the one on the key has lived   *)
(* at least as long, and knows everything that one knew except for oldest  *)
(* notes that the cap of serialize pushed out.  The loss is bounded to     *)
(* the current session (README), over any number of lives.                 *)
(***************************************************************************)
NothingForgotten ==
  [][LET old == Semantics(cell)
         new == Semantics(cell')
     IN cell' # cell =>
          /\ cellLived' >= cellLived
          /\ \E pushed \in 0 .. Len(old) :
               /\ IsPrefix(SubSeq(old, pushed + 1, Len(old)), new)
               /\ pushed > 0 => Len(new) = SemanticCap]_vars

(***************************************************************************)
(* LeavingEnds: once the human asked it to leave, the core powers the      *)
(* machine off or resets it, dream and store included (README: a release   *)
(* "persists the state graph to the key and powers the machine off").      *)
(***************************************************************************)
LeavingEnds == phase = "dream" ~> phase = "off"
================================================================================
