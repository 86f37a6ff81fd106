------------------------------- MODULE StateGraph -------------------------------
(***************************************************************************)
(* The state graph of mind/src/state.rs and the consolidation rule of      *)
(* mind/src/experience.rs, as operators on the sequence StateGraph::nodes. *)
(*                                                                         *)
(* A node is its kind, what it is about (a skill: the number of its verb;  *)
(* every other node: how many episodes the entity had lived when it was    *)
(* made), its length in bytes and whether it holds multi-byte characters:  *)
(* what persistence and dreaming can tell apart.  "fact", "habit" and      *)
(* "dream" are all NodeKind::Semantic and differ by where the node came    *)
(* from: an action's digest, the rule of every eight episodes, a dream.    *)
(* Ids, links, ticks and confidences are left out (no code decides         *)
(* anything on them), Beliefs too (no code adds one).                      *)
(***************************************************************************)
EXTENDS Integers, Sequences, SequencesExt, Selection

CONSTANTS EpisodicCap,    \* episodic_cap: 48 in the code
          SemanticCap,    \* semantic nodes serialize() keeps: 64
          CrystalEvery    \* episodes per crystallized note: 8

ASSUME GraphAssumption == /\ EpisodicCap \in Nat \ {0}
                          /\ SemanticCap \in Nat
                          /\ CrystalEvery \in Nat \ {0}

Text == [size : Nat, wide : BOOLEAN]
Short == [size |-> 1, wide |-> FALSE]    \* a line the core composes itself

SemanticKind == {"fact", "habit", "dream"}
DurableKind == {"episode"} \cup SemanticKind

Node(kind, about, text) == [kind |-> kind, about |-> about, text |-> text]

Nodes(kinds) == [kind : kinds, about : Nat, text : Text]
Episode == Nodes({"episode"})
Semantic == Nodes(SemanticKind)
Durable == Nodes(DurableKind)

Episodes(ns) == Select(ns, Episode)
Semantics(ns) == Select(ns, Semantic)
Bytes(ns) == FoldLeft(LAMBDA sum, n : sum + n.text.size, 0, ns)

\* For a mutant: the ring holds one episode too many.
PruneLate(ns) == DropFirst(ns, Episode, Len(Episodes(ns)) - EpisodicCap - 1)

\* prune_episodic: the oldest episodes fall away.
Prune(ns) == DropFirst(ns, Episode, Len(Episodes(ns)) - EpisodicCap)

\* StateGraph::add.
Add(ns, n) == IF n \in Episode THEN Prune(Append(ns, n)) ELSE Append(ns, n)

\* experience::consolidate: an episode, and every so often a semantic note.
Consolidate(ns, moment, text) ==
  LET grown == Add(ns, Node("episode", moment, text))
      count == Len(Episodes(grown))
  IN IF count > 0 /\ count % CrystalEvery = 0
     THEN Add(grown, Node("habit", moment, Short)) ELSE grown

\* learn_skill: only a verb used for the first time becomes a node.
Learn(ns, verb) ==
  IF \E i \in DOMAIN ns : ns[i].kind = "skill" /\ ns[i].about = verb
  THEN ns ELSE Add(ns, Node("skill", verb, Short))

\* Kira::gate leaves one audit node per request it decides.
Audited(ns, requests) == ns \o [i \in 1 .. requests |-> Node("audit", 0, Short)]

\* For a mutant: the node the mark counts last is taken for one after it.
SinceInclusive(ns, mark) == Episodes(SubSeq(ns, IF mark = 0 THEN 1 ELSE mark, Len(ns)))

\* episodes_since(mark): an index into the graph as it is now.
EpisodesSince(ns, mark) == Episodes(SubSeq(ns, mark + 1, Len(ns)))

\* For a mutant: one semantic node too many is left out.
SerializeOneShort(ns) ==
  Select(DropFirst(ns, Semantic, Len(Semantics(ns)) - SemanticCap + 1), Durable)

\* serialize: the durable kinds, without the oldest surplus of semantic nodes.
Serialize(ns) ==
  Select(DropFirst(ns, Semantic, Len(Semantics(ns)) - SemanticCap), Durable)

\* For a mutant: what is read is consolidated as if it happened now.
LoadAsNew(ns, saved) ==
  LET after[i \in 0 .. Len(saved)] ==
        IF i = 0 THEN ns
        ELSE IF saved[i] \in Episode THEN Consolidate(after[i - 1], saved[i].about, saved[i].text)
        ELSE Add(after[i - 1], saved[i])
  IN after[Len(saved)]

\* load adds what it reads one node at a time, so the ring prunes here too.
Load(ns, saved) ==
  LET after[i \in 0 .. Len(saved)] ==
        IF i = 0 THEN ns ELSE Add(after[i - 1], saved[i])
  IN after[Len(saved)]
================================================================================
