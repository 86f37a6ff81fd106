------------------------------ MODULE MemoryProofs ------------------------------
(***************************************************************************)
(* Theorems about module Memory, for every size of the ring and of what    *)
(* the key keeps, and over any number of lives.                            *)
(***************************************************************************)
EXTENDS Memory, SelectionProofs

Kind == DurableKind \cup {"skill", "audit"}
AnyNode == {n \in Nodes(Kind) : n.about \in IF n.kind = "skill" THEN Skills ELSE 0 .. MaxLived}
Note == AnyNode \ Episode

\* The episodes es are the latest of n, as many as the ring holds.
Kept(n) == IF n < EpisodicCap THEN n ELSE EpisodicCap
Ring(es, n) ==
  /\ Len(es) = Kept(n)
  /\ \A i \in 1 .. Kept(n) : es[i].about = n - Kept(n) + i

\* b begins with all of a.
Starts(a, b) == Len(a) <= Len(b) /\ \A i \in 1 .. Len(a) : a[i] = b[i]

\* A graph that has lived n episodes and still knows all of old.
Knows(ns, n, old) ==
  /\ ns \in Seq(AnyNode)
  /\ Ring(Episodes(ns), n)
  /\ Starts(old, Semantics(ns))

\* Nothing above the mark m is older than since.
Fresh(ns, m, since) ==
  m <= Len(ns) /\ \A i \in m + 1 .. Len(ns) : ns[i] \in Episode => ns[i].about > since

\* What is on the key was serialized.
Self ==
  /\ cell \in Seq(AnyNode \cap Durable)
  /\ Ring(Episodes(cell), cellLived)
  /\ Len(Semantics(cell)) <= SemanticCap

\* What is in the core came from the key and only grew, until it was stored.
Body == phase # "off" =>
  Knows(nodes, lived, IF phase = "leave" THEN <<>> ELSE Semantics(cell))

Marked == phase \in {"awake"} \cup Leaving => Fresh(nodes, mark, sinceLived)

\* The ages of the self in the core, on the key and at the mark.
Ages ==
  /\ sinceLived <= lived /\ cellLived <= lived
  /\ phase = "off" => nodes = <<>> /\ lived = cellLived
  /\ phase \in {"off", "waking"} => mark = 0 /\ sinceLived = 0

Shape ==
  /\ phase \in {"off", "waking", "awake", "hung"} \cup Leaving
  /\ mark \in 0 .. Len(nodes)
  /\ linkAlive \in BOOLEAN
  /\ {lived, cellLived, sinceLived} \subseteq 0 .. MaxLived

\* The inductive invariant.
IInv == Shape /\ Self /\ Body /\ Marked /\ Ages
--------------------------------------------------------------------------------
(***************************************************************************)
(* The kinds of nodes.                                                     *)
(***************************************************************************)
LEMMA Kinds ==
  /\ Episode \cap Semantic = {} /\ Durable \cap Episode = Episode
  /\ Durable \cap Semantic = Semantic
  /\ AnyNode \cap Durable = (AnyNode \cap Episode) \cup (AnyNode \cap Semantic)
<1>1. Episode \cap Semantic = {}
  BY DEF Episode, Semantic, Nodes, SemanticKind
<1>2. Episode \subseteq Durable /\ Semantic \subseteq Durable
  BY DEF Durable, Episode, Semantic, Nodes, DurableKind
<1>3. Durable \subseteq Episode \cup Semantic
  <2>1. ASSUME NEW n \in Durable PROVE n \in Episode \cup Semantic
    <3>1. n.kind = "episode" => n \in Episode
      BY DEF Durable, Episode, Nodes
    <3>2. n.kind \in SemanticKind => n \in Semantic
      BY DEF Durable, Semantic, Nodes
    <3>3. n.kind \in {"episode"} \cup SemanticKind
      BY DEF Durable, Nodes, DurableKind
    <3> QED BY <3>1, <3>2, <3>3
  <2> QED BY <2>1
<1> QED BY <1>1, <1>2, <1>3

\* What the bounds and the texts are, from the assumptions on the constants.
LEMMA Numerals ==
  /\ EpisodicCap \in Nat \ {0} /\ SemanticCap \in Nat /\ MaxLived \in Nat
  /\ Short \in Text /\ Texts \subseteq Text /\ Digests \subseteq Text
  /\ Skills \subseteq Nat
  BY GraphAssumption, MemoryAssumption DEF Short, Text, Skills, WriteThenRun

\* The nodes that the actions build are nodes of the graph.
LEMMA NodeTypes ==
  /\ \A about \in 0 .. MaxLived, text \in Text : Node("episode", about, text) \in AnyNode \cap Episode
  /\ \A kind \in SemanticKind \cup {"audit"}, about \in 0 .. MaxLived, text \in Text :
       Node(kind, about, text) \in Note
  /\ \A about \in Skills, text \in Text : Node("skill", about, text) \in Note
<1>1. \A about \in 0 .. MaxLived, text \in Text : Node("episode", about, text) \in AnyNode \cap Episode
  BY Numerals DEF Node, AnyNode, Episode, Nodes, Kind, DurableKind
<1>2. ASSUME NEW kind \in SemanticKind \cup {"audit"}, NEW about \in 0 .. MaxLived, NEW text \in Text
      PROVE  Node(kind, about, text) \in Note
  <2>1. kind \in Kind /\ kind # "skill" /\ kind # "episode" /\ about \in Nat
    BY Numerals DEF Kind, DurableKind, SemanticKind
  <2>2. Node(kind, about, text) \in Nodes(Kind) /\ Node(kind, about, text).kind = kind
        /\ Node(kind, about, text).about = about
    BY <2>1 DEF Node, Nodes
  <2>3. Node(kind, about, text) \in AnyNode
    BY <2>1, <2>2 DEF AnyNode
  <2>4. Node(kind, about, text) \notin Episode
    BY <2>1, <2>2 DEF Episode, Nodes
  <2> QED BY <2>3, <2>4 DEF Note
<1>3. ASSUME NEW about \in Skills, NEW text \in Text PROVE Node("skill", about, text) \in Note
  <2>1. "skill" \in Kind /\ about \in Nat
    BY Numerals DEF Kind
  <2>2. Node("skill", about, text) \in Nodes(Kind) /\ Node("skill", about, text).kind = "skill"
        /\ Node("skill", about, text).about = about
    BY <2>1 DEF Node, Nodes
  <2>3. Node("skill", about, text) \in AnyNode
    BY <2>2 DEF AnyNode
  <2>4. Node("skill", about, text) \notin Episode
    BY <2>2 DEF Episode, Nodes
  <2> QED BY <2>3, <2>4 DEF Note
<1> QED BY <1>1, <1>2, <1>3

(***************************************************************************)
(* To begin with a sequence: by itself, by what is in front of it, and by  *)
(* one that begins with it.                                                *)
(***************************************************************************)
LEMMA StartsConcat ==
  ASSUME NEW S, NEW a \in Seq(S), NEW b \in Seq(S), NEW c \in Seq(S), Starts(a, b)
  PROVE  Starts(a, b \o c)
<1>1. PICK m \in Nat, n \in Nat, k \in Nat : m = Len(a) /\ n = Len(b) /\ k = Len(c)
  BY LenProperties
<1>2. Len(b \o c) = n + k /\ \A i \in 1 .. n : (b \o c)[i] = b[i]
  <2>1. Len(b \o c) = n + k
    BY <1>1, ConcatProperties
  <2>2. ASSUME NEW i \in 1 .. n PROVE (b \o c)[i] = b[i]
    <3>1. i \in 1 .. n + k /\ i <= n
      BY <1>1
    <3> QED BY <1>1, <3>1, ConcatProperties
  <2> QED BY <2>1, <2>2
<1>3. m <= n /\ \A i \in 1 .. m : a[i] = b[i]
  BY <1>1 DEF Starts
<1>4. m <= n + k /\ \A i \in 1 .. m : i \in 1 .. n
  BY <1>1, <1>3
<1> QED BY <1>1, <1>2, <1>3, <1>4 DEF Starts

\* A sequence starts with itself and with the empty one.
LEMMA StartsItself ==
  ASSUME NEW S, NEW a \in Seq(S) PROVE Starts(a, a) /\ Starts(<<>>, a)
<1>1. Len(a) \in Nat /\ Len(<<>>) = 0
  BY LenProperties, EmptySeq
<1> QED BY <1>1 DEF Starts

(***************************************************************************)
(* The ring is what SelfIsRecentPast says of the episodes.                 *)
(***************************************************************************)
LEMMA RingIsLatest ==
  ASSUME NEW S, NEW es \in Seq(S), NEW n \in Nat, Ring(es, n)
  PROVE  About(es) = LatestOf(n)
<1>1. DOMAIN es = 1 .. Kept(n) /\ \A i \in 1 .. Kept(n) : es[i].about = n - Kept(n) + i
  BY LenProperties DEF Ring
<1> QED BY <1>1 DEF About, LatestOf, Kept

(***************************************************************************)
(* A graph that only grew by nodes that are no episodes.                   *)
(***************************************************************************)
Grown(ns, ms) == \E more \in Seq(Note) : ms = ns \o more

\* A graph that has grown by notes knows what it knew and has the same episodes.
LEMMA GrownKeeps ==
  ASSUME NEW ns, NEW ms, NEW n, NEW old \in Seq(Semantic \cap AnyNode), Knows(ns, n, old), Grown(ns, ms)
  PROVE  /\ Knows(ms, n, old) /\ Episodes(ms) = Episodes(ns) /\ Len(ns) <= Len(ms)
         /\ \A m \in Nat : \A since : Fresh(ns, m, since) => Fresh(ms, m, since)
<1>1. PICK more : more \in Seq(Note) /\ ms = ns \o more
  BY DEF Grown
<1>2. ns \in Seq(AnyNode) /\ more \in Seq(AnyNode) /\ ms \in Seq(AnyNode)
  <2>1. ns \in Seq(AnyNode) /\ more \in Seq(AnyNode)
    BY <1>1, SeqMonotonic DEF Knows, Note
  <2> QED BY <1>1, <2>1, ConcatProperties
<1>3. Episodes(ms) = Episodes(ns)
  <2>1. Select(more, Episode) = <<>>
    BY <1>1, SelectNone DEF Note
  <2>2. Select(ns, Episode) \in Seq(AnyNode)
    BY <1>2, SelectIn
  <2>3. Select(ms, Episode) = Select(ns, Episode) \o Select(more, Episode)
    BY <1>1, <1>2, SelectConcat
  <2> QED BY <2>1, <2>2, <2>3, ConcatEmptySeq DEF Episodes
<1>4. Starts(old, Semantics(ms))
  <2>1. Semantics(ms) = Semantics(ns) \o Semantics(more)
    BY <1>1, <1>2, SelectConcat DEF Semantics
  <2>2. Semantics(ns) \in Seq(AnyNode) /\ Semantics(more) \in Seq(AnyNode) /\ old \in Seq(AnyNode)
    BY <1>2, SelectIn, SeqMonotonic DEF Semantics
  <2> QED BY <2>1, <2>2, StartsConcat DEF Knows
<1>5. PICK k \in Nat, l \in Nat : k = Len(ns) /\ l = Len(more)
  BY <1>2, LenProperties
<1>6. Len(ms) = k + l /\ \A i \in 1 .. k + l : ms[i] = IF i <= k THEN ns[i] ELSE more[i - k]
  BY <1>1, <1>2, <1>5, ConcatProperties
<1>7. \A i \in 1 .. l : more[i] \notin Episode
  BY <1>1, <1>5, ElementOfSeq DEF Note
<1>8. ASSUME NEW m \in Nat, NEW since, Fresh(ns, m, since) PROVE Fresh(ms, m, since)
  <2>1. m <= k /\ \A i \in m + 1 .. k : ns[i] \in Episode => ns[i].about > since
    BY <1>5, <1>8 DEF Fresh
  <2>2. ASSUME NEW i \in m + 1 .. k + l, ms[i] \in Episode PROVE ms[i].about > since
    <3>1. CASE i <= k
      <4>1. i \in m + 1 .. k /\ i \in 1 .. k + l
        BY <3>1
      <4> QED BY <1>6, <2>1, <2>2, <3>1, <4>1
    <3>2. CASE ~(i <= k)
      <4>1. i - k \in 1 .. l /\ i \in 1 .. k + l
        BY <3>2
      <4> QED BY <1>6, <1>7, <2>2, <3>2, <4>1
    <3> QED BY <3>1, <3>2
  <2>3. m <= k + l
    BY <2>1
  <2> QED BY <1>6, <2>2, <2>3 DEF Fresh
<1>9. Knows(ms, n, old)
  BY <1>2, <1>3, <1>4 DEF Knows
<1>10. Len(ns) <= Len(ms)
  BY <1>5, <1>6
<1> QED BY <1>3, <1>8, <1>9, <1>10

\* Growing twice is growing.
LEMMA GrownTwice ==
  ASSUME NEW ns \in Seq(AnyNode), NEW ms, NEW ls, Grown(ns, ms), Grown(ms, ls)
  PROVE  Grown(ns, ls) /\ ms \in Seq(AnyNode)
<1>1. PICK a : a \in Seq(Note) /\ ms = ns \o a
  BY DEF Grown
<1>2. PICK b : b \in Seq(Note) /\ ls = ms \o b
  BY DEF Grown
<1>3. a \in Seq(AnyNode) /\ b \in Seq(AnyNode)
  BY <1>1, <1>2, SeqMonotonic DEF Note
<1>4. ls = ns \o (a \o b)
  <2>1. ls = (ns \o a) \o b
    BY <1>1, <1>2
  <2>2. (ns \o a) \o b = ns \o (a \o b)
    BY <1>3, ConcatAssociative
  <2> QED BY <2>1, <2>2
<1>5. a \o b \in Seq(Note)
  BY <1>1, <1>2, ConcatProperties
<1>6. ms \in Seq(AnyNode)
  BY <1>1, <1>3, ConcatProperties
<1> QED BY <1>4, <1>5, <1>6 DEF Grown

\* A graph that has grown is a graph.
LEMMA GrownType ==
  ASSUME NEW ns \in Seq(AnyNode), NEW ms, Grown(ns, ms) PROVE ms \in Seq(AnyNode)
<1>1. PICK a : a \in Seq(Note) /\ ms = ns \o a
  BY DEF Grown
<1>2. a \in Seq(AnyNode)
  BY <1>1, SeqMonotonic DEF Note
<1> QED BY <1>1, <1>2, ConcatProperties

\* A graph that stays has grown, by nothing.
LEMMA GrownNot ==
  ASSUME NEW ns \in Seq(AnyNode) PROVE Grown(ns, ns)
<1>1. ns \o <<>> = ns /\ <<>> \in Seq(Note)
  BY ConcatEmptySeq, EmptySeq
<1> QED BY <1>1 DEF Grown

\* One note grows the graph, whether or not it replaces an older one.
LEMMA GrownByOne ==
  ASSUME NEW ns \in Seq(AnyNode), NEW n \in Note
  PROVE  Grown(ns, Append(ns, n)) /\ Grown(ns, Add(ns, n))
<1>1. <<n>> \in Seq(Note) /\ n \in AnyNode /\ n \notin Episode
  BY DEF Note
<1>2. Append(ns, n) = ns \o <<n>>
  BY <1>1, AppendIsConcat
<1> QED BY <1>1, <1>2 DEF Grown, Add

\* Several audits or dreams grow the graph.
LEMMA GrownByMany ==
  ASSUME NEW ns \in Seq(AnyNode), NEW kind \in {"audit", "dream"}, NEW about \in 0 .. MaxLived, NEW count \in Nat
  PROVE  Grown(ns, ns \o [i \in 1 .. count |-> Node(kind, about, Short)])
<1>1. Node(kind, about, Short) \in Note
  BY NodeTypes, Numerals DEF SemanticKind
<1>2. [i \in 1 .. count |-> Node(kind, about, Short)] \in [1 .. count -> Note]
  BY <1>1
<1>3. [i \in 1 .. count |-> Node(kind, about, Short)] \in Seq(Note)
  BY <1>2
<1> QED BY <1>3 DEF Grown

\* The audits of the requests grow the graph.
LEMMA GrownByAudits ==
  ASSUME NEW ns \in Seq(AnyNode), NEW requests \in Nat
  PROVE  Grown(ns, Audited(ns, requests)) /\ Audited(ns, requests) \in Seq(AnyNode)
<1>1. 0 \in 0 .. MaxLived
  BY Numerals
<1>2. Grown(ns, Audited(ns, requests))
  BY <1>1, GrownByMany DEF Audited
<1> QED BY <1>2, GrownType

\* A skill, learnt or known already, grows the graph.
LEMMA GrownBySkill ==
  ASSUME NEW ns \in Seq(AnyNode), NEW verb \in Skills
  PROVE  Grown(ns, Learn(ns, verb)) /\ Learn(ns, verb) \in Seq(AnyNode)
<1>1. Node("skill", verb, Short) \in Note
  BY NodeTypes, Numerals
<1>2. Grown(ns, Learn(ns, verb))
  BY <1>1, GrownByOne, GrownNot DEF Learn
<1> QED BY <1>2, GrownType

--------------------------------------------------------------------------------
(***************************************************************************)
(* The ring when one more episode is lived, while it fills and once it is  *)
(* full and its oldest falls away.                                         *)
(***************************************************************************)
LEMMA RingGrows ==
  ASSUME NEW S, NEW es \in Seq(S), NEW n \in Nat, Ring(es, n), NEW e \in S, e.about = n + 1
  PROVE  /\ n < EpisodicCap => Len(es) = n /\ Ring(Append(es, e), n + 1)
         /\ n >= EpisodicCap =>
              Len(es) = EpisodicCap /\ Ring(SubSeq(Append(es, e), 2, EpisodicCap + 1), n + 1)
<1> DEFINE a == Append(es, e)
<1>1. PICK c \in Nat \ {0} : c = EpisodicCap
  BY Numerals
<1>2. PICK k \in Nat : k = Len(es)
  BY LenProperties
<1>3. k = Kept(n) /\ Kept(n) = (IF n < c THEN n ELSE c) /\ \A i \in 1 .. k : es[i].about = n - k + i
  BY <1>1, <1>2 DEF Ring, Kept
<1>4. a \in Seq(S) /\ Len(a) = k + 1 /\ a[k + 1] = e /\ \A i \in 1 .. k : a[i] = es[i]
  BY <1>2, AppendProperties
<1> HIDE DEF a
<1>5. ASSUME NEW i \in 1 .. k + 1 PROVE a[i].about = n - k + i
  <2>1. CASE i \in 1 .. k
    BY <1>3, <1>4, <2>1
  <2>2. CASE i = k + 1
    <3>1. n - k + i = n + 1
      BY <2>2
    <3> QED BY <1>4, <2>2, <3>1
  <2> QED BY <2>1, <2>2
<1>6. CASE n < c
  <2>1. k = n /\ Kept(n + 1) = n + 1
    BY <1>1, <1>3, <1>6 DEF Kept
  <2>2. \A i \in 1 .. n + 1 : a[i].about = n + 1 - (n + 1) + i
    BY <1>5, <2>1
  <2>3. Ring(a, n + 1)
    BY <1>1, <1>4, <2>1, <2>2 DEF Ring
  <2> QED BY <1>1, <1>2, <1>6, <2>1, <2>3 DEF a
<1>7. CASE ~(n < c)
  <2>1. k = c /\ Kept(n + 1) = c
    BY <1>1, <1>3, <1>7 DEF Kept
  <2> DEFINE b == SubSeq(a, 2, c + 1)
  <2>2. Len(b) = c /\ \A i \in 1 .. c : b[i] = a[i + 1]
    <3>1. \A i \in 2 .. c + 1 : a[i] \in S
      <4>1. \A i \in 2 .. c + 1 : i \in 1 .. Len(a)
        BY <1>4, <2>1
      <4> QED BY <1>4, <4>1, ElementOfSeq
    <3>2. 2 \in Int /\ c + 1 \in Int
      OBVIOUS
    <3>3. /\ Len(b) = (IF 2 <= c + 1 THEN c + 1 - 2 + 1 ELSE 0)
          /\ \A i \in 1 .. c + 1 - 2 + 1 : b[i] = a[2 + i - 1]
      BY <3>1, <3>2, SubSeqProperties
    <3> HIDE DEF b
    <3>4. (IF 2 <= c + 1 THEN c + 1 - 2 + 1 ELSE 0) = c
      OBVIOUS
    <3>5. \A i \in 1 .. c : i \in 1 .. c + 1 - 2 + 1 /\ 2 + i - 1 = i + 1
      OBVIOUS
    <3> QED BY <3>3, <3>4, <3>5
  <2> HIDE DEF b
  <2>3. ASSUME NEW i \in 1 .. c PROVE b[i].about = n + 1 - c + i
    <3>1. i + 1 \in 1 .. k + 1 /\ n - k + (i + 1) = n + 1 - c + i
      BY <2>1
    <3> QED BY <1>5, <2>2, <3>1
  <2>4. Ring(b, n + 1)
    BY <2>1, <2>2, <2>3 DEF Ring
  <2> QED BY <1>1, <1>2, <1>7, <2>1, <2>4 DEF a, b
<1> QED BY <1>1, <1>6, <1>7

(***************************************************************************)
(* StateGraph::add of the next episode: the ring moves on, no semantic     *)
(* node is lost, and what is above a mark is still above it.               *)
(***************************************************************************)
LEMMA AddEpisode ==
  ASSUME NEW ns, NEW n \in Nat, NEW old, Knows(ns, n, old),
         NEW e \in AnyNode \cap Episode, e.about = n + 1
  PROVE  /\ Knows(Add(ns, e), n + 1, old)
         /\ \A m \in Nat, since \in 0 .. n : Fresh(ns, m, since) => Fresh(Add(ns, e), m, since)
<1> DEFINE a == Append(ns, e)
           k == Len(Episodes(a)) - EpisodicCap
           p == DropFirst(a, Episode, k)
<1>1. Add(ns, e) = p
  BY DEF Add, Prune
<1>2. PICK c \in Nat \ {0}, l \in Nat : c = EpisodicCap /\ l = Len(ns)
  BY Numerals, LenProperties DEF Knows
<1>3. ns \in Seq(AnyNode) /\ Ring(Episodes(ns), n) /\ Starts(old, Semantics(ns))
  BY DEF Knows
<1>4. a \in Seq(AnyNode) /\ Len(a) = l + 1 /\ a[l + 1] = e /\ \A i \in 1 .. l : a[i] = ns[i]
  BY <1>2, <1>3, AppendProperties
<1>5. Episodes(a) = Append(Episodes(ns), e)
  BY <1>3, SelectAppend DEF Episodes
<1>6. Semantics(a) = Semantics(ns)
  <2>1. e \notin Semantic
    BY Kinds
  <2> QED BY <1>3, <2>1, SelectAppend DEF Semantics
<1>7. Episodes(ns) \in Seq(AnyNode) /\ Episodes(a) \in Seq(AnyNode)
  BY <1>3, <1>4, SelectIn DEF Episodes
<1>8. Len(Episodes(a)) = Len(Episodes(ns)) + 1
  BY <1>5, <1>7, AppendProperties
<1>9. /\ n < c => Len(Episodes(ns)) = n /\ Ring(Episodes(a), n + 1)
      /\ n >= c => Len(Episodes(ns)) = c /\ Ring(SubSeq(Episodes(a), 2, c + 1), n + 1)
  BY <1>2, <1>3, <1>5, <1>7, RingGrows
<1>10. k \in Int /\ k = IF n < c THEN n + 1 - c ELSE 1
  <2>1. n < c => Len(Episodes(a)) - c = n + 1 - c
    BY <1>8, <1>9
  <2>2. n >= c => Len(Episodes(a)) = c + 1
    BY <1>8, <1>9
  <2> QED BY <1>2, <2>1, <2>2
<1>11. p \in Seq(AnyNode) /\ Semantics(p) = Semantics(ns) /\ MovedUp(a, p)
  <2>1. Episode \cap Semantic = {}
    BY Kinds
  <2> HIDE DEF a, k
  <2> QED BY <1>4, <1>6, <1>10, <2>1, DropType, SelectOthers, DropMovesUp DEF Semantics
<1>12. Ring(Episodes(p), n + 1) /\ Len(p) >= l
  <2>1. CASE n < c
    <3>1. k <= 0
      BY <1>10, <2>1
    <3>2. p = a
      <4> HIDE DEF a, k
      <4> QED BY <1>4, <1>10, <3>1, DropNothing
    <3> HIDE DEF p, a
    <3>3. Len(p) = l + 1 /\ l + 1 >= l
      BY <1>2, <1>4, <3>2
    <3> QED BY <1>9, <2>1, <3>2, <3>3
  <2>2. CASE ~(n < c)
    <3>1. k = 1 /\ 1 \in Nat /\ Len(Episodes(a)) = c + 1
      BY <1>8, <1>9, <1>10, <2>2
    <3>2. Select(DropFirst(a, Episode, 1), Episode)
            = SubSeq(Select(a, Episode), 1 + 1, Len(Select(a, Episode)))
      <4> HIDE DEF a
      <4> QED BY <1>4, SelectDropped
    <3>3. Len(DropFirst(a, Episode, 1))
            = Len(a) - (IF Len(Select(a, Episode)) < 1 THEN Len(Select(a, Episode)) ELSE 1)
      <4> HIDE DEF a
      <4> QED BY <1>4, DropLength
    <3>4. p = DropFirst(a, Episode, 1)
      BY <3>1
    <3> HIDE DEF p, a
    <3>5. Episodes(p) = SubSeq(Episodes(a), 2, c + 1)
      BY <3>1, <3>2, <3>4 DEF Episodes
    <3>6. Len(p) = l + 1 - 1
      <4>1. Len(Select(a, Episode)) = c + 1 /\ ~(c + 1 < 1)
        BY <3>1 DEF Episodes
      <4> QED BY <1>4, <3>3, <3>4, <4>1
    <3> QED BY <1>9, <2>2, <3>5, <3>6
  <2> QED BY <2>1, <2>2
<1> HIDE DEF p, a, k
<1>13. Knows(p, n + 1, old)
  BY <1>3, <1>11, <1>12 DEF Knows
<1>14. ASSUME NEW m \in Nat, NEW since \in 0 .. n, Fresh(ns, m, since)
       PROVE  Fresh(p, m, since)
  <2>1. m <= l /\ \A i \in m + 1 .. l : ns[i] \in Episode => ns[i].about > since
    BY <1>2, <1>14 DEF Fresh
  <2>2. PICK q \in Nat : q = Len(p)
    BY <1>11, LenProperties
  <2>3. ASSUME NEW i \in m + 1 .. q, p[i] \in Episode PROVE p[i].about > since
    <3>1. PICK j \in i .. l + 1 : p[i] = a[j]
      <4>1. i \in 1 .. Len(p)
        BY <2>2
      <4> QED BY <1>4, <1>11, <4>1 DEF MovedUp
    <3>2. CASE j = l + 1
      BY <1>4, <3>1, <3>2
    <3>3. CASE j # l + 1
      <4>1. j \in m + 1 .. l /\ j \in 1 .. l
        BY <3>3
      <4> QED BY <1>4, <2>1, <2>3, <3>1, <4>1
    <3> QED BY <3>2, <3>3
  <2>4. m <= q
    BY <1>12, <2>1, <2>2
  <2> QED BY <2>2, <2>3, <2>4 DEF Fresh
<1> QED BY <1>1, <1>13, <1>14

(***************************************************************************)
(* experience::consolidate, the note of every so many episodes included.   *)
(***************************************************************************)
LEMMA Living ==
  ASSUME NEW ns, NEW n \in Nat, n < MaxLived, NEW old \in Seq(Semantic \cap AnyNode),
         Knows(ns, n, old), NEW text \in Text
  PROVE  /\ Knows(Consolidate(ns, n + 1, text), n + 1, old)
         /\ \A m \in Nat, since \in 0 .. n :
              Fresh(ns, m, since) => Fresh(Consolidate(ns, n + 1, text), m, since)
<1> DEFINE e == Node("episode", n + 1, text)
           h == Node("habit", n + 1, Short)
           g == Add(ns, e)
<1>1. n + 1 \in 0 .. MaxLived
  BY Numerals
<1>2. e \in AnyNode \cap Episode /\ e.about = n + 1
  BY <1>1, NodeTypes DEF Node
<1>3. h \in Note
  BY <1>1, NodeTypes, Numerals DEF SemanticKind
<1>4. Consolidate(ns, n + 1, text) \in {g, Add(g, h)}
  BY DEF Consolidate
<1> HIDE DEF e, h
<1>5. /\ Knows(g, n + 1, old)
      /\ \A m \in Nat, since \in 0 .. n : Fresh(ns, m, since) => Fresh(g, m, since)
  BY <1>2, AddEpisode
<1> HIDE DEF g
<1>6. g \in Seq(AnyNode)
  BY <1>5 DEF Knows
<1>7. Grown(g, Add(g, h))
  BY <1>3, <1>6, GrownByOne
<1>8. /\ Knows(Add(g, h), n + 1, old)
      /\ \A m \in Nat : \A since : Fresh(g, m, since) => Fresh(Add(g, h), m, since)
  BY <1>5, <1>7, GrownKeeps
<1> QED BY <1>4, <1>5, <1>8

--------------------------------------------------------------------------------
(***************************************************************************)
(* A ring that is not over full is left as it is.                          *)
(***************************************************************************)
LEMMA PruneNothing ==
  ASSUME NEW ns \in Seq(AnyNode), Len(Episodes(ns)) <= EpisodicCap PROVE Prune(ns) = ns
<1>1. Episodes(ns) \in Seq(AnyNode)
  BY SelectIn DEF Episodes
<1>2. Len(Episodes(ns)) - EpisodicCap \in Int /\ Len(Episodes(ns)) - EpisodicCap <= 0
  BY <1>1, LenProperties, Numerals
<1> QED BY <1>2, DropNothing DEF Prune

(***************************************************************************)
(* StateGraph::load adds what it reads to an empty graph, node by node:    *)
(* that is what was read, when its episodes fit the ring.                  *)
(***************************************************************************)
LEMMA Loading ==
  ASSUME NEW s \in Seq(AnyNode), Len(Episodes(s)) <= EpisodicCap
  PROVE  Load(<<>>, s) = s
<1>1. PICK n \in Nat : n = Len(s)
  BY LenProperties
<1> DEFINE Upto(i) == SubSeq(s, 1, i)
<1>2. ASSUME NEW i \in 1 .. n
      PROVE  Upto(i - 1) \in Seq(AnyNode) /\ s[i] \in AnyNode /\ Upto(i) = Append(Upto(i - 1), s[i])
  <2>1. SubSeq(s, 1, i - 1) \in Seq(AnyNode) /\ s[i] \in AnyNode
    BY <1>1, SubSeqProperties
  <2> QED BY <1>1, <2>1, SubSeqRecursiveSecond, AppendIsConcat
<1>3. ASSUME NEW i \in 1 .. n PROVE Add(Upto(i - 1), s[i]) = Upto(i)
  <2> DEFINE u == SubSeq(s, 1, i)
             v == SubSeq(s, i + 1, n)
  <2>1. u \in Seq(AnyNode) /\ v \in Seq(AnyNode)
    <3>1. \A j \in 1 .. i : s[j] \in AnyNode
      BY <1>1, ElementOfSeq
    <3>2. \A j \in i + 1 .. n : s[j] \in AnyNode
      BY <1>1, ElementOfSeq
    <3> QED BY <3>1, <3>2, SubSeqProperties
  <2>2. s = u \o v
    <3>1. SubSeq(s, 1, i) \o SubSeq(s, i + 1, n) = SubSeq(s, 1, n)
      BY <1>1, ConcatAdjacentSubSeq
    <3>2. SubSeq(s, 1, n) = s
      BY <1>1, SubSeqFull
    <3> QED BY <3>1, <3>2
  <2> HIDE DEF u, v
  <2>3. Episodes(u) \in Seq(AnyNode) /\ Episodes(v) \in Seq(AnyNode)
    BY <2>1, SelectIn DEF Episodes
  <2>4. Episodes(s) = Episodes(u) \o Episodes(v)
    BY <2>1, <2>2, SelectConcat DEF Episodes
  <2>5. Len(Episodes(u)) <= EpisodicCap
    <3>1. PICK x \in Nat, y \in Nat : x = Len(Episodes(u)) /\ y = Len(Episodes(v))
      BY <2>3, LenProperties
    <3>2. x + y <= EpisodicCap
      BY <2>3, <2>4, <3>1, ConcatProperties
    <3> QED BY <3>1, <3>2, Numerals
  <2>6. Prune(u) = u
    BY <2>1, <2>5, PruneNothing
  <2>7. Append(Upto(i - 1), s[i]) = u
    BY <1>2 DEF u
  <2> HIDE DEF Upto
  <2>8. Add(Upto(i - 1), s[i]) = u
    BY <2>6, <2>7 DEF Add
  <2> QED BY <2>8 DEF u, Upto
<1> DEFINE E(g, i) == IF i = 0 THEN <<>> ELSE Add(g[i - 1], s[i])
           F(g) == [i \in 0 .. n |-> E(g, i)]
           after == CHOOSE g : g = F(g)
           f == [i \in 0 .. n |-> Upto(i)]
<1>4. Upto(0) = <<>> /\ Upto(n) = s
  BY <1>1, SubSeqEmpty, SubSeqFull
<1>5. \A i \in 0 .. n : f[i] = Upto(i)
  OBVIOUS
<1> HIDE DEF Upto
<1>6. f = F(f)
  <2>1. ASSUME NEW i \in 0 .. n PROVE Upto(i) = E(f, i)
    <3>1. CASE i = 0
      BY <1>4, <3>1
    <3>2. CASE i # 0
      <4>1. i \in 1 .. n /\ i - 1 \in 0 .. n
        BY <3>2
      <4>2. f[i - 1] = Upto(i - 1) /\ Add(Upto(i - 1), s[i]) = Upto(i)
        BY <1>3, <1>5, <4>1
      <4> QED BY <3>2, <4>2
    <3> QED BY <3>1, <3>2
  <2> HIDE DEF E
  <2> QED BY <2>1
<1>7. after = F(after)
  <2> HIDE DEF F, f
  <2> QED BY <1>6, Zenon
<1>8. Load(<<>>, s) = after[n]
  BY <1>1, Zenon DEF Load
<1> HIDE DEF after
<1>9. \A i \in 0 .. n : after[i] = E(after, i)
  <2> HIDE DEF E
  <2> QED BY <1>7, Zenon
<1>10. after[0] = f[0]
  BY <1>4, <1>5, <1>9
<1>11. ASSUME NEW i \in 1 .. n, after[i - 1] = f[i - 1] PROVE after[i] = f[i]
  <2>1. i \in 0 .. n /\ i # 0 /\ i - 1 \in 0 .. n
    OBVIOUS
  <2>2. after[i] = Add(after[i - 1], s[i])
    BY <1>9, <2>1
  <2>3. f[i - 1] = Upto(i - 1) /\ f[i] = Upto(i)
    BY <1>5, <2>1
  <2> HIDE DEF f
  <2> QED BY <1>3, <1>11, <2>2, <2>3
<1>12. after[n] = f[n]
  <2> HIDE DEF f
  <2>1. \A i \in 1 .. n : after[i - 1] = f[i - 1] => after[i] = f[i]
    BY <1>11
  <2> DEFINE G == {i \in 0 .. n : after[i] = f[i]}
  <2>2. 0 \in G /\ \A i \in 1 .. n : i - 1 \in G => i \in G
    BY <1>1, <1>10, <2>1
  <2>3. 0 .. n \subseteq G
    <3> HIDE DEF G
    <3> QED BY <1>1, <2>2, UpTo
  <2> QED BY <1>1, <2>3
<1> QED BY <1>4, <1>5, <1>8, <1>12

--------------------------------------------------------------------------------
(***************************************************************************)
(* What serialize writes of a graph: its episodes, and of its semantic     *)
(* nodes the latest that fit.                                              *)
(***************************************************************************)
Latest(ss) ==
  IF Len(ss) <= SemanticCap THEN ss ELSE SubSeq(ss, Len(ss) - SemanticCap + 1, Len(ss))

\* What serialize writes: all episodes, and the latest of the semantic nodes.
LEMMA Serialized ==
  ASSUME NEW ns \in Seq(AnyNode)
  PROVE  /\ Serialize(ns) \in Seq(AnyNode \cap Durable)
         /\ Episodes(Serialize(ns)) = Episodes(ns)
         /\ Semantics(Serialize(ns)) = Latest(Semantics(ns))
         /\ Len(Semantics(ns)) <= SemanticCap => Serialize(ns) = Select(ns, Durable)
<1> DEFINE k == Len(Semantics(ns)) - SemanticCap
           d == DropFirst(ns, Semantic, k)
<1>1. Semantics(ns) \in Seq(AnyNode)
  BY SelectIn DEF Semantics
<1>2. k \in Int
  BY <1>1, LenProperties, Numerals
<1>3. d \in Seq(AnyNode) /\ Select(d, Episode) = Select(ns, Episode)
  <2>1. Semantic \cap Episode = {}
    BY Kinds
  <2> HIDE DEF k
  <2> QED BY <1>2, <2>1, DropType, SelectOthers
<1>4. Serialize(ns) = Select(d, Durable)
  BY DEF Serialize
<1>5. Len(Semantics(ns)) <= SemanticCap => d = ns
  <2>1. Len(Semantics(ns)) <= SemanticCap => k <= 0
    BY <1>1, LenProperties, Numerals
  <2> HIDE DEF k
  <2> QED BY <1>2, <2>1, DropNothing
<1>6. Select(d, Semantic) = Latest(Semantics(ns))
  <2>1. CASE Len(Semantics(ns)) <= SemanticCap
    BY <1>5, <2>1 DEF Latest, Semantics
  <2>2. CASE ~(Len(Semantics(ns)) <= SemanticCap)
    <3>1. k \in Nat
      BY <1>1, <2>2, LenProperties, Numerals
    <3>2. Select(d, Semantic) = SubSeq(Semantics(ns), k + 1, Len(Semantics(ns)))
      <4> HIDE DEF k
      <4> QED BY <3>1, SelectDropped DEF Semantics
    <3> QED BY <2>2, <3>2 DEF Latest
  <2> QED BY <2>1, <2>2
<1> HIDE DEF d, k
<1>7. Select(Select(d, Durable), Episode) = Select(d, Episode)
  <2>1. Select(Select(d, Durable), Episode) = Select(d, Durable \cap Episode)
    BY <1>3, SelectSelect
  <2> QED BY <2>1, Kinds
<1>8. Select(Select(d, Durable), Semantic) = Select(d, Semantic)
  <2>1. Select(Select(d, Durable), Semantic) = Select(d, Durable \cap Semantic)
    BY <1>3, SelectSelect
  <2> QED BY <2>1, Kinds
<1>9. Select(d, Durable) \in Seq(AnyNode \cap Durable)
  BY <1>3, SelectType
<1> QED BY <1>3, <1>4, <1>5, <1>6, <1>7, <1>8, <1>9 DEF Episodes, Semantics

\* The cap holds, and what it costs are the oldest of what was known.
Forgets(old, new) ==
  \E pushed \in 0 .. Len(old) :
    /\ IsPrefix(SubSeq(old, pushed + 1, Len(old)), new)
    /\ pushed > 0 => Len(new) = SemanticCap

\* A sequence that starts with another has that one as a prefix.
LEMMA StartsIsPrefix ==
  ASSUME NEW S, NEW a \in Seq(S), NEW b \in Seq(S), Starts(a, b) PROVE IsPrefix(a, b)
<1>1. PICK m \in Nat, n \in Nat : m = Len(a) /\ n = Len(b)
  BY LenProperties
<1>2. m <= n /\ \A i \in 1 .. m : a[i] = b[i]
  BY <1>1 DEF Starts
<1>3. \A i \in 1 .. m : b[i] \in S
  BY <1>1, <1>2, ElementOfSeq
<1>4. /\ SubSeq(b, 1, m) \in Seq(S) /\ Len(SubSeq(b, 1, m)) = m
      /\ \A i \in 1 .. m : SubSeq(b, 1, m)[i] = b[i]
  <2>1. /\ SubSeq(b, 1, m) \in Seq(S) /\ Len(SubSeq(b, 1, m)) = (IF 1 <= m THEN m - 1 + 1 ELSE 0)
        /\ \A i \in 1 .. m - 1 + 1 : SubSeq(b, 1, m)[i] = b[1 + i - 1]
    BY <1>1, <1>3, SubSeqProperties
  <2>2. (IF 1 <= m THEN m - 1 + 1 ELSE 0) = m
    BY <1>1
  <2>3. \A i \in 1 .. m : i \in 1 .. m - 1 + 1 /\ 1 + i - 1 = i
    BY <1>1
  <2> QED BY <2>1, <2>2, <2>3
<1>5. a = SubSeq(b, 1, m)
  BY <1>1, <1>2, <1>4, SeqEqual
<1>6. SubSeq(a, 1, m) = a
  BY <1>1, SubSeqFull
<1> QED BY <1>1, <1>2, <1>5, <1>6 DEF IsPrefix

\* Keeping the latest forgets no more than what exceeds the capacity.
LEMMA LatestForgets ==
  ASSUME NEW S, NEW old \in Seq(S), NEW ss \in Seq(S), Starts(old, ss)
  PROVE  Len(Latest(ss)) <= SemanticCap /\ Forgets(old, Latest(ss))
<1>1. PICK m \in Nat, n \in Nat, c \in Nat : m = Len(old) /\ n = Len(ss) /\ c = SemanticCap
  BY LenProperties, Numerals
<1>2. m <= n /\ \A i \in 1 .. m : old[i] = ss[i]
  BY <1>1 DEF Starts
<1>3. CASE n <= c
  <2>1. Latest(ss) = ss
    BY <1>1, <1>3 DEF Latest
  <2>2. SubSeq(old, 0 + 1, m) = old
    BY <1>1, SubSeqFull
  <2>3. IsPrefix(SubSeq(old, 0 + 1, m), ss)
    BY <2>2, StartsIsPrefix
  <2>4. 0 \in 0 .. m
    BY <1>1
  <2> QED BY <1>1, <1>3, <2>1, <2>3, <2>4 DEF Forgets
<1>4. CASE ~(n <= c)
  <2>1. PICK k \in Nat : k = n - c
    <3>1. n - c \in Nat
      BY <1>1, <1>4
    <3> QED BY <3>1
  <2>2. k + 1 \in Int /\ n \in Int /\ k + c = n
    BY <1>1, <2>1
  <2> DEFINE new == SubSeq(ss, k + 1, n)
  <2>3. Latest(ss) = new
    <3>1. Latest(ss) = SubSeq(ss, n - c + 1, n)
      BY <1>1, <1>4 DEF Latest
    <3> QED BY <2>1, <3>1
  <2>4. new \in Seq(S) /\ Len(new) = c /\ \A i \in 1 .. c : new[i] = ss[k + i]
    <3>1. \A i \in k + 1 .. n : ss[i] \in S
      BY <1>1, ElementOfSeq
    <3>2. /\ new \in Seq(S) /\ Len(new) = (IF k + 1 <= n THEN n - (k + 1) + 1 ELSE 0)
          /\ \A i \in 1 .. n - (k + 1) + 1 : new[i] = ss[k + 1 + i - 1]
      BY <2>2, <3>1, SubSeqProperties
    <3>3. (IF k + 1 <= n THEN n - (k + 1) + 1 ELSE 0) = c
      BY <1>1, <2>1
    <3>4. \A i \in 1 .. c : i \in 1 .. n - (k + 1) + 1 /\ k + 1 + i - 1 = k + i
      BY <1>1, <2>1
    <3> HIDE DEF new
    <3> QED BY <3>2, <3>3, <3>4
  <2>5. PICK p \in 0 .. m : p = IF k < m THEN k ELSE m
    BY <1>1, <2>1
  <2> DEFINE left == SubSeq(old, p + 1, m)
  <2>6. p + 1 \in Int /\ m \in Int /\ p \in Nat
    BY <1>1, <2>5
  <2>7. left \in Seq(S) /\ Len(left) = m - p /\ \A i \in 1 .. m - p : left[i] = old[p + i]
    <3>1. \A i \in p + 1 .. m : old[i] \in S
      BY <1>1, <2>6, ElementOfSeq
    <3>2. /\ left \in Seq(S) /\ Len(left) = (IF p + 1 <= m THEN m - (p + 1) + 1 ELSE 0)
          /\ \A i \in 1 .. m - (p + 1) + 1 : left[i] = old[p + 1 + i - 1]
      BY <2>6, <3>1, SubSeqProperties
    <3>3. (IF p + 1 <= m THEN m - (p + 1) + 1 ELSE 0) = m - p
      <4>1. p <= m
        BY <1>1, <2>5
      <4> QED BY <1>1, <2>6, <4>1
    <3>4. \A i \in 1 .. m - p : i \in 1 .. m - (p + 1) + 1 /\ p + 1 + i - 1 = p + i
      BY <1>1, <2>5, <2>6
    <3> HIDE DEF left
    <3> QED BY <3>2, <3>3, <3>4
  <2> HIDE DEF new, left
  <2>8. Starts(left, new)
    <3>1. m - p <= c
      BY <1>1, <1>2, <2>2, <2>5
    <3>2. ASSUME NEW i \in 1 .. m - p PROVE left[i] = new[i]
      <4>1. p = k /\ p + i \in 1 .. m /\ i \in 1 .. c
        BY <1>1, <2>1, <2>5, <2>6, <3>1
      <4> QED BY <1>2, <2>4, <2>7, <4>1
    <3> QED BY <2>4, <2>7, <3>1, <3>2 DEF Starts
  <2>9. IsPrefix(left, new)
    BY <2>4, <2>7, <2>8, StartsIsPrefix
  <2>10. Len(new) = SemanticCap
    BY <1>1, <2>4
  <2>11. Forgets(old, new)
    BY <1>1, <2>5, <2>9, <2>10 DEF Forgets, left
  <2> QED BY <1>1, <2>3, <2>4, <2>11
<1> QED BY <1>3, <1>4

--------------------------------------------------------------------------------
(***************************************************************************)
(* The first state is in the invariant.                                    *)
(***************************************************************************)
LEMMA InitIInv == Init => IInv
<1> SUFFICES ASSUME Init PROVE IInv
  OBVIOUS
<1> USE DEF Init
<1>1. Shape
  <2>1. 0 \in 0 .. Len(<<>>) /\ 0 \in 0 .. MaxLived
    BY Numerals, EmptySeq
  <2> QED BY <2>1 DEF Shape
<1>2. Self
  <2>1. Episodes(<<>>) = <<>> /\ Semantics(<<>>) = <<>> /\ Len(<<>>) = 0
    BY SelectEmpty, EmptySeq DEF Episodes, Semantics
  <2>2. Kept(0) = 0 /\ 1 .. 0 = {}
    BY Numerals DEF Kept
  <2>3. Ring(<<>>, 0)
    BY <2>1, <2>2 DEF Ring
  <2>4. <<>> \in Seq(AnyNode \cap Durable)
    BY EmptySeq
  <2> QED BY <2>1, <2>3, <2>4, Numerals DEF Self
<1> QED BY <1>1, <1>2 DEF IInv, Body, Marked, Ages, Leaving

(***************************************************************************)
(* The type invariant follows from the inductive one.                      *)
(***************************************************************************)
LEMMA Types == IInv => TypeOK
<1> SUFFICES ASSUME IInv PROVE TypeOK
  OBVIOUS
<1>1. nodes \in Seq(AnyNode)
  <2>1. <<>> \in Seq(AnyNode)
    BY EmptySeq
  <2> QED BY <2>1 DEF IInv, Ages, Body, Knows
<1>2. cell \in Seq(AnyNode \cap Durable)
  BY DEF IInv, Self
<1>3. ASSUME NEW i \in DOMAIN nodes
      PROVE  /\ nodes[i].kind \in DurableKind \cup {"skill", "audit"}
             /\ nodes[i].about \in IF nodes[i].kind = "skill" THEN Skills ELSE 0 .. MaxLived
             /\ nodes[i].text \in Text
  <2>1. nodes[i] \in AnyNode
    BY <1>1, ElementOfSeq, LenProperties
  <2> QED BY <2>1 DEF AnyNode, Nodes, Kind
<1>4. ASSUME NEW i \in DOMAIN cell PROVE cell[i] \in Durable
  BY <1>2, ElementOfSeq, LenProperties
<1> QED BY <1>3, <1>4 DEF TypeOK, IInv, Shape

(***************************************************************************)
(* What the key remembers is made of nodes.                                *)
(***************************************************************************)
LEMMA KeyTypes ==
  ASSUME IInv
  PROVE  /\ cell \in Seq(AnyNode) /\ Semantics(cell) \in Seq(Semantic \cap AnyNode)
         /\ Episodes(cell) \in Seq(AnyNode) /\ Len(Episodes(cell)) <= EpisodicCap
         /\ lived \in Nat /\ cellLived \in Nat /\ sinceLived \in Nat /\ mark \in Nat
<1>1. cell \in Seq(AnyNode \cap Durable)
  BY DEF IInv, Self
<1>2. cell \in Seq(AnyNode)
  BY <1>1, SeqMonotonic
<1>3. Semantics(cell) \in Seq(AnyNode \cap Semantic) /\ Episodes(cell) \in Seq(AnyNode)
  BY <1>2, SelectType, SelectIn DEF Semantics, Episodes
<1>4. AnyNode \cap Semantic = Semantic \cap AnyNode
  OBVIOUS
<1>5. lived \in Nat /\ cellLived \in Nat /\ sinceLived \in Nat /\ mark \in Nat
  BY Numerals DEF IInv, Shape
<1>6. Len(Episodes(cell)) <= EpisodicCap
  <2>1. Len(Episodes(cell)) = Kept(cellLived)
    BY DEF IInv, Self, Ring
  <2> QED BY <1>5, <2>1, Numerals DEF Kept
<1> QED BY <1>2, <1>3, <1>4, <1>5, <1>6

--------------------------------------------------------------------------------
\* A step that only adds to what is known, and may live one more episode.
Goes ==
  /\ Knows(nodes', lived', Semantics(cell))
  /\ lived' \in lived .. MaxLived
  /\ \A m \in Nat, since \in 0 .. lived : Fresh(nodes, m, since) => Fresh(nodes', m, since)

\* Where such steps are taken.
Busy == phase \in {"waking", "awake", "dream", "save"}

(***************************************************************************)
(* An awake handler that leaves nodes which are no episodes.               *)
(***************************************************************************)
LEMMA QuietGoes ==
  ASSUME IInv, Busy, Grown(nodes, nodes'), lived' = lived PROVE Goes
<1>1. Knows(nodes, lived, Semantics(cell))
  BY DEF IInv, Body, Busy
<1>2. Semantics(cell) \in Seq(Semantic \cap AnyNode) /\ lived \in Nat
  BY KeyTypes
<1>3. /\ Knows(nodes', lived, Semantics(cell))
      /\ \A m \in Nat : \A since : Fresh(nodes, m, since) => Fresh(nodes', m, since)
  BY <1>1, <1>2, GrownKeeps
<1>4. lived \in lived .. MaxLived
  BY <1>2, Numerals DEF IInv, Shape
<1> QED BY <1>3, <1>4 DEF Goes

(***************************************************************************)
(* And one that then lives an episode.                                     *)
(***************************************************************************)
LEMMA LivesGoes ==
  ASSUME IInv, Busy, NEW ns, Grown(nodes, ns), NEW text \in Text, Lives(ns, text) PROVE Goes
<1>1. Knows(nodes, lived, Semantics(cell))
  BY DEF IInv, Body, Busy
<1>2. Semantics(cell) \in Seq(Semantic \cap AnyNode) /\ lived \in Nat
  BY KeyTypes
<1>3. /\ Knows(ns, lived, Semantics(cell))
      /\ \A m \in Nat : \A since : Fresh(nodes, m, since) => Fresh(ns, m, since)
  BY <1>1, <1>2, GrownKeeps
<1>4. lived < MaxLived /\ nodes' = Consolidate(ns, lived + 1, text) /\ lived' = lived + 1
  BY DEF Lives
<1>5. /\ Knows(nodes', lived', Semantics(cell))
      /\ \A m \in Nat, since \in 0 .. lived : Fresh(ns, m, since) => Fresh(nodes', m, since)
  BY <1>2, <1>3, <1>4, Living
<1>6. lived' \in lived .. MaxLived
  BY <1>2, <1>4, Numerals
<1> QED BY <1>3, <1>5, <1>6 DEF Goes

(***************************************************************************)
(* Such a step keeps the invariant when it leaves the key and the session  *)
(* alone.                                                                  *)
(***************************************************************************)
LEMMA GoesIInv ==
  ASSUME IInv, Busy, Goes, UNCHANGED <<durable, session>>, linkAlive' \in BOOLEAN,
         phase' \in {"waking", "awake", "hung", "dream", "save"}, phase = "waking" <=> phase' = "waking"
  PROVE  IInv'
<1> USE DEF durable, session
<1>1. lived \in Nat /\ sinceLived \in Nat /\ mark \in Nat /\ cellLived \in Nat
  BY KeyTypes
<1>2. lived' \in lived .. MaxLived /\ lived' \in 0 .. MaxLived /\ lived <= lived'
  BY <1>1, Numerals DEF Goes
<1>3. Len(nodes') \in Nat
  BY LenProperties DEF Goes, Knows
<1>4. sinceLived <= lived /\ cellLived <= lived
  BY DEF IInv, Ages
<1>5. phase # "waking" => Fresh(nodes', mark, sinceLived)
  <2>1. phase # "waking" => Fresh(nodes, mark, sinceLived)
    BY DEF IInv, Marked, Busy, Leaving
  <2>2. sinceLived \in 0 .. lived
    BY <1>1, <1>4
  <2> QED BY <1>1, <2>1, <2>2 DEF Goes
<1>6. mark \in 0 .. Len(nodes')
  <2>1. CASE phase = "waking"
    BY <1>3, <2>1 DEF IInv, Ages
  <2>2. CASE phase # "waking"
    BY <1>1, <1>3, <1>5, <2>2 DEF Fresh
  <2> QED BY <2>1, <2>2
<1>7. Shape'
  BY <1>2, <1>6 DEF IInv, Shape, Leaving
<1>8. Self'
  BY DEF IInv, Self
<1>9. Body'
  BY DEF Goes, Body
<1>10. Marked'
  BY <1>5 DEF Marked, Leaving
<1>11. Ages'
  <2>1. sinceLived <= lived' /\ cellLived <= lived'
    BY <1>1, <1>2, <1>4
  <2> QED BY <2>1 DEF IInv, Ages
<1> QED BY <1>7, <1>8, <1>9, <1>10, <1>11 DEF IInv

--------------------------------------------------------------------------------
(***************************************************************************)
(* Each step keeps the invariant: the boot reads back what was stored.     *)
(***************************************************************************)
LEMMA BootLoads ==
  ASSUME IInv, Boot
  PROVE  \E requests \in {3, 4} : nodes' = Audited(cell, requests)
<1>1. Load(<<>>, cell) = cell
  BY KeyTypes, Loading
<1> QED BY <1>1 DEF Boot

\* A boot, from whatever the key holds, keeps the invariant.
LEMMA BootIInv == ASSUME IInv, Boot PROVE IInv'
<1> USE DEF durable, session
<1>1. PICK requests \in {3, 4} : nodes' = Audited(cell, requests)
  BY BootLoads
<1>2. /\ phase = "off" /\ phase' = "waking" /\ linkAlive' \in BOOLEAN
      /\ UNCHANGED <<lived, cell, cellLived, mark, sinceLived>>
  BY DEF Boot
<1>3. cell \in Seq(AnyNode) /\ Semantics(cell) \in Seq(Semantic \cap AnyNode) /\ requests \in Nat
  BY KeyTypes
<1>4. Knows(cell, cellLived, Semantics(cell))
  BY <1>3, StartsItself DEF Knows, IInv, Self
<1>5. Grown(cell, nodes')
  BY <1>1, <1>3, GrownByAudits
<1>6. Knows(nodes', cellLived, Semantics(cell))
  BY <1>3, <1>4, <1>5, GrownKeeps
<1>7. lived = cellLived /\ mark = 0 /\ sinceLived = 0
  BY <1>2 DEF IInv, Ages
<1>8. Shape'
  <2>1. 0 \in 0 .. Len(nodes')
    BY <1>6, LenProperties DEF Knows
  <2> QED BY <1>2, <1>7, <2>1 DEF IInv, Shape
<1>9. Self'
  BY <1>2 DEF IInv, Self
<1>10. Body'
  BY <1>2, <1>6, <1>7 DEF Body
<1>11. Marked'
  BY <1>2 DEF Marked, Leaving
<1>12. Ages'
  BY <1>2 DEF IInv, Ages
<1> QED BY <1>8, <1>9, <1>10, <1>11, <1>12 DEF IInv

(***************************************************************************)
(* Waking up lives an episode, and marks the session after it.             *)
(***************************************************************************)
LEMMA WakeIInv == ASSUME IInv, Wake PROVE IInv'
<1> USE DEF durable, session
<1>1. nodes \in Seq(AnyNode)
  BY DEF IInv, Body, Wake, Knows
<1>2. PICK greeted \in {0, 2} :
        Lives(Audited(nodes, greeted + (IF Episodes(cell) = <<>> THEN 0 ELSE 2)), Short)
  BY DEF Wake
<1>3. Goes
  <2>1. greeted + (IF Episodes(cell) = <<>> THEN 0 ELSE 2) \in Nat
    OBVIOUS
  <2>2. Grown(nodes, Audited(nodes, greeted + (IF Episodes(cell) = <<>> THEN 0 ELSE 2)))
    BY <1>1, <2>1, GrownByAudits
  <2>3. Busy
    BY DEF Wake, Busy
  <2> QED BY <1>2, <2>2, <2>3, LivesGoes, Numerals
<1>4. /\ phase = "waking" /\ phase' = "awake" /\ mark' = Len(nodes') /\ sinceLived' = lived'
      /\ UNCHANGED <<linkAlive, cell, cellLived>>
  BY DEF Wake
<1>5. PICK l \in Nat : l = Len(nodes')
  BY <1>3, LenProperties DEF Goes, Knows
<1>6. lived' \in 0 .. MaxLived /\ lived' <= lived' /\ cellLived <= lived'
  <2>1. lived \in Nat /\ cellLived \in Nat /\ cellLived <= lived
    BY KeyTypes DEF IInv, Ages
  <2>2. lived' \in lived .. MaxLived
    BY <1>3 DEF Goes
  <2> QED BY <2>1, <2>2, Numerals
<1>7. Shape'
  BY <1>4, <1>5, <1>6 DEF IInv, Shape, Leaving
<1>8. Self'
  BY <1>4 DEF IInv, Self
<1>9. Body'
  BY <1>3, <1>4 DEF Goes, Body
<1>10. Marked'
  <2>1. Fresh(nodes', l, lived')
    BY <1>5 DEF Fresh
  <2> QED BY <1>4, <1>5, <2>1 DEF Marked
<1>11. Ages'
  BY <1>4, <1>6 DEF Ages
<1> QED BY <1>7, <1>8, <1>9, <1>10, <1>11 DEF IInv

(***************************************************************************)
(* The handlers of the running core.                                       *)
(***************************************************************************)
LEMMA HandleGoes ==
  ASSUME IInv, Handle
  PROVE  /\ Goes /\ Busy /\ UNCHANGED <<durable, session>> /\ linkAlive' \in BOOLEAN
         /\ phase' \in {phase, "hung"} /\ (phase = "waking" => phase' = "waking")
<1> DEFINE Here == /\ Busy /\ UNCHANGED <<durable, session>> /\ linkAlive' \in BOOLEAN
                        /\ phase' \in {phase, "hung"} /\ (phase = "waking" => phase' = "waking")
<1>1. Busy => nodes \in Seq(AnyNode)
  BY DEF IInv, Body, Knows, Busy
<1>2. linkAlive \in BOOLEAN /\ lived \in 0 .. MaxLived
  BY DEF IInv, Shape
<1>3. \A n \in {1, 2, 3, 4, 6} : n \in Nat
  OBVIOUS
<1>4. Awake => Busy
  BY DEF Awake, Busy
<1>5. ASSUME GrowLimb PROVE Here /\ Goes
  <2>1. Here /\ Lives(nodes, Short)
    BY <1>2, <1>5 DEF GrowLimb, Busy
  <2>2. Grown(nodes, nodes)
    BY <1>1, <2>1, GrownNot
  <2>3. Goes
    BY <2>1, <2>2, LivesGoes, Numerals
  <2> QED BY <2>1, <2>3
<1>6. ASSUME UtteranceDenied PROVE Here /\ Goes
  <2>1. Here /\ nodes' = Audited(nodes, 1) /\ lived' = lived
    BY <1>2, <1>4, <1>6 DEF UtteranceDenied, Awake
  <2>2. Grown(nodes, Audited(nodes, 1))
    BY <1>1, <2>1, GrownByAudits
  <2> QED BY <2>1, <2>2, QuietGoes
<1>7. ASSUME ActionSilent PROVE Here /\ Goes
  <2>1. PICK said \in {0, 2} : nodes' = Audited(nodes, 4 + said)
    BY <1>7 DEF ActionSilent
  <2>2. Here /\ lived' = lived
    BY <1>4, <1>7 DEF ActionSilent, Awake
  <2>3. Grown(nodes, nodes')
    <3>1. 4 + said \in Nat
      BY <2>1
    <3> QED BY <1>1, <2>1, <2>2, <3>1, GrownByAudits
  <2> QED BY <2>2, <2>3, QuietGoes
<1>8. ASSUME RetryLink PROVE Here /\ Goes
  <2>1. Here /\ nodes' = nodes /\ lived' = lived
    BY <1>4, <1>8 DEF RetryLink, Awake
  <2>2. Grown(nodes, nodes')
    BY <1>1, <2>1, GrownNot
  <2> QED BY <2>1, <2>2, QuietGoes
<1>9. ASSUME SelfTest PROVE Here /\ Goes
  <2>1. Here /\ nodes' = Audited(nodes, SelfTestCases) /\ lived' = lived
    BY <1>2, <1>4, <1>9 DEF SelfTest, Awake
  <2>2. Grown(nodes, Audited(nodes, SelfTestCases))
    BY <1>1, <2>1, GrownByAudits, MemoryAssumption
  <2> QED BY <2>1, <2>2, QuietGoes
<1>10. ASSUME NEW text \in Texts, Sight(text) PROVE Here /\ Goes
  <2>1. Here /\ Lives(nodes, text)
    BY <1>2, <1>4, <1>10 DEF Sight, Awake
  <2>2. Grown(nodes, nodes)
    BY <1>1, <2>1, GrownNot
  <2>3. text \in Text
    BY Numerals
  <2> QED BY <2>1, <2>2, <2>3, LivesGoes
<1>11. ASSUME NEW text \in Texts, NEW answered \in BOOLEAN, Utterance(text, answered) PROVE Here /\ Goes
  <2>1. PICK said \in {0, 2} : Lives(Audited(nodes, 1 + said), text)
    BY <1>11 DEF Utterance
  <2>2. Here
    BY <1>4, <1>11 DEF Utterance, Awake
  <2>3. Grown(nodes, Audited(nodes, 1 + said))
    BY <1>1, <2>2, GrownByAudits
  <2>4. text \in Text
    BY Numerals
  <2> QED BY <2>1, <2>2, <2>3, <2>4, LivesGoes
<1>12. ASSUME NEW text \in Texts, ActionRefused(text) PROVE Here /\ Goes
  <2>1. Here /\ Lives(Audited(nodes, 4), text)
    BY <1>4, <1>12 DEF ActionRefused, Awake
  <2>2. Grown(nodes, Audited(nodes, 4))
    BY <1>1, <2>1, GrownByAudits
  <2>3. text \in Text
    BY Numerals
  <2> QED BY <2>1, <2>2, <2>3, LivesGoes
<1>13. ASSUME NEW digest \in Digests, NEW verb \in Verbs, ActionDone(digest, verb) PROVE Here /\ Goes
  <2> DEFINE asked(said) == Audited(nodes, 2 + said)
             ran(said, pathway) == IF pathway THEN Learn(asked(said), WriteThenRun) ELSE asked(said)
             told(said, pathway) == Add(ran(said, pathway), Node("fact", lived, digest))
             known(said, pathway) == Learn(told(said, pathway), verb)
  <2>1. PICK said \in {0, 2}, reported \in {0, 2}, pathway \in BOOLEAN :
          Lives(Audited(known(said, pathway), reported), digest)
    BY <1>13 DEF ActionDone
  <2>2. Here
    BY <1>4, <1>13 DEF ActionDone, Awake
  <2>3. WriteThenRun \in Skills /\ verb \in Skills /\ digest \in Text
    BY Numerals DEF Skills
  <2>4. Grown(nodes, asked(said)) /\ asked(said) \in Seq(AnyNode)
    <3>1. 2 + said \in Nat
      BY <2>1
    <3> QED BY <1>1, <2>2, <3>1, GrownByAudits
  <2> HIDE DEF asked
  <2>5. Grown(asked(said), ran(said, pathway)) /\ ran(said, pathway) \in Seq(AnyNode)
    BY <2>3, <2>4, GrownBySkill, GrownNot
  <2> HIDE DEF ran
  <2>6. Grown(ran(said, pathway), told(said, pathway)) /\ told(said, pathway) \in Seq(AnyNode)
    <3>1. Node("fact", lived, digest) \in Note
      BY <1>2, <2>3, NodeTypes DEF SemanticKind
    <3> QED BY <2>5, <3>1, GrownByOne, GrownType
  <2> HIDE DEF told
  <2>7. Grown(told(said, pathway), known(said, pathway)) /\ known(said, pathway) \in Seq(AnyNode)
    BY <2>3, <2>6, GrownBySkill
  <2> HIDE DEF known
  <2>8. Grown(known(said, pathway), Audited(known(said, pathway), reported))
    BY <2>7, GrownByAudits
  <2>9. nodes \in Seq(AnyNode)
    BY <1>1, <2>2
  <2>10. Grown(nodes, ran(said, pathway))
    BY <2>4, <2>5, <2>9, GrownTwice
  <2>11. Grown(nodes, told(said, pathway))
    BY <2>6, <2>9, <2>10, GrownTwice
  <2>12. Grown(nodes, known(said, pathway))
    BY <2>7, <2>9, <2>11, GrownTwice
  <2>13. Grown(nodes, Audited(known(said, pathway), reported))
    BY <2>8, <2>9, <2>12, GrownTwice
  <2> QED BY <2>1, <2>2, <2>3, <2>13, LivesGoes
<1>14. ASSUME NEW digest \in Digests, ActionFailed(digest) PROVE Here /\ Goes
  <2>1. PICK said \in {0, 2} : Lives(Audited(nodes, 4 + said), digest)
    BY <1>14 DEF ActionFailed
  <2>2. Here
    BY <1>4, <1>14 DEF ActionFailed, Awake
  <2>3. Grown(nodes, Audited(nodes, 4 + said))
    BY <1>1, <2>2, GrownByAudits
  <2>4. digest \in Text
    BY Numerals
  <2> QED BY <2>1, <2>2, <2>3, <2>4, LivesGoes
<1>15. ASSUME NEW digest \in Digests, ActionPanics(digest) PROVE Here /\ Goes
  <2>1. Here /\ nodes' = nodes /\ lived' = lived
    BY <1>2, <1>4, <1>15 DEF ActionPanics, Awake
  <2>2. Grown(nodes, nodes')
    BY <1>1, <2>1, GrownNot
  <2> QED BY <2>1, <2>2, QuietGoes
<1> HIDE DEF Here
<1>16. Here /\ Goes
  BY <1>5, <1>6, <1>7, <1>8, <1>9, <1>10, <1>11, <1>12, <1>13, <1>14, <1>15 DEF Handle
<1> QED BY <1>16 DEF Here

--------------------------------------------------------------------------------
(***************************************************************************)
(* The rest of a life: leaving, dreaming, and power going.                 *)
(***************************************************************************)
LEMMA DepartGoes ==
  ASSUME IInv, Depart
  PROVE  Goes /\ Busy /\ UNCHANGED <<durable, session>> /\ linkAlive' \in BOOLEAN
         /\ phase = "awake" /\ phase' = "dream"
<1>1. PICK requests \in {0, 1} : nodes' = Audited(nodes, requests)
  BY DEF Depart
<1>2. /\ Busy /\ UNCHANGED <<durable, session>> /\ linkAlive' \in BOOLEAN
      /\ phase = "awake" /\ phase' = "dream" /\ lived' = lived
  BY DEF Depart, Awake, Busy, IInv, Shape
<1>3. nodes \in Seq(AnyNode)
  BY <1>2 DEF IInv, Body, Knows, Busy
<1>4. Grown(nodes, nodes')
  <2>1. requests \in Nat
    BY <1>1
  <2> QED BY <1>1, <1>3, <2>1, GrownByAudits
<1> QED BY <1>2, <1>4, QuietGoes

\* A dream grows the graph and leaves what is on the key alone.
LEMMA DreamGoes ==
  ASSUME IInv, Dream \/ DreamHangs
  PROVE  Goes /\ Busy /\ UNCHANGED <<durable, session>> /\ linkAlive' \in BOOLEAN
         /\ phase = "dream" /\ phase' \in {"save", "hung"}
<1>1. /\ Busy /\ UNCHANGED <<durable, session>> /\ linkAlive' \in BOOLEAN
      /\ phase = "dream" /\ phase' \in {"save", "hung"} /\ lived' = lived
  BY DEF Dream, DreamHangs, Busy, IInv, Shape
<1>2. nodes \in Seq(AnyNode) /\ lived \in 0 .. MaxLived
  BY <1>1 DEF IInv, Body, Knows, Busy, Shape
<1>3. Grown(nodes, nodes')
  <2>1. CASE nodes' = nodes
    BY <1>2, <2>1, GrownNot
  <2>2. CASE nodes' # nodes
    <3>1. PICK notes \in 0 .. DreamNotes :
            nodes' = Audited(nodes, 1) \o [i \in 1 .. notes |-> Node("dream", lived, Short)]
      BY <2>2 DEF Dream, DreamHangs
    <3>2. Grown(nodes, Audited(nodes, 1)) /\ Audited(nodes, 1) \in Seq(AnyNode)
      BY <1>2, GrownByAudits
    <3>3. notes \in Nat
      BY <3>1, MemoryAssumption
    <3>4. Grown(Audited(nodes, 1), nodes')
      BY <1>2, <3>1, <3>2, <3>3, GrownByMany
    <3> QED BY <1>2, <3>2, <3>4, GrownTwice
  <2> QED BY <2>1, <2>2
<1> QED BY <1>1, <1>3, QuietGoes

(***************************************************************************)
(* What is stored is a self of the core's age, and forgets only what the   *)
(* cap of the notes pushes out.                                            *)
(***************************************************************************)
LEMMA Stored ==
  ASSUME IInv, phase = "save", NEW ns, Grown(nodes, ns)
  PROVE  /\ Serialize(ns) \in Seq(AnyNode \cap Durable)
         /\ Ring(Episodes(Serialize(ns)), lived)
         /\ Len(Semantics(Serialize(ns))) <= SemanticCap
         /\ Forgets(Semantics(cell), Semantics(Serialize(ns)))
<1>1. Knows(nodes, lived, Semantics(cell)) /\ Semantics(cell) \in Seq(Semantic \cap AnyNode)
  BY KeyTypes DEF IInv, Body
<1>2. Knows(ns, lived, Semantics(cell))
  BY <1>1, GrownKeeps
<1>3. ns \in Seq(AnyNode) /\ Ring(Episodes(ns), lived) /\ Starts(Semantics(cell), Semantics(ns))
  BY <1>2 DEF Knows
<1>4. Semantics(ns) \in Seq(AnyNode) /\ Semantics(cell) \in Seq(AnyNode)
  BY <1>1, <1>3, SelectIn, SeqMonotonic DEF Semantics
<1>5. /\ Serialize(ns) \in Seq(AnyNode \cap Durable)
      /\ Episodes(Serialize(ns)) = Episodes(ns)
      /\ Semantics(Serialize(ns)) = Latest(Semantics(ns))
  BY <1>3, Serialized
<1>6. /\ Len(Latest(Semantics(ns))) <= SemanticCap
      /\ Forgets(Semantics(cell), Latest(Semantics(ns)))
  BY <1>3, <1>4, LatestForgets
<1> QED BY <1>3, <1>5, <1>6

\* Persisting prunes the graph and writes it, and keeps the invariant.
LEMMA PersistIInv == ASSUME IInv, Persist PROVE IInv'
<1> USE DEF durable, session
<1>1. /\ phase = "save" /\ phase' = "leave" /\ nodes' = Audited(nodes, 1)
      /\ \/ cell' = Serialize(nodes') /\ cellLived' = lived
         \/ cell' = cell /\ cellLived' = cellLived
      /\ UNCHANGED <<linkAlive, lived, mark, sinceLived>>
  BY DEF Persist
<1>2. Knows(nodes, lived, Semantics(cell)) /\ Fresh(nodes, mark, sinceLived)
  BY <1>1 DEF IInv, Body, Marked, Leaving
<1>3. Grown(nodes, nodes')
  BY <1>1, <1>2, GrownByAudits DEF Knows
<1>4. /\ Semantics(cell) \in Seq(Semantic \cap AnyNode)
      /\ lived \in Nat /\ cellLived \in Nat /\ sinceLived \in Nat /\ mark \in Nat
  BY KeyTypes
<1>5. Knows(nodes', lived, Semantics(cell)) /\ Fresh(nodes', mark, sinceLived)
  BY <1>2, <1>3, <1>4, GrownKeeps
<1>6. Knows(nodes', lived, <<>>)
  <2>1. nodes' \in Seq(AnyNode)
    BY <1>5 DEF Knows
  <2>2. Semantics(nodes') \in Seq(AnyNode)
    BY <2>1, SelectIn DEF Semantics
  <2> QED BY <1>5, <2>2, StartsItself DEF Knows
<1>7. Shape'
  <2>1. Len(nodes') \in Nat
    BY <1>5, LenProperties DEF Knows
  <2>2. mark \in 0 .. Len(nodes')
    BY <1>4, <1>5, <2>1 DEF Fresh
  <2> QED BY <1>1, <2>2 DEF IInv, Shape, Leaving
<1>8. Self'
  <2>1. CASE cell' = Serialize(nodes') /\ cellLived' = lived
    BY <1>1, <1>3, <2>1, Stored DEF Self
  <2>2. CASE cell' = cell /\ cellLived' = cellLived
    BY <2>2 DEF IInv, Self
  <2> QED BY <1>1, <2>1, <2>2
<1>9. Body'
  BY <1>1, <1>6 DEF Body
<1>10. Marked'
  BY <1>1, <1>5 DEF Marked
<1>11. Ages'
  BY <1>1, <1>4 DEF IInv, Ages
<1> QED BY <1>7, <1>8, <1>9, <1>10, <1>11 DEF IInv

\* The end of a life leaves the key to the next one, and keeps the invariant.
LEMMA PowerOffIInv ==
  ASSUME IInv, PowerOff, cellLived' \in Nat, cellLived' \in 0 .. MaxLived, Self' PROVE IInv'
<1> USE DEF PowerOff
<1>1. Len(<<>>) = 0 /\ 0 \in 0 .. MaxLived
  BY EmptySeq, Numerals
<1>2. Shape'
  <2>1. mark' \in 0 .. Len(nodes')
    <3>1. mark' = 0 /\ Len(nodes') = 0
      BY <1>1
    <3> QED BY <3>1
  <2>2. {lived', cellLived', sinceLived'} \subseteq 0 .. MaxLived
    BY <1>1
  <2> QED BY <2>1, <2>2 DEF Shape
<1>3. Body' /\ Marked'
  BY DEF Body, Marked, Leaving
<1>4. Ages'
  BY DEF Ages
<1> QED BY <1>2, <1>3, <1>4 DEF IInv

(***************************************************************************)
(* Every step keeps the invariant.                                         *)
(***************************************************************************)
LEMMA NextIInv == IInv /\ [Next]_vars => IInv'
<1> SUFFICES ASSUME IInv, [Next]_vars PROVE IInv'
  OBVIOUS
<1>1. CASE Boot
  BY <1>1, BootIInv
<1>2. CASE Wake
  BY <1>2, WakeIInv
<1>3. CASE Handle
  <2>1. /\ Goes /\ Busy /\ UNCHANGED <<durable, session>> /\ linkAlive' \in BOOLEAN
        /\ phase' \in {phase, "hung"} /\ (phase = "waking" => phase' = "waking")
    BY <1>3, HandleGoes
  <2>2. phase' \in {"waking", "awake", "hung", "dream", "save"} /\ (phase = "waking" <=> phase' = "waking")
    BY <2>1 DEF Busy
  <2> QED BY <2>1, <2>2, GoesIInv
<1>4. CASE Depart
  <2>1. Goes /\ Busy /\ UNCHANGED <<durable, session>> /\ linkAlive' \in BOOLEAN
        /\ phase = "awake" /\ phase' = "dream"
    BY <1>4, DepartGoes
  <2> QED BY <2>1, GoesIInv
<1>5. CASE Dream \/ DreamHangs
  <2>1. Goes /\ Busy /\ UNCHANGED <<durable, session>> /\ linkAlive' \in BOOLEAN
        /\ phase = "dream" /\ phase' \in {"save", "hung"}
    BY <1>5, DreamGoes
  <2> QED BY <2>1, GoesIInv
<1>6. CASE Persist
  BY <1>6, PersistIInv
<1>7. CASE Leave \/ PowerLoss
  <2>1. PowerOff /\ cell' = cell /\ cellLived' = cellLived
    BY <1>7 DEF Leave, PowerLoss, durable
  <2>2. Self'
    BY <2>1 DEF IInv, Self
  <2>3. cellLived \in Nat /\ cellLived \in 0 .. MaxLived
    BY KeyTypes DEF IInv, Shape
  <2> QED BY <2>1, <2>2, <2>3, PowerOffIInv
<1>8. CASE PowerLossInPersist
  <2>1. phase = "save" /\ cell' = Serialize(nodes) /\ cellLived' = lived /\ PowerOff
    BY <1>8 DEF PowerLossInPersist
  <2>2. Grown(nodes, nodes)
    BY <2>1, GrownNot DEF IInv, Body, Knows
  <2>3. Self'
    BY <2>1, <2>2, Stored DEF Self
  <2>4. lived \in Nat /\ lived \in 0 .. MaxLived
    BY KeyTypes DEF IInv, Shape
  <2> QED BY <2>1, <2>3, <2>4, PowerOffIInv
<1>9. CASE UNCHANGED vars
  BY <1>9 DEF vars, IInv, Shape, Self, Body, Marked, Ages
<1> QED BY <1>1, <1>2, <1>3, <1>4, <1>5, <1>6, <1>7, <1>8, <1>9 DEF Next

--------------------------------------------------------------------------------
(***************************************************************************)
(* The invariant holds in every state.                                     *)
(***************************************************************************)
LEMMA Invariant == Spec => []IInv
  BY InitIInv, NextIInv, PTL DEF Spec

(***************************************************************************)
(* TypeCorrect: the graph of the running core and the self on the key are  *)
(* always made of nodes the code can make, the mark of the session is      *)
(* never beyond the graph (episodes_since slices at it, and a Rust slice   *)
(* beyond the end panics), and no age is beyond the bound.                 *)
(***************************************************************************)
THEOREM TypeCorrect == Spec => []TypeOK
  BY Invariant, Types, PTL

(***************************************************************************)
(* RecentPast: the ring in the core and the one on the key are always the  *)
(* latest episodes of that self, in order and without a gap.               *)
(***************************************************************************)
THEOREM RecentPast == Spec => []SelfIsRecentPast
<1>1. ASSUME IInv PROVE SelfIsRecentPast
  <2>1. phase # "off" => About(Episodes(nodes)) = LatestOf(lived)
    <3>1. SUFFICES ASSUME phase # "off" PROVE About(Episodes(nodes)) = LatestOf(lived)
      OBVIOUS
    <3>2. nodes \in Seq(AnyNode) /\ Ring(Episodes(nodes), lived)
      BY <1>1, <3>1 DEF IInv, Body, Knows
    <3>3. Episodes(nodes) \in Seq(AnyNode) /\ lived \in Nat
      BY <1>1, <3>2, KeyTypes, SelectIn DEF Episodes
    <3> QED BY <3>2, <3>3, RingIsLatest
  <2>2. About(Episodes(cell)) = LatestOf(cellLived)
    <3>1. Episodes(cell) \in Seq(AnyNode) /\ cellLived \in Nat /\ Ring(Episodes(cell), cellLived)
      BY <1>1, KeyTypes DEF IInv, Self
    <3> QED BY <3>1, RingIsLatest
  <2> QED BY <2>1, <2>2 DEF SelfIsRecentPast
<1> QED BY <1>1, Invariant, PTL

(***************************************************************************)
(* DreamsAreRecent: a dream is made of episodes lived since the mark, for  *)
(* every size of the ring and any number of pruned episodes.               *)
(***************************************************************************)
THEOREM DreamsAreRecent == Spec => []DreamsOfThisLife
<1>1. ASSUME IInv PROVE DreamsOfThisLife
  <2>1. SUFFICES ASSUME phase \in {"awake"} \cup Leaving, NEW i \in DOMAIN Session
                 PROVE  Session[i].about > sinceLived
    BY DEF DreamsOfThisLife
  <2>2. nodes \in Seq(AnyNode) /\ Fresh(nodes, mark, sinceLived)
    BY <1>1, <2>1 DEF IInv, Body, Knows, Marked, Leaving
  <2>3. PICK m \in Nat, n \in Nat : m = mark /\ n = Len(nodes)
    BY <1>1, <2>2, KeyTypes, LenProperties
  <2> DEFINE later == SubSeq(nodes, m + 1, n)
  <2>4. \A j \in m + 1 .. n : nodes[j] \in AnyNode
    BY <2>2, <2>3, ElementOfSeq
  <2>5. later \in Seq(AnyNode) /\ Len(later) = (IF m + 1 <= n THEN n - (m + 1) + 1 ELSE 0)
        /\ \A j \in 1 .. n - (m + 1) + 1 : later[j] = nodes[m + 1 + j - 1]
    <3>1. m + 1 \in Int /\ n \in Int
      BY <2>3
    <3> QED BY <2>4, <3>1, SubSeqProperties
  <2>6. Session = Select(later, Episode)
    BY <2>3 DEF Session, EpisodesSince, Episodes
  <2> HIDE DEF later
  <2>7. Session[i] \in ToSet(Session)
    BY <2>1 DEF ToSet
  <2>8. Session[i] \in ToSet(later) /\ Session[i] \in Episode
    <3>1. ToSet(Session) = ToSet(later) \cap Episode
      BY <2>5, <2>6, SelectSet
    <3> QED BY <2>7, <3>1
  <2>9. PICK j \in 1 .. Len(later) : Session[i] = later[j]
    <3>1. DOMAIN later = 1 .. Len(later)
      BY <2>5, LenProperties
    <3> QED BY <2>8, <3>1 DEF ToSet
  <2>10. j \in 1 .. n - (m + 1) + 1 /\ m + 1 + j - 1 \in m + 1 .. n
    BY <2>3, <2>5, <2>9
  <2>11. Session[i] = nodes[m + 1 + j - 1]
    BY <2>5, <2>9, <2>10
  <2> QED BY <2>2, <2>3, <2>8, <2>10, <2>11 DEF Fresh
<1> QED BY <1>1, Invariant, PTL

(***************************************************************************)
(* ReadsBack: a boot finds the self that was written, to the last node:    *)
(* what it loads and audits would be written as what it read.              *)
(***************************************************************************)
THEOREM ReadsBack == Spec => RoundTrip
<1>1. ASSUME IInv, Boot PROVE Serialize(nodes') = cell
  <2>1. PICK requests \in {3, 4} : nodes' = Audited(cell, requests)
    BY <1>1, BootLoads
  <2>2. cell \in Seq(AnyNode) /\ cell \in Seq(AnyNode \cap Durable) /\ Len(Semantics(cell)) <= SemanticCap
    BY <1>1, KeyTypes DEF IInv, Self
  <2> DEFINE audits == [i \in 1 .. requests |-> Node("audit", 0, Short)]
             Audit == {Node("audit", 0, Short)}
  <2>3. audits \in Seq(Audit)
    OBVIOUS
  <2>4. Audit \cap Durable = {} /\ Audit \cap Semantic = {}
    BY DEF Node, Durable, Semantic, Nodes, DurableKind, SemanticKind
  <2>5. Audit \subseteq AnyNode
    <3>1. 0 \in 0 .. MaxLived
      BY Numerals
    <3> QED BY <3>1, NodeTypes, Numerals DEF Note
  <2>6. nodes' = cell \o audits
    BY <2>1 DEF Audited
  <2> HIDE DEF audits, Audit
  <2>7. audits \in Seq(AnyNode)
    BY <2>3, <2>5, SeqMonotonic
  <2>8. nodes' \in Seq(AnyNode)
    BY <2>2, <2>6, <2>7, ConcatProperties
  <2>9. Semantics(nodes') = Semantics(cell)
    <3>1. Select(cell \o audits, Semantic) = Select(cell, Semantic) \o Select(audits, Semantic)
      BY <2>2, <2>7, SelectConcat
    <3>2. Select(audits, Semantic) = <<>>
      BY <2>3, <2>4, SelectNone
    <3>3. Select(cell, Semantic) \in Seq(AnyNode)
      BY <2>2, SelectIn
    <3> QED BY <2>6, <3>1, <3>2, <3>3, ConcatEmptySeq DEF Semantics
  <2>10. Serialize(nodes') = Select(nodes', Durable)
    BY <2>2, <2>8, <2>9, Serialized
  <2>11. Select(cell \o audits, Durable) = Select(cell, Durable) \o Select(audits, Durable)
    BY <2>2, <2>7, SelectConcat
  <2>12. Select(audits, Durable) = <<>>
    BY <2>3, <2>4, SelectNone
  <2>13. Select(cell, Durable) = cell
    <3>1. AnyNode \cap Durable \subseteq Durable
      OBVIOUS
    <3> QED BY <2>2, <3>1, SelectAll
  <2> QED BY <2>2, <2>6, <2>10, <2>11, <2>12, <2>13, ConcatEmptySeq
<1>2. IInv /\ [Next]_vars => [Boot => Serialize(nodes') = cell]_vars
  BY <1>1
<1> QED BY <1>2, Invariant, PTL DEF Spec, RoundTrip

(***************************************************************************)
(* KeyForgetsNothing: whenever the self on the key is replaced, by a store *)
(* that is kept or by one that power cut short, the new one is no younger  *)
(* and knows all the old one knew, except for the oldest notes that the    *)
(* cap pushed out.                                                         *)
(***************************************************************************)
THEOREM KeyForgetsNothing == Spec => NothingForgotten
<1>1. ASSUME IInv, Next, cell' # cell
      PROVE  cellLived' >= cellLived /\ Forgets(Semantics(cell), Semantics(cell'))
  <2>1. PICK ns : /\ phase = "save" /\ Grown(nodes, ns)
                  /\ cell' = Serialize(ns) /\ cellLived' = lived
    <3>1. CASE Persist
      <4>1. phase = "save" /\ cell' = Serialize(Audited(nodes, 1)) /\ cellLived' = lived
        BY <1>1, <3>1 DEF Persist, durable
      <4>2. Grown(nodes, Audited(nodes, 1))
        BY <1>1, <4>1, GrownByAudits DEF IInv, Body, Knows
      <4> QED BY <4>1, <4>2
    <3>2. CASE PowerLossInPersist
      <4>1. phase = "save" /\ cell' = Serialize(nodes) /\ cellLived' = lived
        BY <3>2 DEF PowerLossInPersist
      <4>2. Grown(nodes, nodes)
        BY <1>1, <4>1, GrownNot DEF IInv, Body, Knows
      <4> QED BY <4>1, <4>2
    <3>3. CASE Handle
      BY <1>1, <3>3, HandleGoes DEF durable
    <3>4. CASE Boot \/ Wake \/ Depart \/ Dream \/ DreamHangs \/ Leave \/ PowerLoss
      BY <1>1, <3>4 DEF Boot, Wake, Depart, Awake, Dream, DreamHangs, Leave, PowerLoss, durable
    <3> QED BY <1>1, <3>1, <3>2, <3>3, <3>4 DEF Next
  <2>2. Forgets(Semantics(cell), Semantics(cell'))
    BY <1>1, <2>1, Stored
  <2>3. lived >= cellLived
    BY <1>1, KeyTypes DEF IInv, Ages
  <2> QED BY <2>1, <2>2, <2>3
<1>2. IInv /\ [Next]_vars =>
        [LET old == Semantics(cell)
             new == Semantics(cell')
         IN cell' # cell =>
              /\ cellLived' >= cellLived
              /\ \E pushed \in 0 .. Len(old) :
                   /\ IsPrefix(SubSeq(old, pushed + 1, Len(old)), new)
                   /\ pushed > 0 => Len(new) = SemanticCap]_vars
  BY <1>1 DEF Forgets
<1> QED BY <1>2, Invariant, PTL DEF Spec, NothingForgotten
================================================================================
