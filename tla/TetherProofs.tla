----------------------------- MODULE TetherProofs -----------------------------
(***************************************************************************)
(* Theorems about module Tether, for every number of prompts and senses    *)
(* and whatever is lost, late or cut off.                                  *)
(***************************************************************************)
EXTENDS Tether, SelectionProofs

Line == [tag : {"hello", "ask", "act"}, n : Number]
Prompt == {"hello", "ask"}

\* Where a handler may still prompt there is room for it, and an utterance has
\* a number that no AX has had.
Turns ==
  /\ pc \in {"hello", "window", "utterance", "act"} => asks < MaxAsks
  /\ pc = "utterance" => acts < asks

\* The frames of some tags in a queue: within bounds, in order, before others.
Within(s, tags, low, high) ==
  \A i \in 1 .. Len(s) : s[i].tag \in tags => low <= s[i].n /\ s[i].n <= high
Rising(s, tags) ==
  \A i, j \in 1 .. Len(s) : i < j /\ s[i].tag \in tags /\ s[j].tag \in tags => s[i].n < s[j].n
Before(s, tags, t, others) ==
  \A i \in 1 .. Len(s), j \in 1 .. Len(t) :
    s[i].tag \in tags /\ t[j].tag \in others => s[i].n < t[j].n

\* The answers on their way to the core, and the lines that will be answered,
\* are to the requests low .. high, each once and the older ones first.
Flight(core, daemon, answer, lines, low, high) ==
  /\ Within(core, {answer}, low, high) /\ Within(daemon, lines, low, high)
  /\ Rising(core, {answer}) /\ Rising(daemon, lines)
  /\ Before(core, {answer}, daemon, lines)

\* The oldest request whose answer may still come.  One that ended without an
\* answer was counted, and the answer in hand is newer than all before it.
OldestReply == asks - missed.reply + (IF pc \in Query THEN 0 ELSE 1)
OldestResult == acts - missed.result + (IF pc = "act" /\ result = 0 THEN 0 ELSE 1)

Replies == Flight(toCore, toDaemon, "reply", Prompt, OldestReply, asks)
Results ==
  /\ Flight(toCore, toDaemon, "result", {"act"}, OldestResult, acts)
  /\ Flight(toCore, toDaemon, "result", {"act"}, 1, acts)

\* The inductive invariant for the requests.
IInv == TypeOK /\ Turns /\ Replies /\ Results /\ LagBounded
--------------------------------------------------------------------------------
(***************************************************************************)
(* The numbers on the wires and the frames a step makes are of their type. *)
(***************************************************************************)
LEMMA Numbers ==
  /\ MaxAsks \in Nat /\ MaxSenses \in Nat
  /\ 0 .. MaxAsks \subseteq Number /\ 0 .. MaxSenses \subseteq Number /\ Number \subseteq Nat
  BY TetherAssumption DEF Number

(***************************************************************************)
(* A queue without its first k elements.                                   *)
(***************************************************************************)
LEMMA SuffixOf ==
  ASSUME NEW S, NEW s \in Seq(S), NEW k \in 0 .. Len(s)
  PROVE  /\ SubSeq(s, k + 1, Len(s)) \in Seq(S)
         /\ Len(SubSeq(s, k + 1, Len(s))) = Len(s) - k
         /\ \A i \in 1 .. Len(s) - k : SubSeq(s, k + 1, Len(s))[i] = s[i + k]
<1>1. Len(s) \in Nat /\ \A i \in 1 .. Len(s) : s[i] \in S
  BY LenProperties, ElementOfSeq
<1>2. k + 1 \in Int /\ \A i \in k + 1 .. Len(s) : s[i] \in S
  BY <1>1
<1> QED BY <1>1, <1>2, SubSeqProperties

\* The first element of a queue and what is left when it is taken.
LEMMA TailOf ==
  ASSUME NEW S, NEW s \in Seq(S), s # <<>>
  PROVE  /\ Len(s) \in Nat \ {0} /\ Head(s) = s[1] /\ s[1] \in S
         /\ Tail(s) = SubSeq(s, 2, Len(s))
<1>1. Len(s) \in Nat \ {0}
  BY EmptySeq
<1> QED BY <1>1, HeadTailProperties, ElementOfSeq, TailIsSubSeq

(***************************************************************************)
(* What is in flight stays so under wider bounds, without the frames that  *)
(* were read first, and next to a frame of another tag.                    *)
(***************************************************************************)
LEMMA FlightWider ==
  ASSUME NEW core \in Seq(Frames), NEW daemon \in Seq(Line), NEW answer, NEW lines,
         NEW low \in Int, NEW high \in Int, NEW low2 \in Int, NEW high2 \in Int,
         Flight(core, daemon, answer, lines, low, high), low2 <= low, high <= high2
  PROVE  Flight(core, daemon, answer, lines, low2, high2)
<1>1. /\ Len(core) \in Nat /\ \A i \in 1 .. Len(core) : core[i] \in Frames
      /\ Len(daemon) \in Nat /\ \A i \in 1 .. Len(daemon) : daemon[i] \in Line
  BY LenProperties, ElementOfSeq
<1>2. /\ \A i \in 1 .. Len(core) : core[i].n \in Nat
      /\ \A i \in 1 .. Len(daemon) : daemon[i].n \in Nat
  BY <1>1, Numbers DEF Frames, Line
<1>3. Within(core, {answer}, low2, high2)
  <2>1. \A i \in 1 .. Len(core) : core[i].tag \in {answer} => low <= core[i].n /\ core[i].n <= high
    BY DEF Flight, Within
  <2>2. \A x \in Nat : low <= x /\ x <= high => low2 <= x /\ x <= high2
    OBVIOUS
  <2> QED BY <1>2, <2>1, <2>2 DEF Within
<1>4. Within(daemon, lines, low2, high2)
  <2>1. \A i \in 1 .. Len(daemon) : daemon[i].tag \in lines => low <= daemon[i].n /\ daemon[i].n <= high
    BY DEF Flight, Within
  <2>2. \A x \in Nat : low <= x /\ x <= high => low2 <= x /\ x <= high2
    OBVIOUS
  <2> QED BY <1>2, <2>1, <2>2 DEF Within
<1> QED BY <1>3, <1>4 DEF Flight

\* Frames taken from the front of the pipe leave the rest in flight as it was.
LEMMA FlightSuffix ==
  ASSUME NEW core \in Seq(Frames), NEW daemon \in Seq(Line), NEW answer, NEW lines,
         NEW low \in Int, NEW high \in Int, NEW k \in 0 .. Len(core),
         Flight(core, daemon, answer, lines, low, high)
  PROVE  Flight(SubSeq(core, k + 1, Len(core)), daemon, answer, lines, low, high)
<1> DEFINE rest == SubSeq(core, k + 1, Len(core))
<1>1. /\ rest \in Seq(Frames) /\ Len(rest) = Len(core) - k
      /\ \A i \in 1 .. Len(core) - k : rest[i] = core[i + k]
  BY SuffixOf
<1> HIDE DEF rest
<1>2. Len(core) \in Nat
  BY LenProperties
<1>3. \A i \in 1 .. Len(rest) : rest[i] = core[i + k] /\ i + k \in 1 .. Len(core)
  BY <1>1, <1>2
<1>4. Within(rest, {answer}, low, high)
  BY <1>3 DEF Flight, Within
<1>5. Rising(rest, {answer})
  <2>1. ASSUME NEW i \in 1 .. Len(rest), NEW j \in 1 .. Len(rest), i < j,
               rest[i].tag = answer, rest[j].tag = answer
        PROVE  rest[i].n < rest[j].n
    <3>1. rest[i] = core[i + k] /\ rest[j] = core[j + k]
      BY <1>3
    <3>2. i + k \in 1 .. Len(core) /\ j + k \in 1 .. Len(core) /\ i + k < j + k
      BY <1>2, <1>3, <2>1
    <3> QED BY <2>1, <3>1, <3>2 DEF Flight, Rising
  <2> QED BY <2>1 DEF Rising
<1>6. Before(rest, {answer}, daemon, lines)
  BY <1>3 DEF Flight, Before
<1>7. Within(daemon, lines, low, high) /\ Rising(daemon, lines)
  BY DEF Flight
<1>8. Flight(rest, daemon, answer, lines, low, high)
  BY <1>4, <1>5, <1>6, <1>7 DEF Flight
<1> QED BY <1>8 DEF rest

\* When the answer at the front is taken, the next one is awaited.
LEMMA FlightTaken ==
  ASSUME NEW core \in Seq(Frames), NEW daemon \in Seq(Line), NEW answer, NEW lines,
         NEW low \in Int, NEW high \in Int, NEW k \in 1 .. Len(core), core[1].tag = answer,
         Flight(core, daemon, answer, lines, low, high)
  PROVE  Flight(SubSeq(core, k + 1, Len(core)), daemon, answer, lines, low + 1, high)
<1> DEFINE rest == SubSeq(core, k + 1, Len(core))
<1>0. k \in 0 .. Len(core)
  OBVIOUS
<1>1. /\ rest \in Seq(Frames) /\ Len(rest) = Len(core) - k
      /\ \A i \in 1 .. Len(core) - k : rest[i] = core[i + k]
  BY <1>0, SuffixOf
<1>9. Flight(rest, daemon, answer, lines, low, high)
  BY <1>0, FlightSuffix
<1> HIDE DEF rest
<1>2. /\ Len(core) \in Nat /\ \A i \in 1 .. Len(core) : core[i] \in Frames
      /\ Len(daemon) \in Nat /\ \A i \in 1 .. Len(daemon) : daemon[i] \in Line
  BY LenProperties, ElementOfSeq
<1>3. /\ \A i \in 1 .. Len(core) : core[i].n \in Nat
      /\ \A i \in 1 .. Len(daemon) : daemon[i].n \in Nat
  BY <1>2, Numbers DEF Frames, Line
<1>4. \A i \in 1 .. Len(rest) : rest[i] = core[i + k] /\ i + k \in 1 .. Len(core) /\ 1 < i + k
  BY <1>1, <1>2
<1>5. low <= core[1].n /\ 1 \in 1 .. Len(core)
  BY <1>2 DEF Flight, Within
<1>6. Within(rest, {answer}, low + 1, high)
  <2>1. \A i \in 1 .. Len(rest) : rest[i].tag = answer => core[1].n < rest[i].n
    BY <1>4, <1>5 DEF Flight, Rising
  <2>2. Within(rest, {answer}, low, high)
    BY <1>9 DEF Flight
  <2>3. \A i \in 1 .. Len(rest) : rest[i].n \in Nat
    BY <1>3, <1>4
  <2> QED BY <1>3, <1>5, <2>1, <2>2, <2>3 DEF Within
<1>7. Within(daemon, lines, low + 1, high)
  <2>1. \A j \in 1 .. Len(daemon) : daemon[j].tag \in lines => core[1].n < daemon[j].n
    BY <1>5 DEF Flight, Before
  <2>2. \A j \in 1 .. Len(daemon) : daemon[j].tag \in lines => daemon[j].n <= high
    BY DEF Flight, Within
  <2>3. \A j \in 1 .. Len(daemon) : daemon[j].tag \in lines => low + 1 <= daemon[j].n
    BY <1>3, <1>5, <2>1
  <2> QED BY <2>2, <2>3 DEF Within
<1>8. Flight(rest, daemon, answer, lines, low + 1, high)
  BY <1>6, <1>7, <1>9 DEF Flight
<1> QED BY <1>8 DEF rest

\* A new request behind all the others is the last in flight.
LEMMA FlightAsked ==
  ASSUME NEW core \in Seq(Frames), NEW daemon \in Seq(Line), NEW answer, NEW lines,
         NEW low \in Int, NEW high \in Int, NEW line \in Line,
         Flight(core, daemon, answer, lines, low, high),
         line.tag \in lines => low <= high + 1 /\ line.n = high + 1
  PROVE  Flight(core, Append(daemon, line), answer, lines, low,
                IF line.tag \in lines THEN high + 1 ELSE high)
<1> DEFINE more == Append(daemon, line)
<1>1. /\ more \in Seq(Line) /\ Len(more) = Len(daemon) + 1
      /\ more[Len(daemon) + 1] = line /\ \A i \in 1 .. Len(daemon) : more[i] = daemon[i]
  BY AppendProperties
<1> HIDE DEF more
<1>2. /\ Len(core) \in Nat /\ \A i \in 1 .. Len(core) : core[i] \in Frames
      /\ Len(daemon) \in Nat /\ \A i \in 1 .. Len(daemon) : daemon[i] \in Line
  BY LenProperties, ElementOfSeq
<1>3. /\ \A i \in 1 .. Len(core) : core[i].n \in Nat
      /\ \A i \in 1 .. Len(daemon) : daemon[i].n \in Nat
      /\ line.n \in Nat
  BY <1>2, Numbers DEF Frames, Line
<1>4. \A i \in 1 .. Len(more) : i \in 1 .. Len(daemon) \/ i = Len(daemon) + 1
  BY <1>1, <1>2
<1> DEFINE top == IF line.tag \in lines THEN high + 1 ELSE high
<1>5. top \in Int /\ high <= top /\ (line.tag \in lines => line.n = top /\ top = high + 1)
  OBVIOUS
<1> HIDE DEF top
<1>6. Within(core, {answer}, low, top) /\ Within(daemon, lines, low, top)
  BY <1>3, <1>5 DEF Flight, Within
<1>7. Within(more, lines, low, top)
  BY <1>1, <1>3, <1>4, <1>5, <1>6 DEF Within
<1>8. Rising(more, lines)
  <2>1. ASSUME NEW i \in 1 .. Len(more), NEW j \in 1 .. Len(more), i < j,
               more[i].tag \in lines, more[j].tag \in lines
        PROVE  more[i].n < more[j].n
    <3>1. i \in 1 .. Len(daemon) /\ more[i] = daemon[i]
      BY <1>1, <1>2, <2>1
    <3>2. CASE j \in 1 .. Len(daemon)
      BY <1>1, <2>1, <3>1, <3>2 DEF Flight, Rising
    <3>3. CASE j = Len(daemon) + 1
      <4>1. more[j] = line /\ daemon[i].n <= high
        BY <1>1, <2>1, <3>1, <3>3 DEF Flight, Within
      <4> QED BY <1>3, <1>5, <2>1, <3>1, <4>1
    <3> QED BY <1>4, <3>2, <3>3
  <2> QED BY <2>1 DEF Rising
<1>9. Before(core, {answer}, more, lines)
  <2>1. ASSUME NEW i \in 1 .. Len(core), NEW j \in 1 .. Len(more),
               core[i].tag = answer, more[j].tag \in lines
        PROVE  core[i].n < more[j].n
    <3>1. CASE j \in 1 .. Len(daemon)
      BY <1>1, <2>1, <3>1 DEF Flight, Before
    <3>2. CASE j = Len(daemon) + 1
      <4>1. more[j] = line /\ core[i].n <= high
        BY <1>1, <2>1, <3>2 DEF Flight, Within
      <4> QED BY <1>3, <1>5, <2>1, <4>1
    <3> QED BY <1>4, <3>1, <3>2
  <2> QED BY <2>1 DEF Before
<1>10. Rising(core, {answer})
  BY DEF Flight
<1>11. Flight(core, more, answer, lines, low, top)
  BY <1>6, <1>7, <1>8, <1>9, <1>10 DEF Flight
<1> QED BY <1>11 DEF top, more

\* A frame that is no answer changes nothing about the answers in flight.
LEMMA FlightBeside ==
  ASSUME NEW core \in Seq(Frames), NEW daemon \in Seq(Line), NEW answer, NEW lines,
         NEW low \in Int, NEW high \in Int, NEW f \in Frames, f.tag # answer,
         Flight(core, daemon, answer, lines, low, high)
  PROVE  Flight(Append(core, f), daemon, answer, lines, low, high)
<1> DEFINE more == Append(core, f)
<1>1. /\ more \in Seq(Frames) /\ Len(more) = Len(core) + 1
      /\ more[Len(core) + 1] = f /\ \A i \in 1 .. Len(core) : more[i] = core[i]
  BY AppendProperties
<1> HIDE DEF more
<1>2. Len(core) \in Nat
  BY LenProperties
<1>3. \A i \in 1 .. Len(more) : more[i].tag = answer => i \in 1 .. Len(core) /\ more[i] = core[i]
  BY <1>1, <1>2
<1>4. Within(more, {answer}, low, high)
  BY <1>3 DEF Flight, Within
<1>5. Rising(more, {answer})
  BY <1>3 DEF Flight, Rising
<1>6. Before(more, {answer}, daemon, lines)
  BY <1>3 DEF Flight, Before
<1>7. Flight(more, daemon, answer, lines, low, high)
  BY <1>4, <1>5, <1>6 DEF Flight
<1> QED BY <1>7 DEF more

(***************************************************************************)
(* The daemon takes its first line, and answers it or does not.            *)
(***************************************************************************)
LEMMA FlightUnserved ==
  ASSUME NEW core \in Seq(Frames), NEW daemon \in Seq(Line), daemon # <<>>, NEW answer, NEW lines,
         NEW low \in Int, NEW high \in Int,
         Flight(core, daemon, answer, lines, low, high)
  PROVE  Flight(core, Tail(daemon), answer, lines, low, high)
<1> DEFINE rest == Tail(daemon)
<1>1. /\ Len(daemon) \in Nat /\ Len(rest) = Len(daemon) - 1
      /\ \A i \in 1 .. Len(rest) : rest[i] = daemon[i + 1]
  BY TailOf, HeadTailProperties
<1> HIDE DEF rest
<1>2. \A i \in 1 .. Len(rest) : rest[i] = daemon[i + 1] /\ i + 1 \in 1 .. Len(daemon)
  BY <1>1
<1>3. Within(rest, lines, low, high)
  BY <1>2 DEF Flight, Within
<1>4. Rising(rest, lines)
  <2>1. ASSUME NEW i \in 1 .. Len(rest), NEW j \in 1 .. Len(rest), i < j,
               rest[i].tag \in lines, rest[j].tag \in lines
        PROVE  rest[i].n < rest[j].n
    <3>1. i + 1 < j + 1
      BY <1>1, <2>1
    <3> QED BY <1>2, <2>1, <3>1 DEF Flight, Rising
  <2> QED BY <2>1 DEF Rising
<1>5. Before(core, {answer}, rest, lines)
  BY <1>2 DEF Flight, Before
<1>6. Flight(core, rest, answer, lines, low, high)
  BY <1>3, <1>4, <1>5 DEF Flight
<1> QED BY <1>6 DEF rest

\* The daemon answering its first request puts the answer behind all the others.
LEMMA FlightServed ==
  ASSUME NEW core \in Seq(Frames), NEW daemon \in Seq(Line), daemon # <<>>, NEW answer, NEW lines,
         NEW low \in Int, NEW high \in Int, NEW f \in Frames, f.tag = answer,
         Head(daemon).tag \in lines, f.n = Head(daemon).n,
         Flight(core, daemon, answer, lines, low, high)
  PROVE  Flight(Append(core, f), Tail(daemon), answer, lines, low, high)
<1> DEFINE more == Append(core, f)
           rest == Tail(daemon)
<1>1. /\ more \in Seq(Frames) /\ Len(more) = Len(core) + 1
      /\ more[Len(core) + 1] = f /\ \A i \in 1 .. Len(core) : more[i] = core[i]
  BY AppendProperties
<1>2. /\ Len(daemon) \in Nat \ {0} /\ Len(rest) = Len(daemon) - 1 /\ Head(daemon) = daemon[1]
      /\ \A i \in 1 .. Len(rest) : rest[i] = daemon[i + 1]
  BY TailOf, HeadTailProperties
<1>3. Flight(core, rest, answer, lines, low, high)
  BY FlightUnserved
<1> HIDE DEF more, rest
<1>4. Len(core) \in Nat
  BY LenProperties
<1>5. \A i \in 1 .. Len(more) : i = Len(core) + 1 \/ (i \in 1 .. Len(core) /\ more[i] = core[i])
  BY <1>1, <1>4
<1>6. /\ 1 \in 1 .. Len(daemon) /\ f.n = daemon[1].n /\ daemon[1].tag \in lines
      /\ \A j \in 1 .. Len(rest) : rest[j] = daemon[j + 1] /\ j + 1 \in 1 .. Len(daemon) /\ 1 < j + 1
  BY <1>2
<1>7. Within(more, {answer}, low, high)
  <2>1. low <= f.n /\ f.n <= high
    BY <1>6 DEF Flight, Within
  <2> QED BY <1>1, <1>5, <2>1 DEF Flight, Within
<1>8. Rising(more, {answer})
  <2>1. ASSUME NEW i \in 1 .. Len(more), NEW j \in 1 .. Len(more), i < j,
               more[i].tag = answer, more[j].tag = answer
        PROVE  more[i].n < more[j].n
    <3>1. i \in 1 .. Len(core) /\ more[i] = core[i]
      BY <1>1, <1>4, <2>1
    <3>2. CASE j \in 1 .. Len(core)
      BY <1>1, <2>1, <3>1, <3>2 DEF Flight, Rising
    <3>3. CASE j = Len(core) + 1
      <4>1. core[i].n < f.n
        BY <1>6, <2>1, <3>1 DEF Flight, Before
      <4> QED BY <1>1, <3>1, <3>3, <4>1
    <3> QED BY <1>5, <3>2, <3>3
  <2> QED BY <2>1 DEF Rising
<1>9. Before(more, {answer}, rest, lines)
  <2>1. ASSUME NEW i \in 1 .. Len(more), NEW j \in 1 .. Len(rest),
               more[i].tag = answer, rest[j].tag \in lines
        PROVE  more[i].n < rest[j].n
    <3>1. CASE i \in 1 .. Len(core)
      BY <1>1, <1>3, <2>1, <3>1 DEF Flight, Before
    <3>2. CASE i = Len(core) + 1
      <4>1. f.n < rest[j].n
        BY <1>6, <2>1 DEF Flight, Rising
      <4> QED BY <1>1, <3>2, <4>1
    <3> QED BY <1>5, <3>1, <3>2
  <2> QED BY <2>1 DEF Before
<1>10. Flight(more, rest, answer, lines, low, high)
  BY <1>3, <1>7, <1>8, <1>9 DEF Flight
<1> QED BY <1>10 DEF more, rest

(***************************************************************************)
(* The lines are lost.                                                     *)
(***************************************************************************)
LEMMA FlightCut ==
  ASSUME NEW core \in Seq(Frames), NEW daemon \in Seq(Line), NEW answer, NEW lines,
         NEW low \in Int, NEW high \in Int,
         Flight(core, daemon, answer, lines, low, high)
  PROVE  /\ Flight(core, <<>>, answer, lines, low, high)
         /\ Flight(<<>>, <<>>, answer, lines, low, high)
<1>1. Len(<<>>) = 0 /\ 1 .. 0 = {}
  BY EmptySeq
<1> QED BY <1>1 DEF Flight, Within, Rising, Before
--------------------------------------------------------------------------------
(***************************************************************************)
(* What a step puts on a wire, keeps or takes is of its type.              *)
(***************************************************************************)
Senses == {f \in Frames : IsSensory(f)}

\* The core's queue holds frames of the senses only.
LEMMA PendingSenses ==
  ASSUME NEW s
  PROVE  s \in Seq(Senses) <=> s \in Seq(Frames) /\ \A i \in DOMAIN s : IsSensory(s[i])
<1>1. ASSUME s \in Seq(Senses) PROVE s \in Seq(Frames) /\ \A i \in DOMAIN s : IsSensory(s[i])
  <2>1. Len(s) \in Nat /\ DOMAIN s = 1 .. Len(s) /\ \A i \in 1 .. Len(s) : s[i] \in Senses
    BY <1>1, LenProperties, ElementOfSeq
  <2>2. s \in [1 .. Len(s) -> Senses]
    BY <1>1, LenProperties
  <2>3. s \in [1 .. Len(s) -> Frames]
    BY <2>2 DEF Senses
  <2>4. s \in Seq(Frames)
    BY <2>1, <2>3
  <2> QED BY <2>1, <2>4 DEF Senses
<1>2. ASSUME s \in Seq(Frames), \A i \in DOMAIN s : IsSensory(s[i]) PROVE s \in Seq(Senses)
  <2>1. Len(s) \in Nat /\ DOMAIN s = 1 .. Len(s) /\ s \in [1 .. Len(s) -> Frames]
    BY <1>2, LenProperties
  <2>2. s \in [1 .. Len(s) -> Senses]
    BY <1>2, <2>1 DEF Senses
  <2> QED BY <2>1, <2>2
<1> QED BY <1>1, <1>2

\* The elements of a queue are of its type.
LEMMA ElementsOf ==
  ASSUME NEW S, NEW s \in Seq(S)
  PROVE  ToSet(s) \subseteq S
  BY LenProperties, ElementOfSeq DEF ToSet

\* The frames that the two sides build are of the types of their pipes.
LEMMA FrameType ==
  /\ \A tag \in {"hello", "ask", "act"}, n \in Number : Frame(tag, n) \in Line
  /\ \A tag \in Sensory \cup {"reply", "result"}, n \in Number : Frame(tag, n) \in Frames
  /\ \A tag \in {"heard", "saw"}, n \in Number : Frame(tag, n) \in Senses
  BY DEF Frame, Line, Frames, Senses, IsSensory, Sensory

\* A question adds one line with the next number, and makes its asker wait.
LEMMA AskType ==
  ASSUME TypeOK, asks < MaxAsks, NEW caller, Ask(caller)
  PROVE  /\ asks' \in 0 .. MaxAsks /\ asks' = asks + 1
         /\ toDaemon' \in Seq(Line) /\ pc' = caller
         /\ \E line \in Line : /\ toDaemon' = Append(toDaemon, line)
                               /\ line.tag \in Prompt /\ line.n = asks + 1
<1>1. asks + 1 \in 0 .. MaxAsks /\ asks + 1 \in Number /\ toDaemon \in Seq(Line)
  BY Numbers DEF TypeOK, Line
<1> DEFINE line == Frame(IF caller \in {"hello", "retry"} THEN "hello" ELSE "ask", asks + 1)
<1>2. line \in Line /\ line.tag \in Prompt /\ line.n = asks + 1
  BY <1>1, FrameType DEF Frame, Prompt
<1>3. toDaemon' = Append(toDaemon, line) /\ asks' = asks + 1 /\ pc' = caller
  BY DEF Ask
<1> HIDE DEF line
<1>4. Append(toDaemon, line) \in Seq(Line)
  BY <1>1, <1>2, AppendProperties
<1> QED BY <1>1, <1>2, <1>3, <1>4

\* One more request that ended without its answer.
LEMMA OneMoreMissed ==
  ASSUME NEW m \in [reply : Nat, result : Nat]
  PROVE  /\ [m EXCEPT !.reply = @ + 1] \in [reply : Nat, result : Nat]
         /\ [m EXCEPT !.reply = @ + 1].reply = m.reply + 1
         /\ [m EXCEPT !.reply = @ + 1].result = m.result
         /\ [m EXCEPT !.result = @ + 1] \in [reply : Nat, result : Nat]
         /\ [m EXCEPT !.result = @ + 1].result = m.result + 1
         /\ [m EXCEPT !.result = @ + 1].reply = m.reply
<1>1. PICK a \in Nat, b \in Nat : m = [reply |-> a, result |-> b]
  OBVIOUS
<1>2. /\ [m EXCEPT !.reply = @ + 1] = [reply |-> a + 1, result |-> b]
      /\ [m EXCEPT !.result = @ + 1] = [reply |-> a, result |-> b + 1]
  BY <1>1
<1> QED BY <1>1, <1>2

(***************************************************************************)
(* The type invariant is kept, given the room for the prompts.             *)
(***************************************************************************)
LEMMA TypeNext == TypeOK /\ Turns /\ Results /\ [Next]_vars => TypeOK' /\ Turns'
<1> SUFFICES ASSUME TypeOK, Turns, Results, [Next]_vars PROVE TypeOK' /\ Turns'
  OBVIOUS
<1> USE Numbers
<1> DEFINE Types ==
      /\ pc \in Query \cup {"off", "window", "loop", "act"}
      /\ pending \in Seq(Senses)
      /\ result \in 0 .. acts
      /\ toDaemon \in Seq(Line)
      /\ toCore \in Seq(Frames)
      /\ asks \in 0 .. MaxAsks /\ acts \in 0 .. asks
      /\ taken \in [tag : {"reply", "result"}, of : Number, for : Number]
      /\ missed \in [reply : Nat, result : Nat]
      /\ senses \in 0 .. MaxSenses
      /\ handled \subseteq Frames /\ lost \subseteq Frames /\ gone \subseteq Frames
<1>1. TypeOK <=> Types
  BY PendingSenses DEF TypeOK, Line
<1>2. TypeOK' <=> Types'
  BY PendingSenses DEF TypeOK, Line
<1>3. Types
  BY <1>1
<1>4. toCore # <<>> => /\ Len(toCore) \in Nat \ {0} /\ Head(toCore) = toCore[1]
                        /\ Head(toCore) \in Frames /\ Tail(toCore) \in Seq(Frames)
  BY <1>3, TailOf, HeadTailProperties
<1>5. ToSet(pending) \subseteq Frames /\ Senses \subseteq Frames
  BY <1>3, ElementsOf DEF Senses
<1>6. asks \in Number /\ acts \in Number
  BY <1>3
<1>7. <<>> \in Seq(Senses) /\ <<>> \in Seq(Frames) /\ <<>> \in Seq(Line)
  BY EmptySeq
<1>8. ASSUME NEW k \in 0 .. Len(toCore)
      PROVE  SubSeq(toCore, k + 1, Len(toCore)) \in Seq(Frames)
  BY <1>3, SuffixOf
<1> SUFFICES Types' /\ Turns'
  BY <1>2
<1>9. CASE Boot
  BY <1>3, <1>5, <1>7, <1>9, AskType, <1>1 DEF Boot, Room, Turns, Query
<1>10. CASE Key
  <2>1. PICK caller \in {"utterance", "retry", "dream"} : Ask(caller)
    BY <1>10 DEF Key
  <2>2. asks + 2 <= MaxAsks
    BY <1>10 DEF Key, Room
  <2>3. asks' \in 0 .. MaxAsks /\ asks' = asks + 1 /\ toDaemon' \in Seq(Line) /\ pc' = caller
    BY <1>1, <1>3, <2>1, <2>2, AskType
  <2> QED BY <1>3, <1>10, <2>2, <2>3 DEF Key, Turns, fates, Query
<1>11. CASE QueryPoll
  <2>1. IsSensory(Head(toCore)) => Append(pending, Head(toCore)) \in Seq(Senses)
    BY <1>3, <1>4, <1>11, AppendProperties DEF QueryPoll, Senses
  <2> QED BY <1>3, <1>4, <1>11, <2>1 DEF QueryPoll, Turns, requests, fates
<1>12. ASSUME Answered PROVE toCore' \in Seq(Frames) /\ taken' \in [tag : {"reply", "result"}, of : Number, for : Number]
  BY <1>4, <1>6, <1>12 DEF Answered, Take, Frames
<1>13. CASE AnsweredHello
  BY <1>3, <1>12, <1>13 DEF AnsweredHello, Turns, fates, Query
<1>14. CASE AnsweredInWords
  BY <1>3, <1>12, <1>14 DEF AnsweredInWords, Turns, fates, Query
<1>15. CASE AnsweredByOwnOrgan
  BY <1>3, <1>12, <1>15, AskType, <1>1 DEF AnsweredByOwnOrgan, Turns, fates, Query
<1>16. CASE AnsweredByLimb
  <2>1. PICK arrived \in 1 .. Len(toCore) :
          /\ toCore' = SubSeq(toCore, arrived + 1, Len(toCore))
          /\ lost' = lost \cup SensoryIn(SubSeq(toCore, 2, arrived))
    BY <1>16 DEF AnsweredByLimb
  <2>2. toCore' \in Seq(Frames)
    BY <1>8, <2>1
  <2>3. SubSeq(toCore, 2, arrived) \in Seq(Frames)
    <3>1. \A i \in 2 .. arrived : toCore[i] \in Frames
      BY <1>3, <1>4, <1>16, ElementOfSeq DEF AnsweredByLimb
    <3> QED BY <1>4, <1>16, <3>1, SubSeqProperties DEF AnsweredByLimb
  <2>4. lost' \subseteq Frames
    BY <1>3, <2>1, <2>3, ElementsOf DEF SensoryIn
  <2>5. taken' \in [tag : {"reply", "result"}, of : Number, for : Number]
    BY <1>4, <1>6, <1>16 DEF AnsweredByLimb, Take, Frames
  <2>6. acts' = acts + 1 /\ acts + 1 \in Number /\ acts + 1 <= asks /\ asks' = asks
    BY <1>3, <1>16 DEF AnsweredByLimb, Turns
  <2>7. toDaemon' \in Seq(Line)
    BY <1>3, <1>16, <2>6, FrameType, AppendProperties DEF AnsweredByLimb
  <2> QED BY <1>3, <1>16, <2>2, <2>4, <2>5, <2>6, <2>7 DEF AnsweredByLimb, Turns, Query
<1>17. CASE QueryTimeout
  <2>1. /\ pc' \in {"off", "loop"} /\ missed' = [missed EXCEPT !.reply = @ + 1]
        /\ UNCHANGED <<pending, result, toDaemon, toCore, asks, acts, taken>>
        /\ UNCHANGED <<senses, handled, lost, gone>>
    BY <1>17 DEF QueryTimeout, wires, fates
  <2>2. missed' \in [reply : Nat, result : Nat]
    BY <1>3, <2>1, OneMoreMissed
  <2>3. Turns'
    BY <2>1 DEF Turns
  <2> QED BY <1>3, <2>1, <2>2, <2>3
<1>18. CASE ActPoll
  <2>1. result' \in 0 .. acts /\ taken' \in [tag : {"reply", "result"}, of : Number, for : Number]
    <3>1. CASE Head(toCore).tag = "result"
      <4>1. Head(toCore).n \in Number /\ Head(toCore).n <= acts
        BY <1>4, <1>18, <3>1 DEF ActPoll, Results, Flight, Within, Frames
      <4>2. result' = Head(toCore).n /\ taken' = [tag |-> "result", of |-> Head(toCore).n, for |-> acts]
        BY <1>18, <3>1 DEF ActPoll, Take
      <4>3. Head(toCore).n \in 0 .. acts
        <5>1. Head(toCore).n \in Nat /\ acts \in Nat
          BY <1>6, <4>1
        <5> QED BY <4>1, <5>1
      <4> QED BY <1>6, <4>1, <4>2, <4>3
    <3>2. CASE Head(toCore).tag # "result"
      BY <1>3, <1>18, <3>2 DEF ActPoll
    <3> QED BY <3>1, <3>2
  <2>2. pending' \in Seq(Senses)
    BY <1>3, <1>4, <1>18, AppendProperties DEF ActPoll, Senses, IsSensory, Sensory
  <2> QED BY <1>3, <1>4, <1>18, <2>1, <2>2 DEF ActPoll, Turns
<1>19. CASE ActEnds
  BY <1>3, <1>19, AskType, <1>1 DEF ActEnds, Turns, fates, Query
<1>20. CASE ActTimeout
  <2>1. /\ pc' = "loop" /\ missed' = [missed EXCEPT !.result = @ + 1]
        /\ UNCHANGED <<pending, result, toDaemon, toCore, asks, acts, taken>>
        /\ UNCHANGED <<senses, handled, lost, gone>>
    BY <1>20 DEF ActTimeout, wires, fates
  <2>2. missed' \in [reply : Nat, result : Nat]
    BY <1>3, <2>1, OneMoreMissed
  <2>3. Turns'
    BY <2>1 DEF Turns
  <2> QED BY <1>3, <2>1, <2>2, <2>3
<1>21. CASE WindowPoll
  BY <1>3, <1>4, <1>21 DEF WindowPoll, Turns, requests
<1>22. CASE WindowEnds
  <2>1. ASSUME NEW K PROVE Select(pending, K) \in Seq(Senses)
    BY <1>3, SelectIn
  <2>2. ToSet(Select(pending, Tagged({"limb"}))) \subseteq Frames
    BY <1>5, <2>1, ElementsOf
  <2> QED BY <1>3, <1>22, <2>1, <2>2, AskType, <1>1 DEF WindowEnds, Turns, Query
<1>23. CASE Pop
  <2>1. pending' \in Seq(Senses) /\ Last(pending) \in Frames
    BY <1>3, <1>5, <1>23, FrontAndLast DEF Pop
  <2> QED BY <1>3, <1>23, <2>1, AskType, <1>1 DEF Pop, Turns, Room, Query
<1>24. CASE Pump
  <2>1. PICK arrived \in 1 .. Len(toCore) :
       /\ pending' = Select(SubSeq(toCore, 1, arrived), Tagged(Sensory))
       /\ toCore' = SubSeq(toCore, arrived + 1, Len(toCore))
    BY <1>24 DEF Pump
  <2>2. toCore' \in Seq(Frames)
    BY <1>8, <2>1
  <2>3. SubSeq(toCore, 1, arrived) \in Seq(Frames)
    <3>1. \A i \in 1 .. arrived : toCore[i] \in Frames
      BY <1>3, <1>4, <1>24, ElementOfSeq DEF Pump
    <3> QED BY <1>4, <1>24, <3>1, SubSeqProperties DEF Pump
  <2>4. pending' \in Seq(Senses)
    <3>1. pending' \in Seq(Frames \cap Tagged(Sensory))
      BY <2>1, <2>3, SelectType
    <3>2. Frames \cap Tagged(Sensory) \subseteq Senses
      BY DEF Senses, Tagged, IsSensory
    <3> QED BY <3>1, <3>2, SeqMonotonic
  <2> QED BY <1>3, <1>24, <2>2, <2>4 DEF Pump, Turns, requests, fates
<1>25. CASE PowerOff
  <2>1. /\ pc' = "off"
        /\ \/ missed' = [missed EXCEPT !.reply = @ + 1]
           \/ missed' = [missed EXCEPT !.result = @ + 1]
           \/ missed' = missed
        /\ UNCHANGED <<pending, result, toDaemon, toCore, asks, acts, taken>>
        /\ UNCHANGED <<senses, handled, lost, gone>>
    BY <1>25 DEF PowerOff, wires, fates
  <2>2. missed' \in [reply : Nat, result : Nat]
    BY <1>3, <2>1, OneMoreMissed
  <2>3. Turns'
    BY <2>1 DEF Turns
  <2> QED BY <1>3, <2>1, <2>2, <2>3
<1>26. CASE Serve
  <2>1. Head(toDaemon) \in Line /\ Tail(toDaemon) \in Seq(Line)
    BY <1>3, <1>26, TailOf, HeadTailProperties DEF Serve
  <2>2. Answers(Head(toDaemon)) \in Seq(Frames)
    <3>1. Head(toDaemon).tag \in {"hello", "ask", "act"} /\ Head(toDaemon).n \in Number
      BY <2>1 DEF Line
    <3> QED BY <3>1, FrameType DEF Answers, Sensory
  <2>3. toCore' \in Seq(Frames)
    <3>1. toCore \o Answers(Head(toDaemon)) \in Seq(Frames)
      BY <1>3, <2>2, ConcatProperties
    <3> QED BY <1>3, <1>26, <3>1 DEF Serve
  <2> QED BY <1>3, <1>26, <2>1, <2>3 DEF Serve, Turns, requests, fates
<1>27. CASE Sense
  <2>1. toCore' \in Seq(Frames)
    <3>1. senses + 1 \in Number
      BY <1>3, <1>27 DEF Sense, Number
    <3> QED BY <1>3, <1>27, <3>1, FrameType, AppendProperties DEF Sense, Sensory
  <2> QED BY <1>3, <1>27, <2>1 DEF Sense, Turns, requests
<1>28. CASE Drop
  BY <1>3, <1>7, <1>28, ElementsOf DEF Drop, Turns, requests, SensoryIn
<1>29. CASE UNCHANGED vars
  BY <1>3, <1>29 DEF vars, Turns, requests, wires, fates
<1> QED BY <1>9, <1>10, <1>11, <1>13, <1>14, <1>15, <1>16, <1>17, <1>18, <1>19, <1>20, <1>21,
           <1>22, <1>23, <1>24, <1>25, <1>26, <1>27, <1>28, <1>29 DEF Next, CoreStep, QueryEnds
--------------------------------------------------------------------------------
(***************************************************************************)
(* A prompt goes out while the core reads from a queue of frames: to the   *)
(* one flight it adds a line, the other one it leaves alone.               *)
(***************************************************************************)
LEMMA AskFlight ==
  ASSUME TypeOK, asks < MaxAsks, NEW caller, Ask(caller), NEW core \in Seq(Frames)
  PROVE  /\ \A low \in Int :
              low <= asks + 1 /\ Flight(core, toDaemon, "reply", Prompt, low, asks)
                => Flight(core, toDaemon', "reply", Prompt, low, asks')
         /\ \A low \in Int :
              Flight(core, toDaemon, "result", {"act"}, low, acts)
                => Flight(core, toDaemon', "result", {"act"}, low, acts)
<1>1. PICK line \in Line : /\ toDaemon' = Append(toDaemon, line)
                            /\ line.tag \in Prompt /\ line.n = asks + 1
  BY AskType
<1>2. asks' = asks + 1 /\ asks \in Int /\ acts \in Int /\ toDaemon \in Seq(Line)
  BY AskType DEF TypeOK, Line
<1>3. line.tag \notin {"act"}
  BY <1>1 DEF Prompt
<1>4. ASSUME NEW low \in Int, low <= asks + 1, Flight(core, toDaemon, "reply", Prompt, low, asks)
      PROVE  Flight(core, toDaemon', "reply", Prompt, low, asks')
  <2>1. Flight(core, Append(toDaemon, line), "reply", Prompt, low,
               IF line.tag \in Prompt THEN asks + 1 ELSE asks)
    BY <1>1, <1>2, <1>4, FlightAsked
  <2> QED BY <1>1, <1>2, <2>1
<1>5. ASSUME NEW low \in Int, Flight(core, toDaemon, "result", {"act"}, low, acts)
      PROVE  Flight(core, toDaemon', "result", {"act"}, low, acts)
  <2>1. Flight(core, Append(toDaemon, line), "result", {"act"}, low,
               IF line.tag \in {"act"} THEN acts + 1 ELSE acts)
    BY <1>2, <1>3, <1>5, FlightAsked
  <2> QED BY <1>1, <1>3, <2>1
<1> QED BY <1>4, <1>5

(***************************************************************************)
(* The daemon serves a line: each flight takes over its own answer, and is *)
(* not disturbed by another.                                               *)
(***************************************************************************)
LEMMA ServeFlight ==
  ASSUME TypeOK, Serve, NEW low \in Int, NEW high \in Int
  PROVE  /\ Flight(toCore, toDaemon, "reply", Prompt, low, high)
              => Flight(toCore', toDaemon', "reply", Prompt, low, high)
         /\ Flight(toCore, toDaemon, "result", {"act"}, low, high)
              => Flight(toCore', toDaemon', "result", {"act"}, low, high)
<1> DEFINE line == Head(toDaemon)
<1>1. /\ toDaemon \in Seq(Line) /\ toDaemon # <<>> /\ toDaemon' = Tail(toDaemon)
      /\ toCore \in Seq(Frames) /\ line \in Line /\ Tail(toDaemon) \in Seq(Line)
  <2>1. toDaemon \in Seq(Line) /\ toDaemon # <<>> /\ toDaemon' = Tail(toDaemon) /\ toCore \in Seq(Frames)
    BY DEF Serve, TypeOK, Line
  <2> QED BY <2>1, TailOf, HeadTailProperties
<1>2. /\ Frame("reply", line.n) \in Frames /\ Frame("limb", line.n) \in Frames
      /\ Frame("result", line.n) \in Frames /\ line.tag \in {"hello", "ask", "act"}
  BY <1>1, FrameType DEF Sensory, Line
<1>3. /\ Frame("reply", line.n).tag = "reply" /\ Frame("limb", line.n).tag = "limb"
      /\ Frame("result", line.n).tag = "result"
      /\ Frame("reply", line.n).n = line.n /\ Frame("result", line.n).n = line.n
  BY DEF Frame
<1>4. CASE toCore' = toCore
  BY <1>1, <1>4, FlightUnserved
<1>5. CASE line.tag = "ask" /\ toCore' = Append(toCore, Frame("reply", line.n))
  <2>1. line.tag \in Prompt
    BY <1>5 DEF Prompt
  <2>2. Flight(toCore, toDaemon, "reply", Prompt, low, high)
          => Flight(toCore', toDaemon', "reply", Prompt, low, high)
    BY <1>1, <1>2, <1>3, <1>5, <2>1, FlightServed
  <2>3. Flight(toCore, toDaemon, "result", {"act"}, low, high)
          => Flight(toCore, toDaemon', "result", {"act"}, low, high)
    BY <1>1, FlightUnserved
  <2>4. Flight(toCore, toDaemon', "result", {"act"}, low, high)
          => Flight(toCore', toDaemon', "result", {"act"}, low, high)
    BY <1>1, <1>2, <1>3, <1>5, FlightBeside
  <2> QED BY <2>2, <2>3, <2>4
<1>6. CASE line.tag = "act" /\ toCore' = Append(toCore, Frame("result", line.n))
  <2>1. line.tag \in {"act"}
    BY <1>6
  <2>2. Flight(toCore, toDaemon, "result", {"act"}, low, high)
          => Flight(toCore', toDaemon', "result", {"act"}, low, high)
    BY <1>1, <1>2, <1>3, <1>6, <2>1, FlightServed
  <2>3. Flight(toCore, toDaemon, "reply", Prompt, low, high)
          => Flight(toCore, toDaemon', "reply", Prompt, low, high)
    BY <1>1, FlightUnserved
  <2>4. Flight(toCore, toDaemon', "reply", Prompt, low, high)
          => Flight(toCore', toDaemon', "reply", Prompt, low, high)
    BY <1>1, <1>2, <1>3, <1>6, FlightBeside
  <2> QED BY <2>2, <2>3, <2>4
<1>7. CASE line.tag = "hello" /\ toCore' = Append(Append(toCore, Frame("reply", line.n)), Frame("limb", line.n))
  <2> DEFINE mid == Append(toCore, Frame("reply", line.n))
  <2>1. line.tag \in Prompt /\ mid \in Seq(Frames)
    BY <1>1, <1>2, <1>7, AppendProperties DEF Prompt
  <2>2. Flight(toCore, toDaemon, "reply", Prompt, low, high)
          => Flight(mid, toDaemon', "reply", Prompt, low, high)
    BY <1>1, <1>2, <1>3, <2>1, FlightServed
  <2>3. Flight(toCore, toDaemon, "result", {"act"}, low, high)
          => Flight(toCore, toDaemon', "result", {"act"}, low, high)
    BY <1>1, FlightUnserved
  <2>4. Flight(toCore, toDaemon', "result", {"act"}, low, high)
          => Flight(mid, toDaemon', "result", {"act"}, low, high)
    BY <1>1, <1>2, <1>3, FlightBeside
  <2> HIDE DEF mid
  <2>5. Flight(mid, toDaemon', "reply", Prompt, low, high)
          => Flight(Append(mid, Frame("limb", line.n)), toDaemon', "reply", Prompt, low, high)
    BY <1>1, <1>2, <1>3, <2>1, FlightBeside
  <2>6. Flight(mid, toDaemon', "result", {"act"}, low, high)
          => Flight(Append(mid, Frame("limb", line.n)), toDaemon', "result", {"act"}, low, high)
    BY <1>1, <1>2, <1>3, <2>1, FlightBeside
  <2>7. toCore' = Append(mid, Frame("limb", line.n))
    BY <1>7 DEF mid
  <2> QED BY <2>2, <2>3, <2>4, <2>5, <2>6, <2>7
<1>8. \/ toCore' = toCore
      \/ line.tag = "ask" /\ toCore' = Append(toCore, Frame("reply", line.n))
      \/ line.tag = "act" /\ toCore' = Append(toCore, Frame("result", line.n))
      \/ line.tag = "hello" /\ toCore' = Append(Append(toCore, Frame("reply", line.n)), Frame("limb", line.n))
  <2>1. toCore' = toCore \/ toCore' = toCore \o Answers(line)
    BY DEF Serve
  <2>2. line.tag = "ask" => toCore \o Answers(line) = Append(toCore, Frame("reply", line.n))
    BY <1>1, <1>2, AppendIsConcat DEF Answers
  <2>3. line.tag = "act" => toCore \o Answers(line) = Append(toCore, Frame("result", line.n))
    BY <1>1, <1>2, AppendIsConcat DEF Answers
  <2>4. line.tag = "hello" => toCore \o Answers(line) = Append(Append(toCore, Frame("reply", line.n)), Frame("limb", line.n))
    <3>1. <<Frame("reply", line.n), Frame("limb", line.n)>> = Append(<<Frame("reply", line.n)>>, Frame("limb", line.n))
      OBVIOUS
    <3>2. toCore \o Append(<<Frame("reply", line.n)>>, Frame("limb", line.n)) =
            Append(toCore \o <<Frame("reply", line.n)>>, Frame("limb", line.n))
      <4>1. <<Frame("reply", line.n)>> \in Seq(Frames)
        BY <1>2
      <4> QED BY <1>1, <1>2, <4>1, AppendToConcat
    <3>3. toCore \o <<Frame("reply", line.n)>> = Append(toCore, Frame("reply", line.n))
      BY <1>1, <1>2, AppendIsConcat
    <3> QED BY <3>1, <3>2, <3>3 DEF Answers
  <2> QED BY <1>2, <2>1, <2>2, <2>3, <2>4
<1> QED BY <1>4, <1>5, <1>6, <1>7, <1>8

(***************************************************************************)
(* Every step keeps the flights of replies and of results, and the answer  *)
(* taken is one of them: it lags no more than what was missed.             *)
(***************************************************************************)
LEMMA FlightNext ==
  ASSUME IInv, [Next]_vars PROVE Replies' /\ Results' /\ LagBounded'
<1> USE Numbers
<1>1. /\ TypeOK /\ Turns /\ Replies /\ Results /\ LagBounded
      /\ toCore \in Seq(Frames) /\ toDaemon \in Seq(Line)
      /\ asks \in 0 .. MaxAsks /\ acts \in 0 .. asks /\ asks \in Nat /\ acts \in Nat /\ 1 \in Int
      /\ missed \in [reply : Nat, result : Nat]
      /\ taken \in [tag : {"reply", "result"}, of : Nat, for : Nat]
  <2>1. TypeOK /\ Turns /\ Replies /\ Results /\ LagBounded
    BY DEF IInv
  <2>2. /\ toCore \in Seq(Frames) /\ toDaemon \in Seq(Line) /\ missed \in [reply : Nat, result : Nat]
        /\ asks \in 0 .. MaxAsks /\ acts \in 0 .. asks
        /\ taken \in [tag : {"reply", "result"}, of : Number, for : Number]
    BY <2>1 DEF TypeOK, Line
  <2>3. asks \in Nat /\ acts \in Nat
    BY <2>2
  <2>4. taken \in [tag : {"reply", "result"}, of : Nat, for : Nat]
    BY <2>2
  <2>5. 1 \in Int
    OBVIOUS
  <2> QED BY <2>1, <2>2, <2>3, <2>4, <2>5
<1>2. /\ OldestReply \in Int /\ OldestReply <= asks + 1
      /\ OldestResult \in Int /\ OldestResult <= acts + 1
  <2>1. PICK a \in Nat, m \in Nat : a = asks /\ m = missed.reply
    BY <1>1
  <2>2. PICK b \in Nat, k \in Nat : b = acts /\ k = missed.result
    BY <1>1
  <2>3. OldestReply \in {a - m, a - m + 1}
    BY <2>1 DEF OldestReply
  <2>4. OldestResult \in {b - k, b - k + 1}
    BY <2>2 DEF OldestResult
  <2> QED BY <2>1, <2>2, <2>3, <2>4
<1>3. toCore # <<>> => /\ Len(toCore) \in Nat \ {0} /\ 1 \in 0 .. Len(toCore) /\ 1 \in 1 .. Len(toCore)
                        /\ Head(toCore) = toCore[1] /\ toCore[1].n \in Nat
                        /\ Tail(toCore) = SubSeq(toCore, 1 + 1, Len(toCore))
  <2>1. ASSUME toCore # <<>>
        PROVE  /\ Len(toCore) \in Nat \ {0} /\ Head(toCore) = toCore[1] /\ toCore[1] \in Frames
               /\ Tail(toCore) = SubSeq(toCore, 2, Len(toCore))
    BY <1>1, <2>1, TailOf
  <2>2. ASSUME toCore # <<>> PROVE toCore[1].n \in Nat /\ 1 \in 0 .. Len(toCore) /\ 1 \in 1 .. Len(toCore)
    <3>1. toCore[1] \in Frames /\ Len(toCore) \in Nat \ {0}
      BY <2>1, <2>2
    <3>2. toCore[1].n \in Number
      BY <3>1 DEF Frames
    <3>3. toCore[1].n \in Nat
      BY <3>2
    <3>4. \A n \in Nat \ {0} : 1 \in 0 .. n /\ 1 \in 1 .. n
      OBVIOUS
    <3> QED BY <3>1, <3>3, <3>4
  <2>3. 1 + 1 = 2
    OBVIOUS
  <2> QED BY <2>1, <2>2, <2>3
\* What was read first is gone, answers to others among it.
<1>4. ASSUME NEW k \in 0 .. Len(toCore)
      PROVE  LET rest == SubSeq(toCore, k + 1, Len(toCore)) IN
             /\ rest \in Seq(Frames)
             /\ Flight(rest, toDaemon, "reply", Prompt, OldestReply, asks)
             /\ Flight(rest, toDaemon, "result", {"act"}, OldestResult, acts)
             /\ Flight(rest, toDaemon, "result", {"act"}, 1, acts)
  BY <1>1, <1>2, SuffixOf, FlightSuffix DEF Replies, Results
\* The steps that do not touch the wires.
<1>5. ASSUME UNCHANGED <<toCore, toDaemon, asks, acts>>, OldestReply' = OldestReply, OldestResult' = OldestResult
      PROVE  Replies' /\ Results'
  BY <1>1, <1>5 DEF Replies, Results
\* The steps that read from the wire and take no answer.
<1>6. ASSUME NEW k \in 0 .. Len(toCore), toCore' = SubSeq(toCore, k + 1, Len(toCore)),
             UNCHANGED <<toDaemon, asks, acts>>, OldestReply' = OldestReply, OldestResult' = OldestResult
      PROVE  Replies' /\ Results'
  BY <1>4, <1>6 DEF Replies, Results
\* The steps that ask.
<1>7. ASSUME NEW caller \in Query, Ask(caller), asks < MaxAsks, UNCHANGED <<toCore, acts, missed, result>>,
             pc \notin Query, pc = "act" => result # 0
      PROVE  Replies' /\ Results'
  <2>1. asks' = asks + 1 /\ pc' = caller
    BY <1>1, <1>7, AskType
  <2>2. OldestReply' = OldestReply /\ OldestResult' = OldestResult
    BY <1>1, <1>7, <2>1 DEF OldestReply, OldestResult, Query
  <2>3. /\ Flight(toCore, toDaemon', "reply", Prompt, OldestReply, asks')
        /\ Flight(toCore, toDaemon', "result", {"act"}, OldestResult, acts)
        /\ Flight(toCore, toDaemon', "result", {"act"}, 1, acts)
    BY <1>1, <1>2, <1>7, AskFlight DEF Replies, Results
  <2> QED BY <1>7, <2>2, <2>3 DEF Replies, Results
\* The answer that is taken for the one to the prompt in hand.
<1>8. ASSUME pc \in Query, toCore # <<>>, Head(toCore).tag = "reply", Take("reply", asks), UNCHANGED missed
      PROVE  /\ LagBounded'
             /\ \A k \in 1 .. Len(toCore) :
                  Flight(SubSeq(toCore, k + 1, Len(toCore)), toDaemon, "reply", Prompt, OldestReply + 1, asks)
  <2>1. OldestReply <= toCore[1].n /\ toCore[1].n <= asks
    BY <1>1, <1>3, <1>8 DEF Replies, Flight, Within
  <2>2. OldestReply = asks - missed.reply
    BY <1>1, <1>8 DEF OldestReply
  <2>3. taken' = [tag |-> "reply", of |-> toCore[1].n, for |-> asks]
    BY <1>3, <1>8 DEF Take
  <2>4. LagBounded'
    BY <1>1, <1>3, <1>8, <2>1, <2>2, <2>3 DEF LagBounded
  <2>5. ASSUME NEW k \in 1 .. Len(toCore)
        PROVE  Flight(SubSeq(toCore, k + 1, Len(toCore)), toDaemon, "reply", Prompt, OldestReply + 1, asks)
    <3>1. toCore[1].tag = "reply"
      BY <1>3, <1>8
    <3>2. Flight(toCore, toDaemon, "reply", Prompt, OldestReply, asks)
      BY <1>1 DEF Replies
    <3>3. PICK low \in Int, high \in Int : low = OldestReply /\ high = asks
      BY <1>1, <1>2
    <3>4. Flight(toCore, toDaemon, "reply", Prompt, low, high)
      BY <3>2, <3>3
    <3>5. toCore \in Seq(Frames) /\ toDaemon \in Seq(Line)
      BY <1>1
    <3>6. Flight(SubSeq(toCore, k + 1, Len(toCore)), toDaemon, "reply", Prompt, low + 1, high)
      BY <3>1, <3>4, <3>5, FlightTaken
    <3> QED BY <3>3, <3>6
  <2> QED BY <2>4, <2>5
<1>9. ASSUME UNCHANGED taken, UNCHANGED missed \/ missed' = [missed EXCEPT !.reply = @ + 1]
               \/ missed' = [missed EXCEPT !.result = @ + 1]
      PROVE  LagBounded'
  <2>1. missed'[taken.tag] >= missed[taken.tag]
    BY <1>1, <1>9
  <2> QED BY <1>1, <1>9, <2>1 DEF LagBounded
<1>10. CASE Boot
  BY <1>1, <1>7, <1>9, <1>10 DEF Boot, Room, Query
<1>11. CASE Key
  <2>1. PICK caller \in {"utterance", "retry", "dream"} : Ask(caller)
    BY <1>11 DEF Key
  <2> QED BY <1>1, <1>7, <1>9, <1>11, <2>1 DEF Key, Room, Query, fates
<1>12. CASE QueryPoll
  <2>1. OldestReply' = OldestReply /\ OldestResult' = OldestResult
    BY <1>12 DEF QueryPoll, requests, OldestReply, OldestResult
  <2> QED BY <1>3, <1>6, <1>9, <1>12, <2>1 DEF QueryPoll, requests
\* An answer after which no query is open.
<1>13. ASSUME Answered, pc' \notin Query \cup {"act"}, UNCHANGED <<result, toDaemon, asks, acts, missed>>
       PROVE  Replies' /\ Results' /\ LagBounded'
  <2>1. OldestReply' = OldestReply + 1 /\ OldestResult' = OldestResult
    BY <1>1, <1>13 DEF Answered, OldestReply, OldestResult, Query
  <2>2. toCore' = SubSeq(toCore, 1 + 1, Len(toCore))
    BY <1>3, <1>13 DEF Answered
  <2>3. LagBounded' /\ Flight(toCore', toDaemon, "reply", Prompt, OldestReply + 1, asks)
    BY <1>3, <1>8, <1>13, <2>2 DEF Answered
  <2>4. Results'
    BY <1>3, <1>4, <1>13, <2>1, <2>2 DEF Results, Answered
  <2> QED BY <1>13, <2>1, <2>3, <2>4 DEF Replies
<1>14. CASE AnsweredHello
  BY <1>13, <1>14 DEF AnsweredHello, Query
<1>15. CASE AnsweredInWords
  BY <1>13, <1>15 DEF AnsweredInWords, Query
<1>16. CASE AnsweredByOwnOrgan
  <2>1. /\ Answered /\ Ask("grounded") /\ asks < MaxAsks /\ pc = "utterance"
        /\ UNCHANGED <<result, acts, missed>>
    BY <1>1, <1>16 DEF AnsweredByOwnOrgan, Turns
  <2>2. asks' = asks + 1 /\ pc' = "grounded"
    BY <1>1, <2>1, AskType
  <2>3. OldestReply' = OldestReply + 1 /\ OldestResult' = OldestResult /\ OldestReply + 1 <= asks + 1
    BY <1>1, <2>1, <2>2 DEF OldestReply, OldestResult, Query
  <2>4. toCore' = SubSeq(toCore, 1 + 1, Len(toCore)) /\ toCore' \in Seq(Frames)
    BY <1>3, <1>4, <2>1 DEF Answered
  <2>5. LagBounded' /\ Flight(toCore', toDaemon, "reply", Prompt, OldestReply + 1, asks)
    BY <1>3, <1>8, <2>1, <2>4 DEF Answered
  <2>6. /\ Flight(toCore', toDaemon, "result", {"act"}, OldestResult, acts)
        /\ Flight(toCore', toDaemon, "result", {"act"}, 1, acts)
    BY <1>3, <1>4, <2>1, <2>4 DEF Answered
  <2>7. /\ Flight(toCore', toDaemon', "reply", Prompt, OldestReply + 1, asks')
        /\ Flight(toCore', toDaemon', "result", {"act"}, OldestResult, acts)
        /\ Flight(toCore', toDaemon', "result", {"act"}, 1, acts)
    <3>1. OldestReply + 1 \in Int
      BY <1>2
    <3>2. \A low \in Int :
            low <= asks + 1 /\ Flight(toCore', toDaemon, "reply", Prompt, low, asks)
              => Flight(toCore', toDaemon', "reply", Prompt, low, asks')
      BY <1>1, <2>1, <2>4, AskFlight
    <3>3. \A low \in Int :
            Flight(toCore', toDaemon, "result", {"act"}, low, acts)
              => Flight(toCore', toDaemon', "result", {"act"}, low, acts)
      BY <1>1, <2>1, <2>4, AskFlight
    <3> QED BY <1>1, <1>2, <2>3, <2>5, <2>6, <3>1, <3>2, <3>3
  <2> QED BY <2>1, <2>3, <2>5, <2>7 DEF Replies, Results
<1>17. CASE AnsweredByLimb
  <2>1. PICK k \in 1 .. Len(toCore) : toCore' = SubSeq(toCore, k + 1, Len(toCore))
    BY <1>17 DEF AnsweredByLimb
  <2>2. /\ pc = "utterance" /\ pc' = "act" /\ result' = 0 /\ acts' = acts + 1 /\ asks' = asks /\ missed' = missed
        /\ toCore # <<>> /\ Head(toCore).tag = "reply" /\ Take("reply", asks)
    BY <1>17 DEF AnsweredByLimb
  <2> DEFINE line == Frame("act", acts + 1)
  <2>3. toDaemon' = Append(toDaemon, line) /\ line \in Line /\ line.tag = "act" /\ line.n = acts + 1
    <3>1. acts + 1 \in Number
      BY <1>1, <2>2 DEF Turns
    <3> QED BY <1>17, <3>1, FrameType DEF AnsweredByLimb, Frame
  <2> HIDE DEF line
  <2>4. OldestReply' = OldestReply + 1 /\ OldestResult' = OldestResult
    BY <1>1, <2>2 DEF OldestReply, OldestResult, Query
  <2>5. LagBounded' /\ Flight(toCore', toDaemon, "reply", Prompt, OldestReply + 1, asks)
    BY <1>8, <2>1, <2>2 DEF Query
  <2>6. /\ toCore' \in Seq(Frames)
        /\ Flight(toCore', toDaemon, "result", {"act"}, OldestResult, acts)
        /\ Flight(toCore', toDaemon, "result", {"act"}, 1, acts)
    <3>1. k \in 0 .. Len(toCore)
      BY <1>3, <2>2
    <3> QED BY <1>4, <2>1, <3>1
  <2>7. Flight(toCore', toDaemon', "reply", Prompt, OldestReply + 1, asks)
    <3>1. Flight(toCore', Append(toDaemon, line), "reply", Prompt, OldestReply + 1,
                 IF line.tag \in Prompt THEN asks + 1 ELSE asks)
      <4>1. OldestReply + 1 \in Int /\ asks \in Int /\ line.tag \notin Prompt
        BY <1>1, <1>2, <2>3 DEF Prompt
      <4> QED BY <1>1, <2>3, <2>5, <2>6, <4>1, FlightAsked
    <3> QED BY <2>3, <3>1 DEF Prompt
  <2>8. /\ Flight(toCore', toDaemon', "result", {"act"}, OldestResult, acts + 1)
        /\ Flight(toCore', toDaemon', "result", {"act"}, 1, acts + 1)
    <3>1. ASSUME NEW low \in Int, low <= acts + 1, Flight(toCore', toDaemon, "result", {"act"}, low, acts)
          PROVE  Flight(toCore', toDaemon', "result", {"act"}, low, acts + 1)
      <4>1. Flight(toCore', Append(toDaemon, line), "result", {"act"}, low,
                   IF line.tag \in {"act"} THEN acts + 1 ELSE acts)
        <5>1. acts \in Int /\ line.tag \in {"act"}
          BY <1>1, <2>3
        <5> QED BY <1>1, <2>3, <2>6, <3>1, <5>1, FlightAsked
      <4> QED BY <2>3, <4>1
    <3> QED BY <1>1, <1>2, <2>6, <3>1
  <2> QED BY <2>2, <2>4, <2>5, <2>7, <2>8 DEF Replies, Results
<1>18. CASE QueryTimeout
  <2>1. OldestReply' = OldestReply /\ OldestResult' = OldestResult
    <3>1. /\ pc \in Query /\ pc' \notin Query /\ pc # "act" /\ pc' # "act"
          /\ asks' = asks /\ acts' = acts
          /\ missed' = [missed EXCEPT !.reply = @ + 1]
      BY <1>18 DEF QueryTimeout, Query
    <3>2. missed'.reply = missed.reply + 1 /\ missed'.result = missed.result
      BY <1>1, <3>1, OneMoreMissed
    <3>3. OldestReply = asks - missed.reply + 0 /\ OldestReply' = asks - (missed.reply + 1) + 1
      BY <3>1, <3>2 DEF OldestReply
    <3>4. OldestResult' = OldestResult
      BY <3>1, <3>2 DEF OldestResult
    <3>5. missed.reply \in Int /\ asks \in Int
      BY <1>1
    <3> QED BY <3>3, <3>4, <3>5
  <2> QED BY <1>5, <1>9, <1>18, <2>1 DEF QueryTimeout, wires
<1>19. CASE ActPoll /\ Head(toCore).tag # "result"
  <2>1. OldestReply' = OldestReply /\ OldestResult' = OldestResult
    BY <1>19 DEF ActPoll, OldestReply, OldestResult
  <2> QED BY <1>3, <1>6, <1>9, <1>19, <2>1 DEF ActPoll
<1>20. CASE ActPoll /\ Head(toCore).tag = "result"
  <2>1. /\ pc = "act" /\ pc' = "act" /\ toCore # <<>> /\ toCore' = SubSeq(toCore, 1 + 1, Len(toCore))
        /\ UNCHANGED <<toDaemon, asks, acts, missed>> /\ result' = toCore[1].n
        /\ taken' = [tag |-> "result", of |-> toCore[1].n, for |-> acts]
    BY <1>3, <1>20 DEF ActPoll, Take
  <2>2. OldestResult <= toCore[1].n /\ 1 <= toCore[1].n /\ toCore[1].n <= acts
    BY <1>1, <1>3, <1>20, <2>1 DEF Results, Flight, Within
  <2>3. LagBounded'
    <3>1. acts - missed.result <= OldestResult
      BY <1>1 DEF OldestResult
    <3> QED BY <1>1, <1>2, <1>3, <2>1, <2>2, <3>1 DEF LagBounded
  <2>4. Flight(toCore', toDaemon, "result", {"act"}, OldestResult + 1, acts)
    <3>1. 1 \in 1 .. Len(toCore) /\ toCore[1].tag = "result" /\ acts \in Int
      BY <1>1, <1>3, <1>20, <2>1
    <3>2. Flight(toCore, toDaemon, "result", {"act"}, OldestResult, acts)
      BY <1>1 DEF Results
    <3>3. Flight(SubSeq(toCore, 1 + 1, Len(toCore)), toDaemon, "result", {"act"}, OldestResult + 1, acts)
      BY <1>1, <1>2, <3>1, <3>2, FlightTaken
    <3> QED BY <2>1, <3>3
  <2>5. /\ toCore' \in Seq(Frames) /\ Flight(toCore', toDaemon, "result", {"act"}, 1, acts)
        /\ Flight(toCore', toDaemon, "result", {"act"}, OldestResult, acts)
        /\ Flight(toCore', toDaemon, "reply", Prompt, OldestReply, asks)
    BY <1>3, <1>4, <2>1
  <2>6. OldestReply' = OldestReply /\ OldestResult' \in {OldestResult, OldestResult + 1}
    BY <1>1, <1>3, <2>1, <2>2 DEF OldestReply, OldestResult, Query
  <2> QED BY <2>1, <2>3, <2>4, <2>5, <2>6 DEF Replies, Results
<1>21. CASE ActEnds
  <2>1. CASE Ask("grounded")
    BY <1>1, <1>7, <1>9, <1>21, <2>1 DEF ActEnds, Turns, Query
  <2>2. CASE pc' = "loop" /\ UNCHANGED <<asks, toDaemon>>
    <3>1. OldestReply' = OldestReply /\ OldestResult' = OldestResult
      BY <1>21, <2>2 DEF ActEnds, OldestReply, OldestResult, Query
    <3> QED BY <1>5, <1>9, <1>21, <2>2, <3>1 DEF ActEnds
  <2> QED BY <1>21, <2>1, <2>2 DEF ActEnds
<1>22. CASE ActTimeout
  <2>1. OldestReply' = OldestReply /\ OldestResult' = OldestResult
    BY <1>1, <1>22 DEF ActTimeout, OldestReply, OldestResult, Query
  <2> QED BY <1>5, <1>9, <1>22, <2>1 DEF ActTimeout, wires
<1>23. CASE WindowPoll
  <2>1. OldestReply' = OldestReply /\ OldestResult' = OldestResult
    BY <1>23 DEF WindowPoll, requests, OldestReply, OldestResult
  <2> QED BY <1>3, <1>6, <1>9, <1>23, <2>1 DEF WindowPoll, requests
<1>24. CASE WindowEnds
  BY <1>1, <1>7, <1>9, <1>24 DEF WindowEnds, Turns, Query
<1>25. CASE Pop
  <2>1. CASE Room /\ Ask("utterance")
    BY <1>1, <1>7, <1>9, <1>25, <2>1 DEF Pop, Room, Query
  <2>2. CASE UNCHANGED <<pc, asks, toDaemon>>
    <3>1. OldestReply' = OldestReply /\ OldestResult' = OldestResult
      BY <1>25, <2>2 DEF Pop, OldestReply, OldestResult
    <3> QED BY <1>5, <1>9, <1>25, <2>2, <3>1 DEF Pop
  <2> QED BY <1>25, <2>1, <2>2 DEF Pop
<1>26. CASE Pump
  <2>1. PICK k \in 1 .. Len(toCore) : toCore' = SubSeq(toCore, k + 1, Len(toCore))
    BY <1>26 DEF Pump
  <2>2. OldestReply' = OldestReply /\ OldestResult' = OldestResult
    BY <1>26 DEF Pump, requests, OldestReply, OldestResult
  <2>3. k \in 0 .. Len(toCore)
    BY <1>3, <1>26 DEF Pump
  <2> QED BY <1>6, <1>9, <1>26, <2>1, <2>2, <2>3 DEF Pump, requests
<1>27. CASE PowerOff
  <2>1. OldestReply' = OldestReply /\ OldestResult' = OldestResult
    <3>1. /\ pc' = "off" /\ asks' = asks /\ acts' = acts /\ result' = result
          /\ missed' = IF pc \in Query THEN [missed EXCEPT !.reply = @ + 1]
                       ELSE IF pc = "act" /\ result = 0 THEN [missed EXCEPT !.result = @ + 1]
                       ELSE missed
      BY <1>27 DEF PowerOff
    <3>2. missed.reply \in Int /\ missed.result \in Int /\ asks \in Int /\ acts \in Int
      BY <1>1
    <3>3. OldestReply' = asks - missed'.reply + 1 /\ OldestResult' = acts - missed'.result + 1
      BY <3>1 DEF OldestReply, OldestResult, Query
    <3>4. CASE pc \in Query
      <4>1. missed'.reply = missed.reply + 1 /\ missed'.result = missed.result
        BY <1>1, <3>1, <3>4, OneMoreMissed
      <4>2. OldestReply = asks - missed.reply + 0 /\ OldestResult = acts - missed.result + 1
        BY <3>4 DEF OldestReply, OldestResult, Query
      <4> QED BY <3>2, <3>3, <4>1, <4>2
    <3>5. CASE pc = "act" /\ result = 0
      <4>1. missed'.result = missed.result + 1 /\ missed'.reply = missed.reply
        BY <1>1, <3>1, <3>5, OneMoreMissed DEF Query
      <4>2. OldestReply = asks - missed.reply + 1 /\ OldestResult = acts - missed.result + 0
        BY <3>5 DEF OldestReply, OldestResult, Query
      <4> QED BY <3>2, <3>3, <4>1, <4>2
    <3>6. CASE pc \notin Query /\ ~(pc = "act" /\ result = 0)
      <4>1. missed' = missed
        BY <3>1, <3>6
      <4>2. OldestReply = asks - missed.reply + 1 /\ OldestResult = acts - missed.result + 1
        BY <3>6 DEF OldestReply, OldestResult
      <4> QED BY <3>3, <4>1, <4>2
    <3> QED BY <3>4, <3>5, <3>6
  <2>2. LagBounded'
    BY <1>9, <1>27 DEF PowerOff
  <2> QED BY <1>5, <1>27, <2>1, <2>2 DEF PowerOff, wires
<1>28. CASE Serve
  <2>1. OldestReply' = OldestReply /\ OldestResult' = OldestResult
    BY <1>28 DEF Serve, requests, OldestReply, OldestResult
  <2>2. /\ Flight(toCore', toDaemon', "reply", Prompt, OldestReply, asks)
        /\ Flight(toCore', toDaemon', "result", {"act"}, OldestResult, acts)
        /\ Flight(toCore', toDaemon', "result", {"act"}, 1, acts)
    <3>1. asks \in Int /\ acts \in Int
      BY <1>1
    <3> QED BY <1>1, <1>2, <1>28, <3>1, ServeFlight DEF Replies, Results
  <2> QED BY <1>9, <1>28, <2>1, <2>2 DEF Serve, requests, Replies, Results
<1>29. CASE Sense
  <2>1. OldestReply' = OldestReply /\ OldestResult' = OldestResult
    BY <1>29 DEF Sense, requests, OldestReply, OldestResult
  <2>2. PICK tag \in {"heard", "saw"} : toCore' = Append(toCore, Frame(tag, senses + 1))
    BY <1>29 DEF Sense
  <2>3. Frame(tag, senses + 1) \in Frames /\ Frame(tag, senses + 1).tag \notin {"reply", "result"}
    <3>1. senses + 1 \in Number
      BY <1>1, <1>29 DEF Sense, Number, TypeOK
    <3> QED BY <3>1, FrameType DEF Sensory, Frame
  <2>4. /\ Flight(toCore', toDaemon, "reply", Prompt, OldestReply, asks)
        /\ Flight(toCore', toDaemon, "result", {"act"}, OldestResult, acts)
        /\ Flight(toCore', toDaemon, "result", {"act"}, 1, acts)
    BY <1>1, <1>2, <2>2, <2>3, FlightBeside DEF Replies, Results
  <2> QED BY <1>9, <1>29, <2>1, <2>4 DEF Sense, requests, Replies, Results
<1>30. CASE Drop
  <2>1. OldestReply' = OldestReply /\ OldestResult' = OldestResult
    BY <1>30 DEF Drop, requests, OldestReply, OldestResult
  <2>2. toDaemon' = <<>> /\ (toCore' = toCore \/ toCore' = <<>>)
    BY <1>30 DEF Drop
  <2>3. /\ Flight(toCore', toDaemon', "reply", Prompt, OldestReply, asks)
        /\ Flight(toCore', toDaemon', "result", {"act"}, OldestResult, acts)
        /\ Flight(toCore', toDaemon', "result", {"act"}, 1, acts)
    BY <1>1, <1>2, <2>2, FlightCut DEF Replies, Results
  <2> QED BY <1>9, <1>30, <2>1, <2>3 DEF Drop, requests, Replies, Results
<1>31. CASE UNCHANGED vars
  <2>1. OldestReply' = OldestReply /\ OldestResult' = OldestResult
    BY <1>31 DEF vars, requests, OldestReply, OldestResult
  <2> QED BY <1>5, <1>9, <1>31, <2>1 DEF vars, wires, requests
<1> QED BY <1>10, <1>11, <1>12, <1>14, <1>15, <1>16, <1>17, <1>18, <1>19, <1>20, <1>21, <1>22, <1>23,
           <1>24, <1>25, <1>26, <1>27, <1>28, <1>29, <1>30, <1>31 DEF Next, CoreStep, QueryEnds
--------------------------------------------------------------------------------
(***************************************************************************)
(* IInv is an inductive invariant.                                         *)
(***************************************************************************)
LEMMA InitIInv == Init => IInv
<1> SUFFICES ASSUME Init PROVE IInv
  OBVIOUS
<1>1. TypeOK
  <2>1. <<>> \in Seq(Frames) /\ <<>> \in Seq([tag : {"hello", "ask", "act"}, n : Number]) /\ DOMAIN <<>> = {}
    BY EmptySeq
  <2>2. 0 \in Number /\ 0 \in 0 .. MaxAsks /\ 0 \in 0 .. MaxSenses
    BY Numbers DEF Number
  <2> QED BY <2>1, <2>2 DEF Init, TypeOK
<1>2. Turns
  BY DEF Init, Turns
<1>3. LagBounded
  BY DEF Init, LagBounded
<1>4. ASSUME NEW answer, NEW lines, NEW low, NEW high PROVE Flight(toCore, toDaemon, answer, lines, low, high)
  <2>1. Len(<<>>) = 0 /\ 1 .. 0 = {}
    BY EmptySeq
  <2> QED BY <2>1 DEF Init, Flight, Within, Rising, Before
<1> QED BY <1>1, <1>2, <1>3, <1>4 DEF IInv, Replies, Results

\* No step leaves the first invariant.
LEMMA NextIInv == IInv /\ [Next]_vars => IInv'
  BY TypeNext, FlightNext DEF IInv

(***************************************************************************)
(* Type correctness.                                                       *)
(***************************************************************************)
THEOREM TypeCorrect == Spec => []TypeOK
<1>1. IInv => TypeOK
  BY DEF IInv
<1> QED BY InitIInv, NextIInv, <1>1, PTL DEF Spec

(***************************************************************************)
(* However many prompts, timeouts, power-offs and drops of the wire there  *)
(* have been: an answer taken by model_m_query or execute_limb was asked   *)
(* for no more requests ago than got no answer.                            *)
(***************************************************************************)
THEOREM LagIsBounded == Spec => []LagBounded
<1>1. IInv => LagBounded
  BY DEF IInv
<1> QED BY InitIInv, NextIInv, <1>1, PTL DEF Spec

(***************************************************************************)
(* Only the acquisition window, the drain before an AX and, for offers,    *)
(* the wait for a limb discard what was sensed.                            *)
(***************************************************************************)
THEOREM ThinkingKeeps == Spec => ThinkingKeepsSenses
<1>1. ASSUME [Next]_vars, NEW f \in lost' \ lost
      PROVE  pc = "window" \/ acts' = acts + 1 \/ (pc = "act" /\ f.tag = "limb")
  <2>1. CASE AnsweredByLimb
    BY <2>1 DEF AnsweredByLimb
  <2>2. CASE WindowPoll
    BY <2>2 DEF WindowPoll
  <2>3. CASE ActPoll
    BY <1>1, <2>3 DEF ActPoll
  <2>4. ASSUME lost' = lost PROVE FALSE
    BY <1>1, <2>4
  <2>5. CASE Boot \/ Key \/ QueryPoll \/ QueryTimeout
    BY <2>4, <2>5 DEF Boot, Key, QueryPoll, QueryTimeout, fates
  <2>6. CASE AnsweredHello \/ AnsweredInWords \/ AnsweredByOwnOrgan \/ ActEnds \/ ActTimeout
    BY <2>4, <2>6 DEF AnsweredHello, AnsweredInWords, AnsweredByOwnOrgan, ActEnds, ActTimeout, fates
  <2>7. CASE WindowEnds \/ Pop \/ Pump \/ PowerOff
    BY <2>4, <2>7 DEF WindowEnds, Pop, Pump, PowerOff, fates
  <2>8. CASE Serve \/ Sense \/ Drop \/ UNCHANGED vars
    BY <2>4, <2>8 DEF Serve, Sense, Drop, vars, fates
  <2> QED BY <1>1, <2>1, <2>2, <2>3, <2>5, <2>6, <2>7, <2>8 DEF Next, CoreStep, QueryEnds
<1>2. [Next]_vars => [\A f \in lost' \ lost :
                        \/ pc = "window"
                        \/ acts' = acts + 1
                        \/ pc = "act" /\ f.tag = "limb"]_vars
  BY <1>1
<1> QED BY <1>2, PTL DEF Spec, ThinkingKeepsSenses
--------------------------------------------------------------------------------
(***************************************************************************)
(* Where what was sensed is.                                               *)
(***************************************************************************)
Sensed == Tagged(Sensory)
OnWire == ToSet(toCore) \cap Sensed
Everything == OnWire \cup ToSet(pending) \cup handled \cup lost \cup gone

Apart(a, b, c, d, e) ==
  /\ a \cap b = {} /\ (a \cup b) \cap c = {}
  /\ (a \cup b \cup c) \cap d = {} /\ (a \cup b \cup c \cup d) \cap e = {}

\* Each frame in one place, and there once.
Places ==
  /\ Distinct(toCore, Sensed) /\ Distinct(pending, Sensed)
  /\ Apart(OnWire, ToSet(pending), handled, lost, gone)

\* An offer carries the number of a hello that was served before those on the
\* wire.
Offers ==
  \A f \in Everything : f.tag = "limb" =>
    /\ f.n <= asks
    /\ \A line \in ToSet(toDaemon) : line.tag = "hello" => f.n < line.n

\* Ear and lens have numbered what they sent.
Words == {f.n : f \in {g \in Everything : g.tag # "limb"}} = 1 .. senses

\* The inductive invariant for what was sensed.
SInv == IInv /\ Places /\ Offers /\ Words

(***************************************************************************)
(* What moves from one place to another leaves the places apart.           *)
(***************************************************************************)
LEMMA FromWire ==
  ASSUME NEW a, NEW b, NEW c, NEW d, NEW e, NEW x, a \cap x = {}, Apart(a \cup x, b, c, d, e)
  PROVE  /\ Apart(a, b \cup x, c, d, e) /\ Apart(a, b, c \cup x, d, e)
         /\ Apart(a, b, c, d \cup x, e) /\ Apart(a, b, c, d, e \cup x)
  BY DEF Apart

\* Frames that go from the core's queue to the window, or are shed, stay apart from the others.
LEMMA FromPending ==
  ASSUME NEW a, NEW b, NEW c, NEW d, NEW e, NEW x, b \cap x = {}, Apart(a, b \cup x, c, d, e)
  PROVE  /\ Apart(a, b, c \cup x, d, e) /\ Apart(a, b, c, d, e \cup x)
  BY DEF Apart

(***************************************************************************)
(* What is sensory, as a set.                                              *)
(***************************************************************************)
LEMMA SensedFrames ==
  /\ Senses = Frames \cap Sensed
  /\ \A f \in Frames : IsSensory(f) <=> f \in Sensed
  /\ \A s \in Seq(Frames) : SensoryIn(s) = ToSet(s) \cap Sensed
<1>1. \A f \in Frames : IsSensory(f) <=> f \in Sensed
  <2>1. ASSUME NEW f \in Frames PROVE IsSensory(f) <=> f \in Sensed
    <3>1. f = [tag |-> f.tag, n |-> f.n] /\ f.n \in Nat
      BY Numbers DEF Frames
    <3>2. f.tag \in Sensory => [tag |-> f.tag, n |-> f.n] \in Sensed
      BY <3>1 DEF Sensed, Tagged
    <3>3. f \in Sensed => f.tag \in Sensory
      BY DEF Sensed, Tagged
    <3> QED BY <3>1, <3>2, <3>3 DEF IsSensory
  <2> QED BY <2>1
<1>2. \A s \in Seq(Frames) : SensoryIn(s) = ToSet(s) \cap Sensed
  BY <1>1, ElementsOf DEF SensoryIn
<1> QED BY <1>1, <1>2 DEF Senses

(***************************************************************************)
(* Offers and words depend on what there is, not on where.                 *)
(***************************************************************************)
LEMMA OnlyMoved ==
  ASSUME TypeOK, Offers, Words, Everything \subseteq Frames,
         Everything' = Everything, senses' = senses, asks' \in {asks, asks + 1},
         \A line \in ToSet(toDaemon') : line.tag = "hello" => line \in ToSet(toDaemon) \/ line.n = asks + 1
  PROVE  Offers' /\ Words'
<1>1. Words'
  BY DEF Words
<1>2. asks \in Nat
  BY DEF TypeOK
<1>3. ASSUME NEW f \in Everything, f.tag = "limb"
      PROVE  f.n <= asks' /\ \A line \in ToSet(toDaemon') : line.tag = "hello" => f.n < line.n
  <2>1. f.n <= asks /\ f.n \in Nat
    BY <1>3, Numbers DEF Offers, Frames
  <2>2. ASSUME NEW line \in ToSet(toDaemon'), line.tag = "hello" PROVE f.n < line.n
    <3>1. CASE line \in ToSet(toDaemon)
      BY <1>3, <2>2, <3>1 DEF Offers
    <3>2. CASE line.n = asks + 1
      BY <1>2, <2>1, <3>2
    <3> QED BY <2>2, <3>1, <3>2
  <2> QED BY <1>2, <2>1, <2>2
<1> QED BY <1>1, <1>3 DEF Offers

\* While there is room for a request, its number is within the bound.
LEMMA RoomLeft == asks \in Nat /\ Room => asks < MaxAsks
  BY TetherAssumption DEF Room

\* A question greets, if at all, with a number that was not used before.
LEMMA AskLines ==
  ASSUME TypeOK, asks < MaxAsks, NEW caller, Ask(caller)
  PROVE  /\ asks' \in {asks, asks + 1}
         /\ \A line \in ToSet(toDaemon') : line.tag = "hello" => line \in ToSet(toDaemon) \/ line.n = asks + 1
<1>1. PICK line \in Line : toDaemon' = Append(toDaemon, line) /\ line.n = asks + 1
  BY AskType
<1>2. toDaemon \in Seq(Line) /\ asks' = asks + 1
  BY AskType DEF TypeOK, Line
<1>3. ToSet(toDaemon') = ToSet(toDaemon) \cup {line}
  BY <1>1, <1>2, SetAppend
<1> QED BY <1>1, <1>2, <1>3

(***************************************************************************)
(* Before an AX the answer in hand is the first of what is drained.        *)
(***************************************************************************)
LEMMA AllButReply ==
  ASSUME toCore \in Seq(Frames), toCore # <<>>, Head(toCore).tag = "reply", NEW k \in 1 .. Len(toCore)
  PROVE  SensoryIn(SubSeq(toCore, 2, k)) = ToSet(SubSeq(toCore, 1, k)) \cap Sensed
<1> DEFINE read == SubSeq(toCore, 1, k)
<1>1. PICK n \in Nat : n = Len(toCore)
  BY LenProperties
<1>2. /\ 1 \in Int /\ 2 \in Int /\ k \in Int /\ k \in 1 .. n
      /\ \A i \in 1 .. k : i \in 1 .. n
  BY <1>1
<1>3. \A i \in 1 .. k : toCore[i] \in Frames
  BY <1>1, <1>2, ElementOfSeq
<1>4. /\ read \in Seq(Frames) /\ Len(read) = (IF 1 <= k THEN k - 1 + 1 ELSE 0)
      /\ \A i \in 1 .. k - 1 + 1 : read[i] = toCore[1 + i - 1]
  BY <1>2, <1>3, SubSeqProperties
<1> HIDE DEF read
<1>5. Len(read) = k /\ \A i \in 1 .. k : read[i] = toCore[i]
  <2>1. \A i \in 1 .. k : i \in 1 .. k - 1 + 1 /\ 1 + i - 1 = i
    BY <1>2
  <2>2. Len(read) = k
    BY <1>2, <1>4
  <2> QED BY <1>4, <2>1, <2>2
<1>6. read # <<>>
  BY <1>2, <1>5, EmptySeq
<1>7. Head(read) = Head(toCore)
  <2>1. Head(read) = read[1] /\ Head(toCore) = toCore[1] /\ 1 \in 1 .. k
    BY <1>2, <1>4, <1>6, HeadTailProperties
  <2> QED BY <1>5, <2>1
<1>8. Tail(read) = SubSeq(toCore, 2, k)
  <2>1. Tail(read) \in Seq(Frames) /\ Len(Tail(read)) = k - 1 /\ \A i \in 1 .. k - 1 : Tail(read)[i] = toCore[i + 1]
    <3>1. \A i \in 1 .. k - 1 : i + 1 \in 1 .. k
      BY <1>2
    <3> QED BY <1>4, <1>5, <1>6, <3>1, HeadTailProperties
  <2>2. /\ SubSeq(toCore, 2, k) \in Seq(Frames)
        /\ Len(SubSeq(toCore, 2, k)) = (IF 2 <= k THEN k - 2 + 1 ELSE 0)
        /\ \A i \in 1 .. k - 2 + 1 : SubSeq(toCore, 2, k)[i] = toCore[2 + i - 1]
    <3>1. \A i \in 2 .. k : toCore[i] \in Frames
      BY <1>3
    <3> QED BY <1>2, <3>1, SubSeqProperties
  <2>3. Len(SubSeq(toCore, 2, k)) = k - 1
    BY <1>2, <2>2
  <2>4. \A i \in 1 .. k - 1 : i \in 1 .. k - 2 + 1 /\ 2 + i - 1 = i + 1
    BY <1>2
  <2>5. \A i \in 1 .. k - 1 : SubSeq(toCore, 2, k)[i] = toCore[i + 1]
    BY <2>2, <2>4
  <2> QED BY <2>1, <2>2, <2>3, <2>5, SeqEqual
<1>9. ToSet(read) = {Head(read)} \cup ToSet(Tail(read)) /\ Tail(read) \in Seq(Frames)
  BY <1>4, <1>6, SetOfTail, HeadTailProperties
<1>10. Head(toCore) \notin Sensed
  BY DEF Sensed, Tagged, Sensory
<1>11. SensoryIn(Tail(read)) = ToSet(Tail(read)) \cap Sensed
  BY <1>9, SensedFrames
<1> QED BY <1>7, <1>8, <1>9, <1>10, <1>11 DEF read

(***************************************************************************)
(* A hello is answered with an offer that there was not, and which comes   *)
(* before those of the hellos behind it; no other answer is sensory.       *)
(***************************************************************************)
LEMMA ServeSensed ==
  ASSUME TypeOK, Replies, Places, Offers, Words, Everything \subseteq Frames,
         toCore \in Seq(Frames), toDaemon \in Seq(Line), asks \in Nat, Serve
  PROVE  Places' /\ Offers' /\ Words'
<1> DEFINE line == Head(toDaemon)
           rest == Tail(toDaemon)
<1>1. /\ toDaemon # <<>> /\ toDaemon' = rest
      /\ UNCHANGED <<pending, handled, lost, gone, senses, asks>>
  BY DEF Serve, requests, fates
<1>2. PICK n \in Nat \ {0} : n = Len(toDaemon)
  BY <1>1, EmptySeq
<1>3. /\ line = toDaemon[1] /\ line \in Line /\ rest \in Seq(Line) /\ Len(rest) = n - 1
      /\ \A i \in 1 .. n - 1 : rest[i] = toDaemon[i + 1]
  BY <1>1, <1>2, TailOf, HeadTailProperties
<1>4. ToSet(rest) \subseteq ToSet(toDaemon) /\ line \in ToSet(toDaemon)
  BY <1>1, HeadParts, SetOfTail
<1>5. Places /\ Apart(OnWire, ToSet(pending), handled, lost, gone) /\ Distinct(toCore, Sensed)
  BY DEF Places
<1>6. line.n \in Number /\ line.tag \in {"hello", "ask", "act"}
  BY <1>3 DEF Line
<1>7. CASE toCore' = toCore
  <2>1. Places' /\ Everything' = Everything
    BY <1>1, <1>7 DEF Places, Everything, OnWire
  <2> QED BY <1>1, <1>4, <2>1, OnlyMoved
<1>8. ASSUME NEW f \in Frames, f \notin Sensed
      PROVE  /\ Append(toCore, f) \in Seq(Frames) /\ Distinct(Append(toCore, f), Sensed)
             /\ ToSet(Append(toCore, f)) \cap Sensed = OnWire
  <2>1. ToSet(Append(toCore, f)) = ToSet(toCore) \cup {f}
    BY SetAppend
  <2> QED BY <1>5, <1>8, <2>1, DistinctAppend, AppendProperties DEF OnWire
<1>9. /\ Frame("reply", line.n) \in Frames /\ Frame("result", line.n) \in Frames
      /\ Frame("reply", line.n) \notin Sensed /\ Frame("result", line.n) \notin Sensed
      /\ Frame("limb", line.n) \in Frames /\ Frame("limb", line.n) \in Sensed
  BY <1>6, FrameType, Numbers DEF Frame, Sensed, Tagged, Sensory
<1>10. CASE line.tag # "hello" /\ toCore' # toCore
  <2>1. PICK f \in Frames : toCore' = Append(toCore, f) /\ f \notin Sensed
    <3>1. toCore' = toCore \o Answers(line)
      BY <1>10 DEF Serve
    <3>2. toCore' = Append(toCore, Frame("reply", line.n)) \/ toCore' = Append(toCore, Frame("result", line.n))
      BY <1>6, <1>9, <1>10, <3>1, AppendIsConcat DEF Answers
    <3> QED BY <1>9, <3>2
  <2>2. Distinct(toCore', Sensed) /\ OnWire' = OnWire
    BY <1>8, <2>1 DEF OnWire
  <2>3. Places' /\ Everything' = Everything
    BY <1>1, <1>5, <2>2 DEF Places, Everything
  <2> QED BY <1>1, <1>4, <2>3, OnlyMoved
<1>11. CASE line.tag = "hello" /\ toCore' # toCore
  <2> DEFINE offer == Frame("limb", line.n)
             mid == Append(toCore, Frame("reply", line.n))
  <2>1. toCore' = Append(mid, offer)
    <3>1. toCore' = toCore \o <<Frame("reply", line.n), offer>>
      BY <1>11 DEF Serve, Answers
    <3>2. <<Frame("reply", line.n), offer>> = Append(<<Frame("reply", line.n)>>, offer)
      OBVIOUS
    <3>3. <<Frame("reply", line.n)>> \in Seq(Frames)
      BY <1>9
    <3>4. toCore \o Append(<<Frame("reply", line.n)>>, offer) = Append(toCore \o <<Frame("reply", line.n)>>, offer)
      BY <1>9, <3>3, AppendToConcat
    <3>5. toCore \o <<Frame("reply", line.n)>> = mid
      BY <1>9, AppendIsConcat
    <3> QED BY <3>1, <3>2, <3>4, <3>5
  <2>2. /\ mid \in Seq(Frames) /\ Distinct(mid, Sensed) /\ ToSet(mid) \cap Sensed = OnWire
    BY <1>8, <1>9
  <2> HIDE DEF mid
  <2>3. offer \notin Everything
    <3>1. ASSUME offer \in Everything PROVE FALSE
      <4>1. offer.tag = "limb" /\ offer.n = line.n /\ line.n \in Nat
        BY <1>6, Numbers DEF Frame
      <4>2. offer.n < line.n
        BY <1>4, <1>11, <3>1, <4>1 DEF Offers
      <4> QED BY <4>1, <4>2
    <3> QED BY <3>1
  <2>4. /\ offer \in Frames /\ offer \in Sensed /\ offer.tag = "limb" /\ offer.n = line.n
    BY <1>9 DEF Frame
  <2> HIDE DEF offer
  <2>5. Distinct(toCore', Sensed) /\ OnWire' = OnWire \cup {offer}
    <3>1. ToSet(toCore') = ToSet(mid) \cup {offer}
      BY <2>1, <2>2, <2>4, SetAppend
    <3>2. offer \notin ToSet(mid)
      BY <2>2, <2>3, <2>4 DEF Everything
    <3>3. Distinct(toCore', Sensed)
      BY <2>1, <2>2, <2>4, <3>2, DistinctAppend
    <3> QED BY <2>2, <2>4, <3>1, <3>3 DEF OnWire
  <2>6. Places'
    BY <1>1, <1>5, <2>3, <2>5 DEF Places, Apart, Everything
  <2>7. Everything' = Everything \cup {offer}
    BY <1>1, <2>5 DEF Everything
  <2>8. Words'
    BY <1>1, <2>4, <2>7 DEF Words
  <2>9. line.n <= asks /\ \A l \in ToSet(rest) : l.tag = "hello" => line.n < l.n
    <3>1. Within(toDaemon, Prompt, OldestReply, asks) /\ Rising(toDaemon, Prompt)
      BY DEF Replies, Flight
    <3>2. 1 \in 1 .. Len(toDaemon) /\ toDaemon[1].tag \in Prompt
      BY <1>2, <1>3, <1>11 DEF Prompt
    <3>3. line.n <= asks
      BY <1>3, <3>1, <3>2 DEF Within
    <3>4. ASSUME NEW i \in 1 .. n - 1, rest[i].tag = "hello" PROVE line.n < rest[i].n
      <4>1. rest[i] = toDaemon[i + 1] /\ i + 1 \in 1 .. Len(toDaemon) /\ 1 < i + 1
        BY <1>2, <1>3
      <4>2. toDaemon[i + 1].tag \in Prompt
        BY <3>4, <4>1 DEF Prompt
      <4> QED BY <1>3, <3>1, <3>2, <4>1, <4>2 DEF Rising
    <3>5. ToSet(rest) = {rest[i] : i \in 1 .. n - 1}
      BY <1>3, LenProperties DEF ToSet
    <3> QED BY <3>3, <3>4, <3>5
  <2>10. Offers'
    <3>1. ASSUME NEW f \in Everything', f.tag = "limb"
          PROVE  f.n <= asks /\ \A l \in ToSet(rest) : l.tag = "hello" => f.n < l.n
      <4>1. CASE f \in Everything
        BY <1>4, <3>1, <4>1 DEF Offers
      <4>2. CASE f = offer
        BY <2>4, <2>9, <4>2
      <4> QED BY <2>7, <3>1, <4>1, <4>2
    <3> QED BY <1>1, <3>1 DEF Offers
  <2> QED BY <2>6, <2>8, <2>10
<1> QED BY <1>7, <1>10, <1>11

(***************************************************************************)
(* What ear or lens send is new.                                           *)
(***************************************************************************)
LEMMA SenseSensed ==
  ASSUME TypeOK, Places, Offers, Words, Everything \subseteq Frames,
         toCore \in Seq(Frames), senses \in Nat, Sense
  PROVE  Places' /\ Offers' /\ Words'
<1>1. PICK tag \in {"heard", "saw"} : toCore' = Append(toCore, Frame(tag, senses + 1))
  BY DEF Sense
<1> DEFINE f == Frame(tag, senses + 1)
<1>2. f \in Frames /\ f \in Sensed /\ f.tag # "limb" /\ f.n = senses + 1
  <2>1. senses + 1 \in Number
    BY Numbers DEF Sense, TypeOK
  <2> QED BY <2>1, FrameType, SensedFrames DEF Frame, Senses
<1>3. UNCHANGED <<pending, toDaemon, handled, lost, gone, asks>> /\ senses' = senses + 1
  BY DEF Sense, requests
<1> HIDE DEF f
<1>4. f \notin Everything
  <2>1. ASSUME f \in Everything PROVE FALSE
    <3>1. f.n \in 1 .. senses
      BY <1>2, <2>1 DEF Words
    <3> QED BY <1>2, <3>1
  <2> QED BY <2>1
<1>5. toCore' = Append(toCore, f)
  BY <1>1 DEF f
<1>6. Distinct(toCore', Sensed) /\ OnWire' = OnWire \cup {f}
  <2>1. ToSet(toCore') = ToSet(toCore) \cup {f}
    BY <1>2, <1>5, SetAppend
  <2>2. f \notin ToSet(toCore)
    BY <1>2, <1>4 DEF Everything, OnWire
  <2>3. Distinct(toCore', Sensed)
    BY <1>2, <1>5, <2>2, DistinctAppend DEF Places
  <2> QED BY <1>2, <2>1, <2>3 DEF OnWire
<1>7. Places'
  BY <1>3, <1>4, <1>6 DEF Places, Apart, Everything
<1>8. Everything' = Everything \cup {f}
  BY <1>3, <1>6 DEF Everything
<1>9. Words'
  <2>1. {g.n : g \in {h \in Everything' : h.tag # "limb"}}
          = {g.n : g \in {h \in Everything : h.tag # "limb"}} \cup {senses + 1}
    BY <1>2, <1>8
  <2>2. 1 .. senses + 1 = (1 .. senses) \cup {senses + 1}
    OBVIOUS
  <2> QED BY <1>3, <2>1, <2>2 DEF Words
<1>10. Offers'
  BY <1>2, <1>3, <1>8 DEF Offers
<1> QED BY <1>7, <1>9, <1>10

(***************************************************************************)
(* Every step keeps SInv.                                                  *)
(***************************************************************************)
LEMMA SensedNext ==
  ASSUME SInv, [Next]_vars PROVE Places' /\ Offers' /\ Words'
<1>1. /\ TypeOK /\ Turns /\ Replies /\ Places /\ Offers /\ Words
      /\ toCore \in Seq(Frames) /\ pending \in Seq(Senses) /\ toDaemon \in Seq(Line)
      /\ asks \in Nat /\ senses \in Nat
      /\ handled \subseteq Frames /\ lost \subseteq Frames /\ gone \subseteq Frames
  <2>1. TypeOK /\ Turns /\ Replies /\ Places /\ Offers /\ Words
    BY DEF SInv, IInv
  <2>2. pending \in Seq(Senses)
    BY <2>1, PendingSenses DEF TypeOK
  <2>3. asks \in Nat /\ senses \in Nat
    BY <2>1 DEF TypeOK
  <2>4. /\ toCore \in Seq(Frames) /\ toDaemon \in Seq(Line)
        /\ handled \subseteq Frames /\ lost \subseteq Frames /\ gone \subseteq Frames
    BY <2>1 DEF TypeOK, Line
  <2> QED BY <2>1, <2>2, <2>3, <2>4
<1>2. /\ Distinct(toCore, Sensed) /\ Distinct(pending, Sensed)
      /\ Apart(OnWire, ToSet(pending), handled, lost, gone)
  BY <1>1 DEF Places
<1>3. Everything \subseteq Frames /\ ToSet(pending) \subseteq Frames \cap Sensed
  <2>1. ToSet(toCore) \subseteq Frames /\ ToSet(pending) \subseteq Senses
    BY <1>1, ElementsOf
  <2> QED BY <1>1, <2>1, SensedFrames DEF Everything, OnWire
\* The first frame on the wire.
<1> DEFINE first == {Head(toCore)} \cap Sensed
           later == ToSet(Tail(toCore)) \cap Sensed
<1>4. ASSUME toCore # <<>>
      PROVE  /\ Head(toCore) \in Frames /\ Tail(toCore) \in Seq(Frames)
             /\ Distinct(Tail(toCore), Sensed)
             /\ OnWire = later \cup first /\ later \cap first = {}
             /\ IsSensory(Head(toCore)) => first = {Head(toCore)}
             /\ ~IsSensory(Head(toCore)) => first = {}
  <2>1. /\ Head(toCore) \in Frames /\ Tail(toCore) \in Seq(Frames)
        /\ Distinct(Tail(toCore), Sensed)
        /\ ToSet(toCore) = {Head(toCore)} \cup ToSet(Tail(toCore))
        /\ Head(toCore) \in Sensed => Head(toCore) \notin ToSet(Tail(toCore))
    BY <1>1, <1>2, <1>4, HeadParts
  <2>2. IsSensory(Head(toCore)) <=> Head(toCore) \in Sensed
    BY <2>1, SensedFrames
  <2> QED BY <2>1, <2>2 DEF OnWire
<1> HIDE DEF first, later
\* The frames that have arrived of those on the wire.
<1>5. ASSUME NEW k \in 1 .. Len(toCore)
      PROVE  LET rest == SubSeq(toCore, k + 1, Len(toCore))
                 read == SubSeq(toCore, 1, k)
             IN /\ Distinct(rest, Sensed) /\ Distinct(read, Sensed)
                /\ read \in Seq(Frames) /\ rest \in Seq(Frames)
                /\ OnWire = (ToSet(rest) \cap Sensed) \cup (ToSet(read) \cap Sensed)
                /\ (ToSet(rest) \cap Sensed) \cap (ToSet(read) \cap Sensed) = {}
  <2>1. k \in 0 .. Len(toCore)
    OBVIOUS
  <2> DEFINE rest == SubSeq(toCore, k + 1, Len(toCore))
             read == SubSeq(toCore, 1, k)
  <2>2. /\ read \in Seq(Frames) /\ rest \in Seq(Frames)
        /\ Distinct(read, Sensed) /\ Distinct(rest, Sensed)
        /\ ToSet(toCore) = ToSet(read) \cup ToSet(rest)
        /\ ToSet(read) \cap ToSet(rest) \cap Sensed = {}
    BY <1>1, <1>2, <2>1, Parts
  <2> HIDE DEF rest, read
  <2>3. /\ OnWire = (ToSet(rest) \cap Sensed) \cup (ToSet(read) \cap Sensed)
        /\ (ToSet(rest) \cap Sensed) \cap (ToSet(read) \cap Sensed) = {}
    BY <2>2 DEF OnWire
  <2> QED BY <2>2, <2>3 DEF rest, read
\* Nothing is sensed, and the lines are old ones or new.
<1>6. ASSUME Everything' = Everything, UNCHANGED <<senses, asks, toDaemon>> PROVE Offers' /\ Words'
  BY <1>1, <1>3, <1>6, OnlyMoved
<1>7. ASSUME Everything' = Everything, senses' = senses, NEW caller, Ask(caller), asks < MaxAsks
      PROVE  Offers' /\ Words'
  BY <1>1, <1>3, <1>7, AskLines, OnlyMoved
\* The places that are left alone.
<1>8. ASSUME UNCHANGED <<toCore, pending, handled, lost, gone>>
      PROVE  Places' /\ Everything' = Everything
  BY <1>1, <1>8 DEF Places, OnWire, Everything
<1>9. ASSUME Answered, UNCHANGED <<pending, handled, lost, gone>>
      PROVE  Places' /\ Everything' = Everything
  <2>1. OnWire' = OnWire /\ Distinct(toCore', Sensed)
    BY <1>4, <1>9 DEF Answered, IsSensory, Sensory, OnWire, later
  <2> QED BY <1>2, <1>9, <2>1 DEF Places, Everything
<1>10. CASE Boot
  <2>1. pending' = <<>> /\ gone' = gone \cup ToSet(pending) /\ UNCHANGED <<toCore, handled, lost, senses>>
        /\ Ask("hello") /\ asks < MaxAsks
    BY <1>1, <1>10, RoomLeft DEF Boot
  <2>2. ToSet(pending') = {} /\ Distinct(pending', Sensed) /\ OnWire' = OnWire
    BY <2>1, SetEmpty, EmptySeq DEF Distinct, OnWire
  <2>3. Apart(OnWire, {}, handled, lost, gone \cup ToSet(pending))
    BY <1>2 DEF Apart
  <2>4. Places' /\ Everything' = Everything
    BY <1>2, <2>1, <2>2, <2>3 DEF Places, Everything
  <2> QED BY <1>7, <2>1, <2>4
<1>11. CASE Key
  <2>1. PICK caller \in {"utterance", "retry", "dream"} : Ask(caller)
    BY <1>11 DEF Key
  <2>2. asks < MaxAsks
    BY <1>1, <1>11, RoomLeft DEF Key
  <2> QED BY <1>7, <1>8, <1>11, <2>1, <2>2 DEF Key, fates
<1>12. CASE QueryPoll
  <2>1. /\ toCore # <<>> /\ toCore' = Tail(toCore)
        /\ UNCHANGED <<handled, lost, gone, senses, asks, toDaemon>>
        /\ pending' = IF IsSensory(Head(toCore)) THEN Append(pending, Head(toCore)) ELSE pending
    BY <1>12 DEF QueryPoll, requests, fates
  <2>2. OnWire' = later /\ Distinct(toCore', Sensed)
    BY <1>4, <2>1 DEF OnWire, later
  <2>3. CASE IsSensory(Head(toCore))
    <3>1. first = {Head(toCore)} /\ Head(toCore) \in Senses /\ Head(toCore) \notin ToSet(pending)
      BY <1>2, <1>4, <2>1, <2>3 DEF Apart, Senses
    <3>2. ToSet(pending') = ToSet(pending) \cup first /\ Distinct(pending', Sensed)
      BY <1>1, <1>2, <2>1, <2>3, <3>1, SetAppend, DistinctAppend
    <3>3. Apart(later, ToSet(pending) \cup first, handled, lost, gone)
      BY <1>2, <1>4, <2>1, FromWire
    <3>4. Places' /\ Everything' = Everything
      BY <1>4, <2>1, <2>2, <3>2, <3>3 DEF Places, Everything
    <3> QED BY <1>6, <2>1, <3>4
  <2>4. CASE ~IsSensory(Head(toCore))
    <3>1. OnWire = later
      BY <1>4, <2>1, <2>4
    <3>2. Places' /\ Everything' = Everything
      BY <1>2, <2>1, <2>2, <2>4, <3>1 DEF Places, Everything
    <3> QED BY <1>6, <2>1, <3>2
  <2> QED BY <2>3, <2>4
<1>13. CASE AnsweredHello \/ AnsweredInWords
  BY <1>6, <1>9, <1>13 DEF AnsweredHello, AnsweredInWords, fates
<1>14. CASE AnsweredByOwnOrgan
  BY <1>1, <1>7, <1>9, <1>14 DEF AnsweredByOwnOrgan, fates, Turns
<1>15. CASE AnsweredByLimb
  <2>1. PICK k \in 1 .. Len(toCore) :
          /\ toCore' = SubSeq(toCore, k + 1, Len(toCore))
          /\ lost' = lost \cup SensoryIn(SubSeq(toCore, 2, k))
    BY <1>15 DEF AnsweredByLimb
  <2>2. /\ toCore # <<>> /\ Head(toCore).tag = "reply" /\ UNCHANGED <<pending, handled, gone, senses, asks>>
        /\ toDaemon' = Append(toDaemon, Frame("act", acts + 1)) /\ pc = "utterance"
    BY <1>15 DEF AnsweredByLimb
  <2> DEFINE read == ToSet(SubSeq(toCore, 1, k)) \cap Sensed
  <2>3. SensoryIn(SubSeq(toCore, 2, k)) = read
    BY <1>1, <2>1, <2>2, AllButReply
  <2>4. Distinct(toCore', Sensed) /\ OnWire = OnWire' \cup read /\ OnWire' \cap read = {}
    BY <1>5, <2>1 DEF OnWire
  <2> HIDE DEF read
  <2>5. Apart(OnWire', ToSet(pending), handled, lost \cup read, gone)
    BY <1>2, <2>4, FromWire
  <2>6. Places' /\ Everything' = Everything
    BY <1>2, <2>1, <2>2, <2>3, <2>4, <2>5 DEF Places, Everything
  <2>7. ToSet(toDaemon') = ToSet(toDaemon) \cup {Frame("act", acts + 1)}
    <3>1. acts + 1 \in Number
      BY <1>1, <2>2, Numbers DEF Turns, TypeOK
    <3>2. Frame("act", acts + 1) \in Line
      BY <3>1, FrameType
    <3> QED BY <1>1, <2>2, <3>2, SetAppend
  <2>8. \A line \in ToSet(toDaemon') : line.tag = "hello" => line \in ToSet(toDaemon) \/ line.n = asks + 1
    BY <2>7 DEF Frame
  <2> QED BY <1>1, <1>3, <2>2, <2>6, <2>8, OnlyMoved
<1>16. CASE QueryTimeout \/ ActTimeout \/ PowerOff
  BY <1>6, <1>8, <1>16 DEF QueryTimeout, ActTimeout, PowerOff, wires, fates
<1>17. CASE ActPoll
  <2>1. /\ toCore # <<>> /\ toCore' = Tail(toCore) /\ UNCHANGED <<handled, gone, senses, asks, toDaemon>>
        /\ pending' = IF Head(toCore).tag \in {"heard", "saw"} THEN Append(pending, Head(toCore)) ELSE pending
        /\ lost' = IF Head(toCore).tag = "limb" THEN lost \cup {Head(toCore)} ELSE lost
    BY <1>17 DEF ActPoll
  <2>2. OnWire' = later /\ Distinct(toCore', Sensed)
    BY <1>4, <2>1 DEF OnWire, later
  <2>3. CASE Head(toCore).tag \in {"heard", "saw"}
    <3>1. first = {Head(toCore)} /\ Head(toCore) \in Senses /\ Head(toCore) \notin ToSet(pending)
      BY <1>2, <1>4, <2>1, <2>3 DEF Apart, Senses, IsSensory, Sensory
    <3>2. ToSet(pending') = ToSet(pending) \cup first /\ Distinct(pending', Sensed)
      BY <1>1, <1>2, <2>1, <2>3, <3>1, SetAppend, DistinctAppend
    <3>3. Apart(later, ToSet(pending) \cup first, handled, lost, gone)
      BY <1>2, <1>4, <2>1, FromWire
    <3>4. Places' /\ Everything' = Everything
      BY <1>4, <2>1, <2>2, <2>3, <3>2, <3>3 DEF Places, Everything
    <3> QED BY <1>6, <2>1, <3>4
  <2>4. CASE Head(toCore).tag = "limb"
    <3>1. first = {Head(toCore)}
      BY <1>4, <2>1, <2>4 DEF IsSensory, Sensory
    <3>2. Apart(later, ToSet(pending), handled, lost \cup first, gone)
      BY <1>2, <1>4, <2>1, FromWire
    <3>3. Places' /\ Everything' = Everything
      BY <1>2, <1>4, <2>1, <2>2, <2>4, <3>1, <3>2 DEF Places, Everything
    <3> QED BY <1>6, <2>1, <3>3
  <2>5. CASE Head(toCore).tag \notin {"heard", "saw", "limb"}
    <3>1. OnWire = later
      BY <1>4, <2>1, <2>5 DEF IsSensory, Sensory
    <3>2. Places' /\ Everything' = Everything
      BY <1>2, <2>1, <2>2, <2>5, <3>1 DEF Places, Everything
    <3> QED BY <1>6, <2>1, <3>2
  <2> QED BY <2>3, <2>4, <2>5
<1>18. CASE ActEnds
  <2>1. Places' /\ Everything' = Everything /\ senses' = senses /\ pc = "act"
    BY <1>8, <1>18 DEF ActEnds, fates
  <2>2. CASE Ask("grounded")
    BY <1>1, <1>7, <2>1, <2>2 DEF Turns
  <2>3. CASE pc' = "loop" /\ UNCHANGED <<asks, toDaemon>>
    BY <1>6, <2>1, <2>3
  <2> QED BY <1>18, <2>2, <2>3 DEF ActEnds
<1>19. CASE WindowPoll
  <2>1. /\ toCore # <<>> /\ toCore' = Tail(toCore) /\ UNCHANGED <<pending, gone, senses, asks, toDaemon>>
        /\ handled' = IF Head(toCore).tag = "limb" THEN handled \cup {Head(toCore)} ELSE handled
        /\ lost' = IF Head(toCore).tag \in {"heard", "saw"} THEN lost \cup {Head(toCore)} ELSE lost
    BY <1>19 DEF WindowPoll, requests
  <2>2. OnWire' = later /\ Distinct(toCore', Sensed)
    BY <1>4, <2>1 DEF OnWire, later
  <2>3. CASE Head(toCore).tag \in {"heard", "saw"}
    <3>1. first = {Head(toCore)}
      BY <1>4, <2>1, <2>3 DEF IsSensory, Sensory
    <3>2. Apart(later, ToSet(pending), handled, lost \cup first, gone)
      BY <1>2, <1>4, <2>1, FromWire
    <3>3. Places' /\ Everything' = Everything
      BY <1>2, <1>4, <2>1, <2>2, <2>3, <3>1, <3>2 DEF Places, Everything
    <3> QED BY <1>6, <2>1, <3>3
  <2>4. CASE Head(toCore).tag = "limb"
    <3>1. first = {Head(toCore)}
      BY <1>4, <2>1, <2>4 DEF IsSensory, Sensory
    <3>2. Apart(later, ToSet(pending), handled \cup first, lost, gone)
      BY <1>2, <1>4, <2>1, FromWire
    <3>3. Places' /\ Everything' = Everything
      BY <1>2, <1>4, <2>1, <2>2, <2>4, <3>1, <3>2 DEF Places, Everything
    <3> QED BY <1>6, <2>1, <3>3
  <2>5. CASE Head(toCore).tag \notin {"heard", "saw", "limb"}
    <3>1. OnWire = later
      BY <1>4, <2>1, <2>5 DEF IsSensory, Sensory
    <3>2. Places' /\ Everything' = Everything
      BY <1>2, <2>1, <2>2, <2>5, <3>1 DEF Places, Everything
    <3> QED BY <1>6, <2>1, <3>2
  <2> QED BY <2>3, <2>4, <2>5
<1>20. CASE WindowEnds
  <2> DEFINE words == Tagged({"heard", "saw"})
             offers == Tagged({"limb"})
  <2>1. /\ UNCHANGED <<toCore, lost, gone, senses>> /\ Ask("wake") /\ asks < MaxAsks
        /\ pending' = Select(pending, words)
        /\ handled' = handled \cup ToSet(Select(pending, offers))
    BY <1>1, <1>20 DEF WindowEnds, Turns
  <2>2. /\ ToSet(pending') = ToSet(pending) \cap words /\ Distinct(pending', Sensed)
        /\ ToSet(Select(pending, offers)) = ToSet(pending) \cap offers
    BY <1>1, <1>2, <2>1, SelectSet, SelectDistinct
  <2>3. words \cap offers = {} /\ Sensed \subseteq words \cup offers
    BY DEF Sensed, Tagged, Sensory
  <2> HIDE DEF words, offers
  <2>4. ToSet(pending) = ToSet(pending') \cup (ToSet(pending) \cap offers)
    BY <1>3, <2>2, <2>3
  <2>5. Apart(OnWire, ToSet(pending'), handled \cup (ToSet(pending) \cap offers), lost, gone)
    <3>1. ToSet(pending') \cap (ToSet(pending) \cap offers) = {}
      BY <2>2, <2>3
    <3> QED BY <1>2, <2>4, <3>1, FromPending
  <2>6. OnWire' = OnWire
    BY <2>1 DEF OnWire
  <2>7. Places' /\ Everything' = Everything
    BY <1>2, <2>1, <2>2, <2>4, <2>5, <2>6 DEF Places, Everything
  <2> QED BY <1>7, <2>1, <2>7
<1>21. CASE Pop
  <2>1. /\ pending # <<>> /\ pending' = Front(pending) /\ handled' = handled \cup {Last(pending)}
        /\ UNCHANGED <<toCore, lost, gone, senses>>
    BY <1>21 DEF Pop
  <2>2. /\ Distinct(Front(pending), Sensed) /\ ToSet(pending) = ToSet(Front(pending)) \cup {Last(pending)}
        /\ Last(pending) \in Sensed => Last(pending) \notin ToSet(Front(pending))
    BY <1>1, <1>2, <2>1, FrontParts
  <2>3. ToSet(Front(pending)) \cap {Last(pending)} = {}
    BY <1>3, <2>2
  <2>4. Apart(OnWire, ToSet(Front(pending)), handled \cup {Last(pending)}, lost, gone)
    BY <1>2, <2>2, <2>3, FromPending
  <2>5. OnWire' = OnWire
    BY <2>1 DEF OnWire
  <2>6. Places' /\ Everything' = Everything
    BY <1>2, <2>1, <2>2, <2>4, <2>5 DEF Places, Everything
  <2>7. CASE Room /\ Ask("utterance")
    BY <1>1, <1>7, <2>1, <2>6, <2>7, RoomLeft
  <2>8. CASE UNCHANGED <<pc, asks, toDaemon>>
    BY <1>6, <2>1, <2>6, <2>8
  <2> QED BY <1>21, <2>7, <2>8 DEF Pop
<1>22. CASE Pump
  <2>1. PICK k \in 1 .. Len(toCore) :
       /\ pending' = Select(SubSeq(toCore, 1, k), Tagged(Sensory))
       /\ toCore' = SubSeq(toCore, k + 1, Len(toCore))
    BY <1>22 DEF Pump
  <2>2. pending = <<>> /\ UNCHANGED <<handled, lost, gone, senses, asks, toDaemon>>
    BY <1>22 DEF Pump, requests, fates
  <2> DEFINE readSeq == SubSeq(toCore, 1, k)
             read == ToSet(readSeq) \cap Sensed
  <2>3. /\ Distinct(toCore', Sensed) /\ OnWire = OnWire' \cup read /\ OnWire' \cap read = {}
        /\ readSeq \in Seq(Frames) /\ Distinct(readSeq, Sensed)
    BY <1>5, <2>1 DEF OnWire
  <2>4. ToSet(pending') = read /\ Distinct(pending', Sensed) /\ ToSet(pending) = {}
    <3> HIDE DEF readSeq
    <3>1. pending' = Select(readSeq, Sensed)
      BY <2>1 DEF Sensed, readSeq
    <3> QED BY <2>2, <2>3, <3>1, SelectSet, SelectDistinct, SetEmpty
  <2> HIDE DEF read
  <2>5. Apart(OnWire', {} \cup read, handled, lost, gone)
    BY <1>2, <2>3, <2>4, FromWire
  <2>6. Places' /\ Everything' = Everything
    BY <1>2, <2>2, <2>3, <2>4, <2>5 DEF Places, Everything
  <2> QED BY <1>6, <2>2, <2>6
<1>23. CASE Serve
  BY <1>1, <1>2, <1>3, <1>23, ServeSensed
<1>24. CASE Sense
  BY <1>1, <1>2, <1>3, <1>24, SenseSensed
<1>25. CASE Drop
  <2>1. UNCHANGED <<pending, handled, lost, senses, asks>> /\ toDaemon' = <<>>
    BY <1>25 DEF Drop, requests
  <2>2. Places' /\ Everything' = Everything
    <3>1. CASE UNCHANGED <<toCore, gone>>
      BY <1>8, <2>1, <3>1
    <3>2. CASE toCore' = <<>> /\ gone' = gone \cup SensoryIn(toCore)
      <4>1. OnWire' = {} /\ Distinct(toCore', Sensed) /\ SensoryIn(toCore) = OnWire
        BY <1>1, <3>2, SetEmpty, EmptySeq, SensedFrames DEF OnWire, Distinct
      <4>2. Apart({}, ToSet(pending), handled, lost, gone \cup OnWire)
        BY <1>2 DEF Apart
      <4> QED BY <1>2, <2>1, <3>2, <4>1, <4>2 DEF Places, Everything
    <3> QED BY <1>25, <3>1, <3>2 DEF Drop
  <2>3. ToSet(toDaemon') = {}
    BY <2>1, SetEmpty
  <2> QED BY <1>1, <1>3, <2>1, <2>2, <2>3, OnlyMoved
<1>26. CASE UNCHANGED vars
  BY <1>6, <1>8, <1>26 DEF vars, wires, requests, fates
<1> QED BY <1>10, <1>11, <1>12, <1>13, <1>14, <1>15, <1>16, <1>17, <1>18, <1>19, <1>20, <1>21,
           <1>22, <1>23, <1>24, <1>25, <1>26 DEF Next, CoreStep, QueryEnds

(***************************************************************************)
(* There are finitely many frames.                                         *)
(***************************************************************************)
LEMMA FramesFinite == IsFiniteSet(Frames)
<1> DEFINE T == Sensory \cup {"reply", "result"}
           f == [p \in T \X Number |-> [tag |-> p[1], n |-> p[2]]]
<1>1. IsFiniteSet(T)
  <2>1. T = ((({} \cup {"heard"}) \cup {"saw"}) \cup {"limb"}) \cup {"reply"} \cup {"result"}
    BY DEF Sensory
  <2> HIDE DEF T
  <2> QED BY <2>1, FS_EmptySet, FS_AddElement
<1>2. IsFiniteSet(Number)
  <2>1. 0 \in Int /\ MaxAsks + MaxSenses \in Int
    BY TetherAssumption
  <2> QED BY <2>1, FS_Interval DEF Number
<1>3. IsFiniteSet(T \X Number)
  <2> HIDE DEF T
  <2> QED BY <1>1, <1>2, FS_Product
<1>4. f \in Surjection(T \X Number, Frames)
  <2>1. f \in [T \X Number -> Frames]
    BY DEF Frames
  <2>2. ASSUME NEW g \in Frames PROVE \E p \in T \X Number : f[p] = g
    <3>1. g = [tag |-> g.tag, n |-> g.n] /\ g.tag \in T /\ g.n \in Number
      BY DEF Frames
    <3>2. f[<<g.tag, g.n>>] = [tag |-> g.tag, n |-> g.n] /\ <<g.tag, g.n>> \in T \X Number
      BY <3>1
    <3> QED BY <3>1, <3>2
  <2> HIDE DEF T, f
  <2> QED BY <2>1, <2>2 DEF Surjection
<1> HIDE DEF f, T
<1> QED BY <1>3, <1>4, FS_Surjection

(***************************************************************************)
(* The size of five sets that are apart.                                   *)
(***************************************************************************)
LEMMA ApartSize ==
  ASSUME NEW a, NEW b, NEW c, NEW d, NEW e, Apart(a, b, c, d, e),
         IsFiniteSet(a), IsFiniteSet(b), IsFiniteSet(c), IsFiniteSet(d), IsFiniteSet(e)
  PROVE  Cardinality(a) + Cardinality(b) + Cardinality(c) + Cardinality(d) + Cardinality(e)
           = Cardinality(a \cup b \cup c \cup d \cup e)
<1>1. ASSUME NEW s, NEW t, IsFiniteSet(s), IsFiniteSet(t), s \cap t = {}
      PROVE  IsFiniteSet(s \cup t) /\ Cardinality(s \cup t) = Cardinality(s) + Cardinality(t)
  <2>1. /\ IsFiniteSet(s \cup t)
        /\ Cardinality(s \cup t) = Cardinality(s) + Cardinality(t) - Cardinality(s \cap t)
    BY <1>1, FS_Union
  <2>2. Cardinality(s \cap t) = 0
    BY <1>1, FS_EmptySet
  <2>3. Cardinality(s) \in Nat /\ Cardinality(t) \in Nat
    BY <1>1, FS_CardinalityType
  <2> QED BY <2>1, <2>2, <2>3
<1>2. IsFiniteSet(a \cup b) /\ Cardinality(a \cup b) = Cardinality(a) + Cardinality(b)
  BY <1>1 DEF Apart
<1>3. /\ IsFiniteSet(a \cup b \cup c)
      /\ Cardinality(a \cup b \cup c) = Cardinality(a \cup b) + Cardinality(c)
  BY <1>1, <1>2 DEF Apart
<1>4. /\ IsFiniteSet(a \cup b \cup c \cup d)
      /\ Cardinality(a \cup b \cup c \cup d) = Cardinality(a \cup b \cup c) + Cardinality(d)
  BY <1>1, <1>3 DEF Apart
<1>5. Cardinality(a \cup b \cup c \cup d \cup e) = Cardinality(a \cup b \cup c \cup d) + Cardinality(e)
  BY <1>1, <1>4 DEF Apart
<1> QED BY <1>2, <1>3, <1>4, <1>5

\* The second invariant is what SensedOnce says, and more.
LEMMA SInvOnce == SInv => SensedOnce
<1> SUFFICES ASSUME SInv PROVE SensedOnce
  OBVIOUS
<1>1. /\ toCore \in Seq(Frames) /\ pending \in Seq(Senses)
      /\ handled \subseteq Frames /\ lost \subseteq Frames /\ gone \subseteq Frames
  BY PendingSenses DEF SInv, IInv, TypeOK
<1>2. SensoryIn(toCore) = OnWire
  BY <1>1, SensedFrames DEF OnWire
<1>3. OnWire \subseteq Frames /\ ToSet(pending) \subseteq Frames
  BY <1>1, ElementsOf DEF OnWire, Senses
<1>4. /\ IsFiniteSet(OnWire) /\ IsFiniteSet(ToSet(pending))
      /\ IsFiniteSet(handled) /\ IsFiniteSet(lost) /\ IsFiniteSet(gone)
  BY <1>1, <1>3, FramesFinite, FS_Subset
<1>5. Apart(OnWire, ToSet(pending), handled, lost, gone)
  BY DEF SInv, Places
<1>6. Cardinality(OnWire) + Cardinality(ToSet(pending)) + Cardinality(handled)
        + Cardinality(lost) + Cardinality(gone) = Cardinality(Everything)
  BY <1>4, <1>5, ApartSize DEF Everything
<1>7. Len(pending) = Cardinality(ToSet(pending))
  <2>1. Distinct(pending, Senses)
    BY SensedFrames DEF SInv, Places, Distinct
  <2> QED BY <1>1, <2>1, DistinctSize
<1>8. {f.n : f \in {g \in Everything : g.tag # "limb"}} = 1 .. senses
  BY DEF SInv, Words
<1> QED BY <1>2, <1>6, <1>7, <1>8 DEF SensedOnce, Everything

(***************************************************************************)
(* Whatever the core reads, keeps, acts upon, discards or loses, and in    *)
(* whatever order: what was sensed is in one place only.                   *)
(***************************************************************************)
THEOREM EachSensedOnce == Spec => []SensedOnce
<1>1. Init => Places /\ Offers /\ Words
  <2> SUFFICES ASSUME Init PROVE Places /\ Offers /\ Words
    OBVIOUS
  <2>1. ToSet(toCore) = {} /\ ToSet(pending) = {} /\ Len(<<>>) = 0 /\ 1 .. 0 = {}
    BY SetEmpty, EmptySeq DEF Init
  <2>2. Everything = {} /\ OnWire = {}
    BY <2>1 DEF Init, Everything, OnWire
  <2> QED BY <2>1, <2>2 DEF Init, Places, Offers, Words, Apart, Distinct
<1>2. SInv /\ [Next]_vars => SInv'
  BY SensedNext, NextIInv DEF SInv
<1>3. Init => SInv
  BY <1>1, InitIInv DEF SInv
<1> QED BY <1>2, <1>3, SInvOnce, PTL DEF Spec
=============================================================================
