------------------------------ MODULE ScriptProofs ------------------------------
(***************************************************************************)
(* Proofs about the script engine: what its values are, that operators     *)
(* keep to them, and the inductive invariant of the machine, from which    *)
(* the safety properties of Script follow for every program and every      *)
(* budget.                                                                 *)
(***************************************************************************)
EXTENDS Script, SelectionProofs

---------------------------------------------------------------------------
(* The text a value shows is a sequence of codes.                          *)

Text == Seq(Int)

LEMMA TextJoin == ASSUME NEW s \in Text, NEW t \in Text PROVE s \o t \in Text
BY ConcatProperties DEF Text

\* A number without its last digits is a number.
LEMMA ShiftedType ==
  ASSUME NEW n \in Nat PROVE \A i \in 0 .. n : Shifted(n)[i] \in Nat
<1> DEFINE step == [i \in 1 .. n |-> [t \in Nat |-> t \div 10]]
<1>1. /\ step \in [1 .. n -> [Nat -> Nat]]
      /\ \A i \in 1 .. n, t \in Nat : step[i][t] = t \div 10
  OBVIOUS
<1> HIDE DEF step
<1>2. PICK f \in [0 .. n -> Nat] : f[0] = n /\ \A i \in 1 .. n : f[i] = step[i][f[i - 1]]
  <2>1. \E f \in [0 .. n -> Nat] : Obeys(f, n, n, step)
    BY <1>1, Recursion
  <2> QED BY <2>1 DEF Obeys
<1> DEFINE E(g, k) == IF k = 0 THEN n ELSE g[k - 1] \div 10
           F(g) == [k \in 0 .. n |-> E(g, k)]
           rest == CHOOSE g : g = F(g)
<1>3. f = F(f)
  <2>1. ASSUME NEW i \in 0 .. n PROVE f[i] = E(f, i)
    <3>1. CASE i = 0
      BY <1>2, <3>1
    <3>2. CASE i \in 1 .. n
      <4>1. f[i - 1] \in Nat /\ f[i] = step[i][f[i - 1]]
        BY <1>2, <3>2
      <4>2. step[i][f[i - 1]] = f[i - 1] \div 10
        BY <1>1, <3>2, <4>1
      <4>3. E(f, i) = f[i - 1] \div 10
        BY <3>2
      <4> QED BY <4>1, <4>2, <4>3
    <3> QED BY <3>1, <3>2
  <2> HIDE DEF E
  <2> QED BY <2>1
<1>4. rest = F(rest)
  <2> HIDE DEF F
  <2> QED BY <1>3, Zenon
<1>9. Shifted(n) = rest
  BY Zenon DEF Shifted
<1> HIDE DEF rest
<1>5. \A i \in 0 .. n : rest[i] = E(rest, i)
  <2> HIDE DEF E
  <2> QED BY <1>4, Zenon
<1>6. \A i \in 0 .. n : rest[i] \in Nat
  <2> DEFINE G == {i \in 0 .. n : rest[i] \in Nat}
  <2>1. 0 \in G
    BY <1>5
  <2>2. ASSUME NEW i \in 1 .. n, i - 1 \in G PROVE i \in G
    BY <1>5, <2>2
  <2>3. 0 .. n \subseteq G
    <3> HIDE DEF G
    <3> QED BY <2>1, <2>2, UpTo
  <2> QED BY <2>3
<1> QED BY <1>6, <1>9

\* The decimal digits of a number are a text.
LEMMA DecimalType == ASSUME NEW n \in Nat PROVE Decimal(n) \in Text
<1> DEFINE K == {k \in 1 .. n : Shifted(n)[k] > 0}
           d == 1 + Cardinality(K)
<1>1. d \in 1 .. n + 1
  <2>1. IsFiniteSet(1 .. n) /\ Cardinality(1 .. n) = n
    BY FS_Interval
  <2>2. IsFiniteSet(K) /\ Cardinality(K) <= n
    BY <2>1, FS_Subset
  <2> QED BY <2>2, FS_CardinalityType
<1>2. Decimal(n) = [i \in 1 .. d |-> 48 + (Shifted(n)[d - i] % 10)]
  BY Zenon DEF Decimal
<1> HIDE DEF d
<1>3. ASSUME NEW i \in 1 .. d PROVE 48 + (Shifted(n)[d - i] % 10) \in Int
  <2>1. d - i \in 0 .. n
    BY <1>1
  <2>2. Shifted(n)[d - i] \in Nat
    BY <2>1, ShiftedType
  <2> QED BY <2>2
<1>4. d \in Nat
  BY <1>1
<1>5. [i \in 1 .. d |-> 48 + (Shifted(n)[d - i] % 10)] \in Seq(Int)
  BY <1>3, <1>4, IsASeq
<1> QED BY <1>2, <1>5 DEF Text

LEMMA ShowIntType == ASSUME NEW n \in Int PROVE ShowInt(n) \in Text
<1>1. CASE n < 0
  <2>1. -n \in Nat /\ <<45>> \in Text
    BY <1>1 DEF Text
  <2>2. Decimal(-n) \in Text
    BY <2>1, DecimalType
  <2> QED BY <1>1, <2>1, <2>2, TextJoin DEF ShowInt
<1>2. CASE ~(n < 0)
  BY <1>2, DecimalType DEF ShowInt
<1> QED BY <1>1, <1>2

\* Pieces of text joined are a text.
LEMMA JoinedType ==
  ASSUME NEW start \in Text, NEW sep \in Text, NEW pieces \in Seq(Text)
  PROVE  Joined(start, pieces, sep) \in Text
<1>1. PICK n \in Nat : n = Len(pieces)
  BY LenProperties
<1>2. \A i \in 1 .. n : pieces[i] \in Text
  BY <1>1, ElementOfSeq
<1> DEFINE B(t, k) == IF Len(t) > OutCap THEN t ELSE t \o (IF t = <<>> THEN <<>> ELSE sep) \o pieces[k]
           step == [i \in 1 .. n |-> [t \in Text |-> B(t, i)]]
<1>3. \A i \in 1 .. n, t \in Text : B(t, i) \in Text
  <2> SUFFICES ASSUME NEW i \in 1 .. n, NEW t \in Text PROVE B(t, i) \in Text
    OBVIOUS
  <2>1. <<>> \in Text
    BY EmptySeq DEF Text
  <2>2. (IF t = <<>> THEN <<>> ELSE sep) \in Text
    BY <2>1
  <2>3. t \o (IF t = <<>> THEN <<>> ELSE sep) \in Text
    BY <2>2, TextJoin
  <2>4. t \o (IF t = <<>> THEN <<>> ELSE sep) \o pieces[i] \in Text
    BY <1>2, <2>3, TextJoin
  <2> QED BY <2>4
<1>4. /\ step \in [1 .. n -> [Text -> Text]]
      /\ \A i \in 1 .. n, t \in Text : step[i][t] = B(t, i)
  <2> HIDE DEF B
  <2> QED BY <1>3
<1> HIDE DEF step
<1>5. PICK f \in [0 .. n -> Text] : f[0] = start /\ \A i \in 1 .. n : f[i] = step[i][f[i - 1]]
  <2>1. \E f \in [0 .. n -> Text] : Obeys(f, n, start, step)
    BY <1>4, Recursion
  <2> QED BY <2>1 DEF Obeys
<1> DEFINE E(g, k) == IF k = 0 THEN start ELSE B(g[k - 1], k)
           F(g) == [k \in 0 .. n |-> E(g, k)]
           upTo == CHOOSE g : g = F(g)
<1>6. f = F(f)
  <2>1. ASSUME NEW i \in 0 .. n PROVE f[i] = E(f, i)
    <3> HIDE DEF B
    <3>1. CASE i = 0
      BY <1>5, <3>1
    <3>2. CASE i \in 1 .. n
      <4>1. f[i - 1] \in Text /\ f[i] = step[i][f[i - 1]]
        BY <1>5, <3>2
      <4> QED BY <1>4, <3>2, <4>1
    <3> QED BY <3>1, <3>2
  <2> HIDE DEF E
  <2> QED BY <2>1
<1>7. upTo = F(upTo)
  <2> HIDE DEF F
  <2> QED BY <1>6, Zenon
<1> HIDE DEF upTo
<1>8. \A i \in 0 .. n : upTo[i] = E(upTo, i)
  <2> HIDE DEF E
  <2> QED BY <1>7, Zenon
<1>9. \A i \in 0 .. n : upTo[i] \in Text
  <2> DEFINE G == {i \in 0 .. n : upTo[i] \in Text}
  <2> HIDE DEF B
  <2>1. 0 \in G
    BY <1>8
  <2>2. ASSUME NEW i \in 1 .. n, i - 1 \in G PROVE i \in G
    <3>1. upTo[i - 1] \in Text /\ upTo[i] = B(upTo[i - 1], i)
      BY <1>8, <2>2
    <3> QED BY <1>3, <3>1
  <2>3. 0 .. n \subseteq G
    <3> HIDE DEF G
    <3> QED BY <2>1, <2>2, UpTo
  <2> QED BY <2>3
<1>10. Joined(start, pieces, sep) = upTo[n]
  BY <1>1, Zenon DEF Joined, upTo, F, E, B
<1> QED BY <1>9, <1>10
---------------------------------------------------------------------------
(* The values: what is built from integers, strings and lists in finitely  *)
(* many levels.  No list is in itself, so the levels are taken one by one. *)

Short(S) == {l \in Seq(S) : Len(l) <= MaxList}
Grown(S) == {Num(n) : n \in Int64} \cup {Str(s) : s \in Text} \cup {List(l) : l \in Short(S)}

Stages(f, n) == f[0] = {} /\ \A i \in 1 .. n : f[i] = Grown(f[i - 1])
Level(n) == (CHOOSE f : Stages(f, n))[n]
Val == UNION {Level(n) : n \in Nat}

LEMMA StagesExist == ASSUME NEW n \in Nat PROVE \E f : Stages(f, n)
<1> DEFINE G == {m \in 0 .. n : \E f : Stages(f, m)}
<1>1. 0 \in G
  <2> DEFINE f == [j \in 0 .. 0 |-> {}]
  <2>1. f[0] = {} /\ 1 .. 0 = {}
    OBVIOUS
  <2> HIDE DEF f
  <2>2. Stages(f, 0)
    BY <2>1 DEF Stages
  <2> QED BY <2>2
<1>2. ASSUME NEW m \in 1 .. n, m - 1 \in G PROVE m \in G
  <2>1. PICK f : Stages(f, m - 1)
    BY <1>2
  <2> DEFINE g == [j \in 0 .. m |-> IF j = m THEN Grown(f[m - 1]) ELSE f[j]]
  <2>2. g[0] = {} /\ g[m] = Grown(f[m - 1]) /\ \A i \in 0 .. m - 1 : g[i] = f[i]
    BY <2>1 DEF Stages
  <2> HIDE DEF g
  <2>3. ASSUME NEW i \in 1 .. m PROVE g[i] = Grown(g[i - 1])
    <3>1. i - 1 \in 0 .. m - 1 /\ g[i - 1] = f[i - 1]
      BY <2>2
    <3>2. CASE i = m
      BY <2>2, <3>1, <3>2
    <3>3. CASE i # m
      <4>1. i \in 1 .. m - 1 /\ i \in 0 .. m - 1
        BY <3>3
      <4>2. f[i] = Grown(f[i - 1])
        BY <2>1, <4>1 DEF Stages
      <4> QED BY <2>2, <3>1, <4>1, <4>2
    <3> QED BY <3>2, <3>3
  <2>4. Stages(g, m)
    BY <2>2, <2>3 DEF Stages
  <2> QED BY <2>4
<1>3. 0 .. n \subseteq G
  <2> HIDE DEF G
  <2> QED BY <1>1, <1>2, UpTo
<1> QED BY <1>3

LEMMA LevelStep ==
  /\ Level(0) = {}
  /\ \A n \in Nat : Level(n + 1) = Grown(Level(n))
<1>1. Level(0) = {}
  <2> DEFINE f == CHOOSE h : Stages(h, 0)
  <2>1. Stages(f, 0)
    BY StagesExist
  <2> QED BY <2>1 DEF Level, Stages
<1>2. ASSUME NEW n \in Nat PROVE Level(n + 1) = Grown(Level(n))
  <2> DEFINE f == CHOOSE h : Stages(h, n)
             g == CHOOSE h : Stages(h, n + 1)
  <2>1. n + 1 \in Nat /\ n + 1 - 1 = n /\ n + 1 \in 1 .. n + 1 /\ 1 .. n \subseteq 1 .. n + 1
        /\ n \in 0 .. n
    OBVIOUS
  <2>2. Stages(f, n) /\ Stages(g, n + 1)
    BY <2>1, StagesExist
  <2>3. Level(n) = f[n] /\ Level(n + 1) = g[n + 1]
    BY Zenon DEF Level
  <2> HIDE DEF f, g
  <2>4. f[0] = g[0]
    BY <2>2 DEF Stages
  <2>5. \A i \in 1 .. n : f[i - 1] = g[i - 1] => f[i] = g[i]
    <3> SUFFICES ASSUME NEW i \in 1 .. n, f[i - 1] = g[i - 1] PROVE f[i] = g[i]
      OBVIOUS
    <3>1. i \in 1 .. n + 1
      BY <2>1
    <3>2. f[i] = Grown(f[i - 1]) /\ g[i] = Grown(g[i - 1])
      BY <2>2, <3>1 DEF Stages
    <3> QED BY <3>2
  <2>6. f[n] = g[n]
    BY <2>1, <2>4, <2>5, Recursive
  <2>7. g[n + 1] = Grown(g[n])
    BY <2>1, <2>2 DEF Stages
  <2> QED BY <2>3, <2>6, <2>7
<1> QED BY <1>1, <1>2

LEMMA GrownMonotonic == ASSUME NEW A, NEW B, A \subseteq B PROVE Grown(A) \subseteq Grown(B)
<1>1. Short(A) \subseteq Short(B)
  <2>1. Seq(A) \subseteq Seq(B)
    BY SeqMonotonic
  <2> QED BY <2>1 DEF Short
<1>2. {List(l) : l \in Short(A)} \subseteq {List(l) : l \in Short(B)}
  BY <1>1, Zenon
<1> QED BY <1>2, Zenon DEF Grown

\* A higher level has the values of a lower one.
LEMMA LevelsGrow ==
  ASSUME NEW m \in Nat, NEW n \in Nat, m <= n PROVE Level(m) \subseteq Level(n)
<1>1. ASSUME NEW k \in Nat PROVE Level(k) \subseteq Level(k + 1)
  <2> DEFINE G == {i \in 0 .. k : Level(i) \subseteq Level(i + 1)}
  <2>1. 0 \in G
    BY LevelStep
  <2>2. ASSUME NEW i \in 1 .. k, i - 1 \in G PROVE i \in G
    <3>1. i - 1 \in Nat /\ i \in Nat /\ i - 1 + 1 = i
      OBVIOUS
    <3>2. Level(i - 1) \subseteq Level(i)
      BY <2>2, <3>1
    <3>3. Level(i) = Grown(Level(i - 1)) /\ Level(i + 1) = Grown(Level(i))
      BY <3>1, LevelStep
    <3> QED BY <3>2, <3>3, GrownMonotonic
  <2>3. 0 .. k \subseteq G
    <3> HIDE DEF G
    <3> QED BY <2>1, <2>2, UpTo
  <2> QED BY <2>3
<1> DEFINE G == {i \in 0 .. n - m : Level(m) \subseteq Level(m + i)}
<1>2. 0 \in G
  OBVIOUS
<1>3. ASSUME NEW i \in 1 .. n - m, i - 1 \in G PROVE i \in G
  <2>1. m + (i - 1) \in Nat /\ m + (i - 1) + 1 = m + i
    OBVIOUS
  <2>2. Level(m + (i - 1)) \subseteq Level(m + i)
    BY <1>1, <2>1
  <2> QED BY <1>3, <2>2
<1>4. 0 .. n - m \subseteq G
  <2>1. n - m \in Nat
    OBVIOUS
  <2> HIDE DEF G
  <2> QED BY <1>2, <1>3, <2>1, UpTo
<1>5. n - m \in 0 .. n - m /\ m + (n - m) = n
  OBVIOUS
<1> QED BY <1>4, <1>5

\* The values of one list are on one level.
LEMMA LevelOfList ==
  ASSUME NEW l \in Seq(Val) PROVE \E d \in Nat : l \in Seq(Level(d))
<1>1. PICK n \in Nat : n = Len(l)
  BY LenProperties
<1> DEFINE G == {k \in 0 .. n : \E d \in Nat : \A i \in 1 .. k : l[i] \in Level(d)}
<1>2. 0 \in G
  <2>1. \A i \in 1 .. 0 : l[i] \in Level(0)
    OBVIOUS
  <2> QED BY <2>1
<1>3. ASSUME NEW k \in 1 .. n, k - 1 \in G PROVE k \in G
  <2>1. PICK d \in Nat : \A i \in 1 .. k - 1 : l[i] \in Level(d)
    BY <1>3
  <2>2. l[k] \in Val
    BY <1>1, ElementOfSeq
  <2>3. PICK e \in Nat : l[k] \in Level(e)
    BY <2>2 DEF Val
  <2>4. PICK h \in Nat : d <= h /\ e <= h
    OBVIOUS
  <2>5. Level(d) \subseteq Level(h) /\ Level(e) \subseteq Level(h)
    BY <2>4, LevelsGrow
  <2>6. ASSUME NEW i \in 1 .. k PROVE l[i] \in Level(h)
    <3>1. i = k \/ i \in 1 .. k - 1
      OBVIOUS
    <3> QED BY <2>1, <2>3, <2>5, <3>1
  <2> QED BY <2>6
<1>4. 0 .. n \subseteq G
  <2> HIDE DEF G
  <2> QED BY <1>2, <1>3, UpTo
<1>5. PICK d \in Nat : \A i \in 1 .. n : l[i] \in Level(d)
  <2>1. n \in 0 .. n
    BY <1>1
  <2>2. n \in G
    <3> HIDE DEF G
    <3> QED BY <1>4, <2>1
  <2> QED BY <2>2
<1>6. l = [i \in 1 .. n |-> l[i]]
  BY <1>1, LenProperties
<1>7. [i \in 1 .. n |-> l[i]] \in Seq(Level(d))
  BY <1>5, IsASeq
<1>8. l \in Seq(Level(d))
  BY <1>6, <1>7
<1> QED BY <1>8

\* Every value is an integer in its 64 bits, a string or a short list of values.
LEMMA ValForms ==
  ASSUME NEW x \in Val
  PROVE  \/ \E n \in Int64 : x = Num(n)
         \/ \E s \in Text : x = Str(s)
         \/ \E l \in Seq(Val) : Len(l) <= MaxList /\ x = List(l)
<1>1. PICK n \in Nat : x \in Level(n)
  BY DEF Val
<1>2. n # 0
  BY <1>1, LevelStep
<1>3. n - 1 \in Nat /\ n - 1 + 1 = n
  BY <1>2
<1>4. x \in Grown(Level(n - 1))
  BY <1>1, <1>3, LevelStep
<1>5. CASE x \in {List(l) : l \in Short(Level(n - 1))}
  <2>1. PICK l \in Short(Level(n - 1)) : x = List(l)
    BY <1>5
  <2>2. Level(n - 1) \subseteq Val
    BY <1>3 DEF Val
  <2>3. Seq(Level(n - 1)) \subseteq Seq(Val)
    BY <2>2, SeqMonotonic
  <2>4. l \in Seq(Val) /\ Len(l) <= MaxList
    BY <2>3 DEF Short
  <2> QED BY <2>1, <2>4
<1> QED BY <1>4, <1>5, Zenon DEF Grown

\* Integers in range, strings, and short lists of values are values.
LEMMA ValClosed ==
  /\ \A n \in Int64 : Num(n) \in Val
  /\ \A s \in Text : Str(s) \in Val
  /\ \A l \in Seq(Val) : Len(l) <= MaxList => List(l) \in Val
<1>1. \A d \in Nat : Grown(Level(d)) \subseteq Val
  <2> SUFFICES ASSUME NEW d \in Nat PROVE Grown(Level(d)) \subseteq Val
    OBVIOUS
  <2>1. d + 1 \in Nat /\ Level(d + 1) = Grown(Level(d))
    BY LevelStep
  <2> QED BY <2>1 DEF Val
<1>2. ASSUME NEW n \in Int64 PROVE Num(n) \in Val
  <2>1. Num(n) \in Grown(Level(0))
    BY Zenon DEF Grown
  <2> QED BY <1>1, <2>1
<1>3. ASSUME NEW s \in Text PROVE Str(s) \in Val
  <2>1. Str(s) \in Grown(Level(0))
    BY Zenon DEF Grown
  <2> QED BY <1>1, <2>1
<1>4. ASSUME NEW l \in Seq(Val), Len(l) <= MaxList PROVE List(l) \in Val
  <2>1. PICK d \in Nat : l \in Seq(Level(d))
    BY LevelOfList
  <2>2. l \in Short(Level(d))
    BY <1>4, <2>1 DEF Short
  <2>3. List(l) \in Grown(Level(d))
    BY <2>2, Zenon DEF Grown
  <2> QED BY <1>1, <2>3
<1> QED BY <1>2, <1>3, <1>4

\* What a list shows is a text.
LEMMA ShowListType ==
  ASSUME NEW l, NEW n \in Nat, n = Len(l), \A i \in 1 .. n : l[i].s \in Text
  PROVE  ShowList(l) \in Text
<1> DEFINE piece(i) == IF i = 1 THEN l[i].s ELSE <<44, 32>> \o l[i].s
           pieces == [i \in 1 .. n |-> piece(i)]
           t == Joined(<<91>>, pieces, <<>>)
<1>1. <<91>> \in Text /\ <<44, 32>> \in Text /\ <<46, 46, 46>> \in Text /\ <<93>> \in Text
  BY DEF Text
<1>2. <<>> \in Text
  BY EmptySeq DEF Text
<1>3. \A i \in 1 .. n : piece(i) \in Text
  BY <1>1, TextJoin
<1>4. pieces \in Seq(Text)
  <2> HIDE DEF piece
  <2> QED BY <1>3, IsASeq
<1>5. t \in Text
  <2> HIDE DEF pieces
  <2> QED BY <1>1, <1>2, <1>4, JoinedType
<1>6. ShowList(l) = (IF Len(t) > OutCap THEN t \o <<46, 46, 46>> ELSE t) \o <<93>>
  BY Zenon DEF ShowList
<1> HIDE DEF t
<1>7. (IF Len(t) > OutCap THEN t \o <<46, 46, 46>> ELSE t) \in Text
  BY <1>1, <1>5, TextJoin
<1> QED BY <1>1, <1>6, <1>7, TextJoin

\* Zero and one are integers in range.
LEMMA Bits == 0 \in Int64 /\ 1 \in Int64 /\ Int64 \subseteq Int
BY ValuesAssumption DEF Int64

\* Every value shows a text, and fits.
Shows(x) == x.s \in Text /\ x.fits = TRUE

LEMMA ValShows == ASSUME NEW x \in Val PROVE Shows(x)
<1>1. PICK n \in Nat : x \in Level(n)
  BY DEF Val
<1> DEFINE G == {k \in 0 .. n : \A y \in Level(k) : Shows(y)}
<1>2. 0 \in G
  BY LevelStep
<1>3. ASSUME NEW k \in 1 .. n, k - 1 \in G PROVE k \in G
  <2>1. k - 1 \in Nat /\ k - 1 + 1 = k
    OBVIOUS
  <2>2. Level(k) = Grown(Level(k - 1))
    BY <2>1, LevelStep
  <2>3. ASSUME NEW y \in Level(k) PROVE Shows(y)
    <3>1. CASE y \in {Num(m) : m \in Int64}
      <4>1. PICK m \in Int64 : y = Num(m)
        BY <3>1
      <4>2. y.s = ShowInt(m) /\ y.fits = (m \in Int64)
        BY <4>1 DEF Num
      <4>3. ShowInt(m) \in Text
        BY Bits, ShowIntType
      <4> QED BY <4>2, <4>3 DEF Shows
    <3>2. CASE y \in {Str(s) : s \in Text}
      BY <3>2 DEF Str, Shows
    <3>3. CASE y \in {List(l) : l \in Short(Level(k - 1))}
      <4>1. PICK l \in Short(Level(k - 1)) : y = List(l)
        BY <3>3
      <4>2. l \in Seq(Level(k - 1)) /\ Len(l) <= MaxList
        BY DEF Short
      <4>3. PICK m \in Nat : m = Len(l)
        BY <4>2, LenProperties
      <4>4. DOMAIN l = 1 .. m /\ \A i \in 1 .. m : l[i] \in Level(k - 1)
        BY <4>2, <4>3, LenProperties, ElementOfSeq
      <4>5. \A i \in 1 .. m : Shows(l[i])
        BY <1>3, <4>4
      <4>6. ShowList(l) \in Text
        BY <4>3, <4>5, ShowListType DEF Shows
      <4>7. \A i \in DOMAIN l : l[i].fits
        BY <4>4, <4>5 DEF Shows
      <4>8. y.s = ShowList(l)
        BY <4>1 DEF List
      <4>9. y.fits = (Len(l) <= MaxList /\ \A i \in DOMAIN l : l[i].fits)
        BY <4>1, Zenon DEF List
      <4>10. y.fits = TRUE
        BY <4>2, <4>7, <4>9, Zenon
      <4> QED BY <4>6, <4>8, <4>10 DEF Shows
    <3> QED BY <2>2, <2>3, <3>1, <3>2, <3>3, Zenon DEF Grown
  <2> QED BY <2>3
<1>4. 0 .. n \subseteq G
  <2> HIDE DEF G
  <2> QED BY <1>2, <1>3, UpTo
<1>5. n \in 0 .. n
  OBVIOUS
<1> QED BY <1>1, <1>4, <1>5

\* The fields of a value.
LEMMA ValFields ==
  ASSUME NEW x \in Val
  PROVE  /\ x.kind \in {"int", "str", "list"}
         /\ x.n \in Int64
         /\ x.s \in Text
         /\ x.l \in Seq(Val) /\ Len(x.l) <= MaxList
         /\ x.fits = TRUE
<1>1. x.s \in Text /\ x.fits = TRUE
  BY ValShows DEF Shows
<1>2. <<>> \in Seq(Val) /\ Len(<<>>) = 0 /\ 0 <= MaxList
  BY EmptySeq, ValuesAssumption
<1>3. CASE \E n \in Int64 : x = Num(n)
  BY <1>1, <1>2, <1>3 DEF Num
<1>4. CASE \E s \in Text : x = Str(s)
  BY <1>1, <1>2, <1>4, Bits DEF Str
<1>5. CASE \E l \in Seq(Val) : Len(l) <= MaxList /\ x = List(l)
  <2>1. PICK l \in Seq(Val) : Len(l) <= MaxList /\ x = List(l)
    BY <1>5
  <2>2. x.kind = "list" /\ x.n = 0 /\ x.l = l
    BY <2>1 DEF List
  <2> QED BY <1>1, <2>1, <2>2, Bits
<1> QED BY <1>3, <1>4, <1>5, ValForms

---------------------------------------------------------------------------
(* What operators and builtins make of values: a value, or an error.       *)

IsResult(o) == o = Error \/ \E v \in Val : o = <<v>>

LEMMA ResultOf == ASSUME NEW v \in Val PROVE IsResult(<<v>>)
BY DEF IsResult

LEMMA ErrorResult == IsResult(Error)
BY DEF IsResult

LEMMA TruthType == ASSUME NEW b PROVE Truth(b) \in Val
BY Bits, ValClosed DEF Truth

LEMMA CheckedType == ASSUME NEW n PROVE IsResult(Checked(n))
BY ValClosed, ResultOf, ErrorResult DEF Checked

LEMMA WrappedType == ASSUME NEW n \in Nat PROVE Wrapped(n) \in Int64
<1>1. IntMax \in Nat
  BY ValuesAssumption
<1> DEFINE m == 2 * (IntMax + 1)
           r == (n + IntMax + 1) % m
<1>2. m \in Nat \ {0} /\ n + IntMax + 1 \in Int
  BY <1>1
<1>3. r \in 0 .. m - 1
  <2> HIDE DEF m
  <2> QED BY <1>2
<1> HIDE DEF r
<1>4. r - (IntMax + 1) \in Int64
  BY <1>1, <1>3 DEF Int64
<1> QED BY <1>4 DEF Wrapped, r

\* Signs move out of a product.
LEMMA Signs ==
  ASSUME NEW b \in Int, NEW q \in Int
  PROVE  /\ b * (1 * q) = b * q
         /\ b * (-1 * q) = -(b * q)
         /\ (-b) * q = -(b * q)
OBVIOUS

\* What a quotient towards zero leaves is no further from zero than the number.
LEMMA RestInRange ==
  ASSUME NEW a \in Int64, NEW b \in Int64, b # 0
  PROVE  a - b * Quot(a, b) \in Int64
<1>1. IntMax \in Nat /\ a \in Int /\ b \in Int
  BY ValuesAssumption, Bits
<1>2. /\ a \in Int /\ -IntMax - 1 <= a /\ a <= IntMax
      /\ \A c \in Int : -IntMax - 1 <= c /\ c <= IntMax => c \in Int64
  BY <1>1 DEF Int64
<1>3. Abs(a) \in Nat /\ Abs(b) \in Nat \ {0}
  BY <1>1 DEF Abs
<1>4. PICK A \in Nat, B \in Nat \ {0} : A = Abs(a) /\ B = Abs(b)
  BY <1>3
<1>5. PICK q \in Nat : q = A \div B
  OBVIOUS
<1>6. PICK r \in Nat : r = A % B
  OBVIOUS
<1>7. A = B * q + r
  BY <1>5, <1>6
<1>8. PICK p \in Nat : p = B * q
  OBVIOUS
<1>9. r <= A /\ A = p + r
  BY <1>7, <1>8
<1>10. Quot(a, b) = (IF (a < 0) = (b < 0) THEN 1 ELSE -1) * q
  BY <1>4, <1>5 DEF Quot
<1>11. CASE a >= 0 /\ b > 0
  <2>1. B = b /\ A = a
    BY <1>1, <1>4, <1>11 DEF Abs
  <2>2. Quot(a, b) = 1 * q
    BY <1>1, <1>10, <1>11
  <2>3. b * Quot(a, b) = p
    BY <1>1, <1>8, <2>1, <2>2, Signs
  <2>4. a - b * Quot(a, b) = r
    BY <1>1, <1>9, <2>1, <2>3
  <2>5. -IntMax - 1 <= r /\ r <= IntMax /\ r \in Int
    BY <1>1, <1>2, <1>9, <2>1
  <2> QED BY <1>2, <2>4, <2>5
<1>12. CASE a >= 0 /\ b < 0
  <2>1. B = -b /\ A = a
    BY <1>1, <1>4, <1>12 DEF Abs
  <2>2. Quot(a, b) = -1 * q
    BY <1>1, <1>10, <1>12
  <2>3. b * Quot(a, b) = p
    BY <1>1, <1>8, <2>1, <2>2, Signs
  <2>4. a - b * Quot(a, b) = r
    BY <1>1, <1>9, <2>1, <2>3
  <2>5. -IntMax - 1 <= r /\ r <= IntMax /\ r \in Int
    BY <1>1, <1>2, <1>9, <2>1
  <2> QED BY <1>2, <2>4, <2>5
<1>13. CASE a < 0 /\ b > 0
  <2>1. B = b /\ A = -a
    BY <1>1, <1>4, <1>13 DEF Abs
  <2>2. Quot(a, b) = -1 * q
    BY <1>1, <1>10, <1>13
  <2>3. b * Quot(a, b) = -p
    BY <1>1, <1>8, <2>1, <2>2, Signs
  <2>4. a - b * Quot(a, b) = -r
    BY <1>1, <1>9, <2>1, <2>3
  <2>5. -IntMax - 1 <= -r /\ -r <= IntMax /\ -r \in Int
    BY <1>1, <1>2, <1>9, <2>1
  <2> QED BY <1>2, <2>4, <2>5
<1>14. CASE a < 0 /\ b < 0
  <2>1. B = -b /\ A = -a
    BY <1>1, <1>4, <1>14 DEF Abs
  <2>2. Quot(a, b) = 1 * q
    BY <1>1, <1>10, <1>14
  <2>3. b * Quot(a, b) = -p
    BY <1>1, <1>8, <2>1, <2>2, Signs
  <2>4. a - b * Quot(a, b) = -r
    BY <1>1, <1>9, <2>1, <2>3
  <2>5. -IntMax - 1 <= -r /\ -r <= IntMax /\ -r \in Int
    BY <1>1, <1>2, <1>9, <2>1
  <2> QED BY <1>2, <2>4, <2>5
<1> QED BY <1>1, <1>11, <1>12, <1>13, <1>14

LEMMA ArithType ==
  ASSUME NEW op \in {"+", "-", "*", "/", "%"}, NEW a \in Int64, NEW b \in Int64
  PROVE  IsResult(Arith(op, a, b))
<1>1. CASE op = "+"
  BY <1>1, CheckedType DEF Arith
<1>2. CASE op = "-"
  BY <1>2, CheckedType DEF Arith
<1>3. CASE op = "*"
  BY <1>3, CheckedType DEF Arith
<1>4. CASE op \in {"/", "%"} /\ b = 0
  <2>1. Arith(op, a, b) = Error
    BY <1>4 DEF Arith
  <2> QED BY <2>1, ErrorResult
<1>5. CASE op = "/" /\ b # 0
  BY <1>5, CheckedType DEF Arith
<1>6. CASE op = "%" /\ b # 0
  <2>1. Num(a - b * Quot(a, b)) \in Val
    BY <1>6, RestInRange, ValClosed
  <2>2. Arith(op, a, b) = IF Checked(Quot(a, b)) = Error THEN Error ELSE <<Num(a - b * Quot(a, b))>>
    BY <1>6 DEF Arith
  <2> QED BY <2>1, <2>2, ResultOf, ErrorResult
<1> QED BY <1>1, <1>2, <1>3, <1>4, <1>5, <1>6

LEMMA UnopType == ASSUME NEW op, NEW x \in Val PROVE IsResult(Unop(op, x))
BY TruthType, CheckedType, ResultOf, ErrorResult DEF Unop

LEMMA CompareType ==
  ASSUME NEW op, NEW x \in Val, NEW y \in Val PROVE IsResult(Compare(op, x, y))
BY TruthType, ResultOf, ErrorResult DEF Compare

LEMMA JoinStrType ==
  ASSUME NEW s \in Text, NEW t \in Text PROVE IsResult(JoinStr(s, t))
BY TextJoin, ValClosed, ResultOf, ErrorResult DEF JoinStr

LEMMA JoinListType ==
  ASSUME NEW l \in Seq(Val), NEW k \in Seq(Val) PROVE IsResult(JoinList(l, k))
<1>1. CASE Len(l) + Len(k) > MaxList
  BY <1>1, ErrorResult DEF JoinList
<1>2. CASE ~(Len(l) + Len(k) > MaxList)
  <2>1. l \o k \in Seq(Val) /\ Len(l \o k) = Len(l) + Len(k)
    BY ConcatProperties
  <2>2. Len(l) \in Nat /\ Len(k) \in Nat /\ MaxList \in Nat
    BY LenProperties, ValuesAssumption
  <2>3. Len(l \o k) <= MaxList
    BY <1>2, <2>1, <2>2
  <2>4. List(l \o k) \in Val
    BY <2>1, <2>3, ValClosed
  <2> QED BY <1>2, <2>4, ResultOf DEF JoinList
<1> QED BY <1>1, <1>2

LEMMA BinopType ==
  ASSUME NEW op, NEW x \in Val, NEW y \in Val PROVE IsResult(Binop(op, x, y))
<1> DEFINE numbers == op \in {"+", "-", "*", "/", "%"} /\ x.kind = "int" /\ y.kind = "int"
           strings == op = "+" /\ "str" \in {x.kind, y.kind}
           lists == op = "+" /\ x.kind = "list" /\ y.kind = "list"
<1>1. CASE op = "=="
  <2>1. Binop(op, x, y) = <<Truth(x = y)>>
    BY <1>1 DEF Binop
  <2> QED BY <2>1, TruthType, ResultOf
<1>2. CASE op = "!="
  <2>1. Binop(op, x, y) = <<Truth(x # y)>>
    BY <1>2 DEF Binop
  <2> QED BY <2>1, TruthType, ResultOf
<1>3. CASE op \in {"<", ">", "<=", ">="}
  <2>1. Binop(op, x, y) = Compare(op, x, y)
    BY <1>3 DEF Binop
  <2> QED BY <2>1, CompareType
<1>4. CASE numbers
  <2>1. Binop(op, x, y) = Arith(op, x.n, y.n)
    BY <1>4 DEF Binop
  <2> QED BY <1>4, <2>1, ArithType, ValFields
<1>5. CASE strings
  <2>1. Binop(op, x, y) = JoinStr(x.s, y.s)
    BY <1>5 DEF Binop
  <2> QED BY <2>1, JoinStrType, ValFields
<1>6. CASE lists
  <2>1. Binop(op, x, y) = JoinList(x.l, y.l)
    BY <1>6 DEF Binop
  <2> QED BY <2>1, JoinListType, ValFields
<1>7. CASE ~(op \in {"==", "!=", "<", ">", "<=", ">="} \/ numbers \/ strings \/ lists)
  <2>1. Binop(op, x, y) = Error
    BY <1>7 DEF Binop
  <2> QED BY <2>1, ErrorResult
<1> QED BY <1>1, <1>2, <1>3, <1>4, <1>5, <1>6, <1>7

\* An index that is not refused is a place.
LEMMA IndexPlace ==
  ASSUME NEW i \in Int, NEW n \in Nat PROVE IndexOf(i, n) \in 0 .. n
BY DEF IndexOf

LEMMA ItemType ==
  ASSUME NEW x \in Val, NEW i \in Val PROVE IsResult(Item(x, i))
<1>1. PICK n \in Nat : n = IF x.kind = "str" THEN Len(x.s) ELSE Len(x.l)
  BY ValFields, LenProperties DEF Text
<1>2. i.n \in Int
  BY ValFields, Bits
<1>3. PICK u \in 0 .. n : u = IndexOf(i.n, n)
  BY <1>2, IndexPlace
<1>4. CASE i.kind # "int" \/ x.kind = "int" \/ u = 0
  BY <1>1, <1>3, <1>4, ErrorResult DEF Item
<1>5. CASE ~(i.kind # "int" \/ x.kind = "int" \/ u = 0)
  <2>1. u \in 1 .. n
    BY <1>5
  <2>2. Item(x, i) = <<IF x.kind = "str" THEN Str(<<x.s[u]>>) ELSE x.l[u]>>
    BY <1>1, <1>3, <1>5 DEF Item
  <2>3. CASE x.kind = "str"
    <3>1. x.s[u] \in Int
      BY <1>1, <2>1, <2>3, ValFields, ElementOfSeq DEF Text
    <3>2. <<x.s[u]>> \in Text
      BY <3>1 DEF Text
    <3> QED BY <2>2, <2>3, <3>2, ValClosed, ResultOf
  <2>4. CASE x.kind # "str"
    <3>1. x.l[u] \in Val
      BY <1>1, <2>1, <2>4, ValFields, ElementOfSeq
    <3> QED BY <2>2, <2>4, <3>1, ResultOf
  <2> QED BY <2>3, <2>4
<1> QED BY <1>4, <1>5

LEMMA PushType == ASSUME NEW l \in Val, NEW x \in Val PROVE IsResult(Push(l, x))
<1>1. CASE l.kind # "list" \/ Len(l.l) + 1 > MaxList
  BY <1>1, ErrorResult DEF Push
<1>2. CASE ~(l.kind # "list" \/ Len(l.l) + 1 > MaxList)
  <2>1. l.l \in Seq(Val)
    BY ValFields
  <2>2. Append(l.l, x) \in Seq(Val) /\ Len(Append(l.l, x)) = Len(l.l) + 1
    BY <2>1, AppendProperties
  <2>3. Len(l.l) \in Nat /\ MaxList \in Nat
    BY <2>1, LenProperties, ValuesAssumption
  <2>4. Len(Append(l.l, x)) <= MaxList
    BY <1>2, <2>2, <2>3
  <2>5. List(Append(l.l, x)) \in Val
    BY <2>2, <2>4, ValClosed
  <2> QED BY <1>2, <2>5, ResultOf DEF Push
<1> QED BY <1>1, <1>2

LEMMA HoldsType == ASSUME NEW x \in Val, NEW y \in Val PROVE IsResult(Holds(x, y))
BY ValFields, TruthType, ResultOf, ErrorResult DEF Holds

LEMMA LengthType == ASSUME NEW x \in Val PROVE IsResult(Length(x))
<1>1. Len(x.s) \in Nat /\ Len(x.l) \in Nat
  BY ValFields, LenProperties DEF Text
<1>2. Num(Wrapped(Len(x.s))) \in Val /\ Num(Wrapped(Len(x.l))) \in Val
  BY <1>1, WrappedType, ValClosed
<1> QED BY <1>2, ValFields, ResultOf, ErrorResult DEF Length

\* A text in other cases is a text.
LEMMA CaseType ==
  ASSUME NEW s \in Text
  PROVE  /\ [i \in 1 .. Len(s) |-> Upper(s[i])] \in Text
         /\ [i \in 1 .. Len(s) |-> Lower(s[i])] \in Text
<1>1. PICK n \in Nat : n = Len(s)
  BY LenProperties DEF Text
<1>2. \A i \in 1 .. n : s[i] \in Int
  BY <1>1, ElementOfSeq DEF Text
<1>3. \A i \in 1 .. n : Upper(s[i]) \in Int /\ Lower(s[i]) \in Int
  BY <1>2 DEF Upper, Lower
<1>4. /\ [i \in 1 .. n |-> Upper(s[i])] \in Seq(Int)
      /\ [i \in 1 .. n |-> Lower(s[i])] \in Seq(Int)
  BY <1>3, IsASeq
<1> QED BY <1>1, <1>4 DEF Text

LEMMA BuiltinType ==
  ASSUME NEW name \in Builtins, NEW args \in Seq(Val) PROVE IsResult(Builtin(name, args))
<1>1. CASE Len(args) # (IF name \in {"push", "contains"} THEN 2 ELSE 1)
  BY <1>1, ErrorResult DEF Builtin
<1>2. CASE Len(args) = (IF name \in {"push", "contains"} THEN 2 ELSE 1)
  <2>1. args[1] \in Val
    BY <1>2, ElementOfSeq
  <2>2. name \in {"push", "contains"} => args[2] \in Val
    BY <1>2, ElementOfSeq
  <2>3. Str(args[1].s) \in Val
    BY <2>1, ValFields, ValClosed
  <2>4. /\ Str([i \in 1 .. Len(args[1].s) |-> Upper(args[1].s[i])]) \in Val
        /\ Str([i \in 1 .. Len(args[1].s) |-> Lower(args[1].s[i])]) \in Val
    BY <2>1, ValFields, CaseType, ValClosed
  <2>5. CASE name = "len"
    BY <1>2, <2>1, <2>5, LengthType DEF Builtin
  <2>6. CASE name = "push"
    BY <1>2, <2>1, <2>2, <2>6, PushType DEF Builtin
  <2>7. CASE name = "contains"
    BY <1>2, <2>1, <2>2, <2>7, HoldsType DEF Builtin
  <2>8. CASE name = "str"
    BY <1>2, <2>3, <2>8, ResultOf DEF Builtin
  <2>9. CASE name = "upper"
    BY <1>2, <2>4, <2>9, ResultOf DEF Builtin
  <2>10. CASE name = "lower"
    BY <1>2, <2>4, <2>10, ResultOf DEF Builtin
  <2> QED BY <2>5, <2>6, <2>7, <2>8, <2>9, <2>10 DEF Builtins
<1> QED BY <1>1, <1>2

LEMMA LitType ==
  ASSUME NEW tok \in DOMAIN Numeral \cup DOMAIN Literal PROVE Lit(tok) \in Val
<1>1. CASE tok \in DOMAIN Numeral
  <2>1. Numeral[tok] \in 0 .. IntMax /\ IntMax \in Nat
    BY <1>1, ValuesAssumption
  <2>2. Numeral[tok] \in Int64
    BY <2>1 DEF Int64
  <2> QED BY <1>1, <2>2, ValClosed DEF Lit
<1>2. CASE tok \notin DOMAIN Numeral
  <2>1. Literal[tok] \in Seq(Nat)
    BY <1>2, ValuesAssumption
  <2>2. Literal[tok] \in Text
    BY <2>1, SeqMonotonic DEF Text
  <2> QED BY <1>2, <2>2, ValClosed DEF Lit
<1> QED BY <1>1, <1>2

---------------------------------------------------------------------------
(* Frames and what is printed.                                             *)

Binding == [name : STRING, value : Val]
Bindings == Seq(Binding)

\* A name is bound at places of the frame; the last one is read.
LEMMA GetType ==
  ASSUME NEW f \in Bindings, NEW name, Bound(f, name) PROVE Get(f, name) \in Val
<1>1. PICK n \in Nat : n = Len(f)
  BY LenProperties DEF Bindings
<1> DEFINE at == Places(f, name)
           last == CHOOSE i \in at : \A j \in at : j <= i
<1>2. at \subseteq 1 .. n /\ at # {}
  BY <1>1 DEF Places, Bound
<1> HIDE DEF at
<1>3. \E i \in at : \A j \in at : j <= i
  <2> DEFINE back == {n - i : i \in at}
  <2>1. back \subseteq Nat /\ back # {}
    <3>1. \A i \in at : n - i \in Nat
      BY <1>2
    <3> QED BY <1>2, <3>1
  <2>2. PICK k \in back : \A m \in back : k <= m
    <3> HIDE DEF back
    <3> QED BY <2>1, LeastNumber
  <2>3. PICK i \in at : k = n - i
    BY <2>2
  <2>4. ASSUME NEW j \in at PROVE j <= i
    <3>1. n - i <= n - j
      BY <2>2, <2>3
    <3> QED BY <1>2, <2>3, <3>1
  <2> QED BY <2>3, <2>4
<1>4. last \in at
  BY <1>3
<1>5. Get(f, name) = f[last].value
  BY Zenon DEF Get, at
<1> HIDE DEF last
<1>6. f[last] \in Binding
  BY <1>1, <1>2, <1>4, ElementOfSeq DEF Bindings
<1> QED BY <1>5, <1>6 DEF Binding

\* Setting a variable writes the first place of its name, or makes one.
WritesAt(f, g, name, x, u) ==
  /\ g \in Bindings /\ Len(f) \in Nat
  /\ u \in 1 .. Len(f) + 1 /\ u <= Len(g)
  /\ Len(g) = IF u <= Len(f) THEN Len(f) ELSE Len(f) + 1
  /\ u <= Len(f) => f[u].name = name
  /\ g[u] = [name |-> name, value |-> x]
  /\ \A i \in 1 .. Len(f) : i # u => g[i] = f[i]

LEMMA SetVarWrites ==
  ASSUME NEW f \in Bindings, NEW name \in STRING, NEW x \in Val
  PROVE  \E u : WritesAt(f, SetVar(f, name, x), name, x, u)
<1>1. PICK n \in Nat : n = Len(f)
  BY LenProperties DEF Bindings
<1> DEFINE at == Places(f, name)
           b == [name |-> name, value |-> x]
<1>2. b \in Binding
  BY DEF Binding
<1>3. CASE at = {}
  <2>1. SetVar(f, name, x) = Append(f, b)
    BY <1>3 DEF SetVar
  <2>2. /\ Append(f, b) \in Seq(Binding) /\ Len(Append(f, b)) = n + 1
        /\ \A i \in 1 .. n : Append(f, b)[i] = f[i]
        /\ Append(f, b)[n + 1] = b
    <3> HIDE DEF b
    <3> QED BY <1>1, <1>2, AppendProperties DEF Bindings
  <2>3. n + 1 \in 1 .. n + 1 /\ ~(n + 1 <= n)
    OBVIOUS
  <2>4. WritesAt(f, Append(f, b), name, x, n + 1)
    BY <1>1, <2>2, <2>3 DEF WritesAt, Bindings
  <2> QED BY <2>1, <2>4
<1>4. CASE at # {}
  <2> DEFINE first == CHOOSE i \in at : \A j \in at : i <= j
  <2>1. at \subseteq 1 .. n
    BY <1>1 DEF Places
  <2>2. \E i \in at : \A j \in at : i <= j
    <3> HIDE DEF at
    <3>1. at \subseteq Nat
      BY <2>1
    <3> QED BY <1>4, <3>1, LeastNumber
  <2>3. first \in at
    <3> HIDE DEF at
    <3> QED BY <2>2
  <2>4. SetVar(f, name, x) = [f EXCEPT ![first].value = x]
    BY <1>4, Zenon DEF SetVar
  <2> HIDE DEF first
  <2>5. first \in 1 .. n /\ f[first].name = name
    BY <2>1, <2>3 DEF Places
  <2>6. f[first] \in Binding
    BY <1>1, <2>5, ElementOfSeq DEF Bindings
  <2>7. [f[first] EXCEPT !.value = x] = b
    BY <2>5, <2>6 DEF Binding
  <2>8. [f EXCEPT ![first].value = x] = [f EXCEPT ![first] = b]
    <3>1. [f EXCEPT ![first].value = x] = [f EXCEPT ![first] = [f[first] EXCEPT !.value = x]]
      BY <1>1, <2>5, LenProperties DEF Bindings
    <3> QED BY <2>7, <3>1
  <2>9. /\ [f EXCEPT ![first] = b] \in Seq(Binding) /\ Len([f EXCEPT ![first] = b]) = n
        /\ \A j \in 1 .. n : [f EXCEPT ![first] = b][j] = IF j = first THEN b ELSE f[j]
    <3> HIDE DEF b
    <3> QED BY <1>1, <1>2, <2>5, ExceptSeq DEF Bindings
  <2> DEFINE g == [f EXCEPT ![first] = b]
  <2>10. g \in Bindings /\ Len(g) = n /\ g[first] = b /\ \A j \in 1 .. n : j # first => g[j] = f[j]
    BY <2>5, <2>9 DEF Bindings
  <2> HIDE DEF g
  <2>11. WritesAt(f, g, name, x, first)
    BY <1>1, <2>5, <2>10 DEF WritesAt
  <2> QED BY <2>4, <2>8, <2>11 DEF g
<1> QED BY <1>3, <1>4

LEMMA SetVarType ==
  ASSUME NEW f \in Bindings, NEW name \in STRING, NEW x \in Val
  PROVE  SetVar(f, name, x) \in Bindings
BY SetVarWrites DEF WritesAt

\* A call's frame starts with its parameters.
LEMMA ArgumentsType ==
  ASSUME NEW t, NEW args \in Seq(Val), t.params \in Seq(STRING), Len(t.params) = Len(args)
  PROVE  Arguments(t, args) \in Bindings
<1>1. PICK n \in Nat : n = Len(args)
  BY LenProperties
<1>2. \A i \in 1 .. n : t.params[i] \in STRING /\ args[i] \in Val
  BY <1>1, ElementOfSeq
<1>3. \A i \in 1 .. n : [name |-> t.params[i], value |-> args[i]] \in Binding
  BY <1>2 DEF Binding
<1>4. [i \in 1 .. n |-> [name |-> t.params[i], value |-> args[i]]] \in Seq(Binding)
  BY <1>3, IsASeq
<1> QED BY <1>1, <1>4 DEF Arguments, Bindings

LEMMA LineType == ASSUME NEW vals \in Seq(Val) PROVE Line(vals) \in Text
<1>1. PICK n \in Nat : n = Len(vals)
  BY LenProperties
<1>2. \A i \in 1 .. n : vals[i].s \in Text
  <2> SUFFICES ASSUME NEW i \in 1 .. n PROVE vals[i].s \in Text
    OBVIOUS
  <2>1. vals[i] \in Val
    BY <1>1, ElementOfSeq
  <2> QED BY <2>1, ValFields
<1>3. [i \in 1 .. n |-> vals[i].s] \in Seq(Text)
  BY <1>2, IsASeq
<1>4. <<>> \in Text /\ <<32>> \in Text
  BY EmptySeq DEF Text
<1> DEFINE pieces == [i \in 1 .. n |-> vals[i].s]
<1>5. Line(vals) = Joined(<<>>, pieces, <<32>>)
  BY <1>1, Zenon DEF Line
<1> HIDE DEF pieces
<1>6. pieces \in Seq(Text)
  BY <1>3 DEF pieces
<1> QED BY <1>4, <1>5, <1>6, JoinedType

\* A line that is printed is cut to the room there is; only the separator
\* before it may cross the cap.
LEMMA EmitFits ==
  ASSUME NEW o \in Text, NEW s \in Text, Len(o) <= OutCap + 2
  PROVE  Emit(o, s) \in Text /\ Len(Emit(o, s)) <= OutCap + 2
<1>1. CASE Len(o) >= OutCap
  <2>1. Len(o) \in Nat /\ OutCap \in Nat
    BY LenProperties, ValuesAssumption DEF Text
  <2>2. Emit(o, s) = o
    <3>1. ~(Len(o) < OutCap)
      BY <1>1, <2>1
    <3> QED BY <3>1, Zenon DEF Emit
  <2> QED BY <2>2
<1>2. CASE ~(Len(o) >= OutCap)
  <2> DEFINE led == IF o = <<>> THEN o ELSE o \o <<32, 124, 32>>
             room == IF Len(led) < OutCap THEN OutCap - Len(led) ELSE 0
             cut == IF Len(s) < room THEN Len(s) ELSE room
  <2>1. Len(o) \in Nat /\ Len(s) \in Nat /\ OutCap \in Nat \ {0}
    BY LenProperties, ValuesAssumption DEF Text
  <2>2. led \in Text /\ Len(led) \in Nat /\ Len(led) <= OutCap + 2
    <3>1. <<32, 124, 32>> \in Seq(Int) /\ Len(<<32, 124, 32>>) = 3
      OBVIOUS
    <3>2. o \o <<32, 124, 32>> \in Text /\ Len(o \o <<32, 124, 32>>) = Len(o) + 3
      BY <3>1, ConcatProperties DEF Text
    <3>3. Len(o) + 3 <= OutCap + 2 /\ Len(o) + 3 \in Nat /\ Len(o) <= OutCap + 2
      BY <1>2, <2>1
    <3> QED BY <2>1, <3>2, <3>3
  <2>3. Emit(o, s) = led \o SubSeq(s, 1, cut)
    <3>1. Len(o) < OutCap
      BY <1>2, <2>1
    <3> QED BY <3>1, Zenon DEF Emit
  <2> HIDE DEF led
  <2>4. cut \in Nat /\ cut <= Len(s) /\ cut <= room /\ room \in Nat
    BY <2>1, <2>2
  <2>5. room + Len(led) <= OutCap + 2
    BY <2>1, <2>2
  <2> HIDE DEF room, cut
  <2>6. \A i \in 1 .. cut : s[i] \in Int
    <3> SUFFICES ASSUME NEW i \in 1 .. cut PROVE s[i] \in Int
      OBVIOUS
    <3>1. i \in 1 .. Len(s)
      BY <2>1, <2>4
    <3> QED BY <3>1, ElementOfSeq DEF Text
  <2>7. SubSeq(s, 1, cut) \in Seq(Int) /\ Len(SubSeq(s, 1, cut)) = IF 1 <= cut THEN cut - 1 + 1 ELSE 0
    <3>1. 1 \in Int /\ cut \in Int
      BY <2>4
    <3> QED BY <2>6, <3>1, SubSeqProperties
  <2>8. (IF 1 <= cut THEN cut - 1 + 1 ELSE 0) = cut
    BY <2>4
  <2>9. Emit(o, s) \in Seq(Int) /\ Len(Emit(o, s)) = Len(led) + Len(SubSeq(s, 1, cut))
    BY <2>2, <2>3, <2>7, ConcatProperties DEF Text
  <2>10. Len(led) + cut <= OutCap + 2
    BY <2>1, <2>2, <2>4, <2>5
  <2> QED BY <2>7, <2>8, <2>9, <2>10 DEF Text
<1>3. Len(o) \in Nat /\ OutCap \in Nat
  BY LenProperties, ValuesAssumption DEF Text
<1> QED BY <1>1, <1>2, <1>3

---------------------------------------------------------------------------
(* The shape of the stack.  Frames are opened and closed with the calls on *)
(* it, each activation is for a part of the one around it, and the height  *)
(* of its tree is what the stack can still grow by in its call.            *)

\* How many frames there are where the parts of an activation run.
Home(a) == Len(a.kept) + (IF a.open /\ a.node.op = "call" THEN 1 ELSE 0)

Blocks == {"program", "call", "if", "repeat", "while"}

\* A statement of the body that a has open.
Doable(u, a, root) ==
  /\ u.op \in StmtOp
  /\ IF a.node.op = "call" THEN u.high < root.high
     ELSE u.high < a.node.high /\ u.binds \subseteq a.node.binds

Affordable(a) == a.node.op = "list" => Len(a.node.es) <= MaxList

Sound(a, root) ==
  /\ a.open => /\ a.node.op \in Blocks /\ (a.node.op = "repeat" => a.vals # <<>>)
               /\ \A i \in 1..Len(a.todo) : Doable(a.todo[i], a, root)
  /\ ~a.open => Len(a.vals) <= Len(a.node.es)
  /\ a.vals # <<>> => Affordable(a)

\* The place in the stack, and the levels still to go in this call.
Height(j, a, root) == j + a.node.high <= Len(a.kept) * root.high + 1

\* An expression is evaluated for an operand that is not there yet.
Awaits(a) == ~a.open /\ Len(a.vals) < Len(a.node.es) /\ Affordable(a)
Link(a, b) == Len(b.kept) = Home(a) /\ (b.node.op \in ExprOp => Awaits(a))

\* Between two activations in one call: above an expression there are only
\* expressions, and a statement names no more variables than those around it.
Above(a, b) ==
  /\ Home(a) <= Len(b.kept)
  /\ Len(a.kept) = Len(b.kept) =>
       /\ a.node.op \in ExprOp => b.node.op \in ExprOp
       /\ b.node.op \in ExprOp \/ b.node.binds \subseteq a.node.binds

Shape(s, n, root) ==
  /\ Len(s) >= 1 /\ s[1].node = root /\ s[1].open = TRUE /\ Len(s[1].kept) = 1
  /\ Home(s[Len(s)]) = n
  /\ \A j \in 1..Len(s) :
       Sound(s[j], root) /\ Height(j, s[j], root) /\ (j > 1 => s[j].node.op # "program")
  /\ \A j \in 1..(Len(s) - 1) : Link(s[j], s[j + 1])
  /\ \A k \in 1..Len(s) : \A j \in 1..(k - 1) : Above(s[j], s[k])

Activation == [node : Tree, vals : Seq(Val), open : BOOLEAN, todo : Seq(Tree), kept : Seq(Bindings)]

LEMMA TreeFields ==
  ASSUME NEW t \in Tree
  PROVE  /\ t.op \in ExprOp \cup StmtOp \cup {"program"} /\ t.name \in STRING
         /\ t.params \in Seq(STRING)
         /\ t.es \in Seq(Tree) /\ Len(t.es) \in Nat
         /\ t.body \in Seq(Tree) /\ t.other \in Seq(Tree)
         /\ t.high \in Nat \ {0}
         /\ WellFormed(t)
<1>1. t \in [op : ExprOp \cup StmtOp \cup {"program"}, name : STRING, params : Seq(STRING),
             es : Seq(Tree), body : Seq(Tree), other : Seq(Tree),
             high : Nat \ {0}, binds : SUBSET STRING]
  BY TreeAssumption
<1>2. WellFormed(t)
  BY TreeAssumption
<1>3. t.es \in Seq(Tree)
  BY <1>1
<1> QED BY <1>1, <1>2, <1>3, LenProperties

LEMMA OperandOf ==
  ASSUME NEW t \in Tree, NEW i \in 1..Len(t.es)
  PROVE  t.es[i] \in Tree /\ t.es[i].op \in ExprOp /\ t.es[i].high < t.high
<1>1. t.es \in Seq(Tree) /\ WellFormed(t)
  BY TreeFields
<1>2. t.es[i] \in Tree /\ t.es[i] \in ToSet(t.es)
  BY <1>1, ElementOfSeq, LenProperties DEF ToSet
<1> QED BY <1>1, <1>2, Zenon DEF WellFormed

LEMMA StatementOf ==
  ASSUME NEW t \in Tree, NEW b \in {t.body, t.other}, NEW i \in 1..Len(b)
  PROVE  /\ b[i].op \in StmtOp /\ b[i].high < t.high
         /\ t.op # "fn" => b[i].binds \subseteq t.binds
<1>1. t.body \in Seq(Tree) /\ t.other \in Seq(Tree) /\ WellFormed(t)
  BY TreeFields
<1>2. b[i] \in ToSet(t.body) \cup ToSet(t.other)
  BY <1>1, LenProperties DEF ToSet
<1> QED BY <1>1, <1>2, Zenon DEF WellFormed

LEMMA ActivationFields ==
  ASSUME NEW a \in Activation
  PROVE  /\ a.node \in Tree /\ a.vals \in Seq(Val) /\ a.open \in BOOLEAN
         /\ a.todo \in Seq(Tree) /\ a.kept \in Seq(Bindings)
         /\ Len(a.kept) \in Nat /\ Len(a.vals) \in Nat /\ Len(a.todo) \in Nat
         /\ Home(a) \in Nat /\ Len(a.kept) <= Home(a)
<1>1. /\ a.node \in Tree /\ a.vals \in Seq(Val) /\ a.open \in BOOLEAN
      /\ a.todo \in Seq(Tree) /\ a.kept \in Seq(Bindings)
  BY DEF Activation
<1>2. Len(a.kept) \in Nat /\ Len(a.vals) \in Nat /\ Len(a.todo) \in Nat
  BY <1>1, LenProperties
<1>3. PICK k \in Nat : k = Len(a.kept)
  BY <1>2
<1>4. Home(a) = k + (IF a.open /\ a.node.op = "call" THEN 1 ELSE 0)
  BY <1>3 DEF Home
<1>5. Home(a) \in Nat /\ k <= Home(a)
  BY <1>4
<1> QED BY <1>1, <1>2, <1>3, <1>5

LEMMA FrontFacts ==
  ASSUME NEW S, NEW s \in Seq(S), s # <<>>
  PROVE  /\ Front(s) \in Seq(S) /\ Len(Front(s)) = Len(s) - 1
         /\ \A i \in 1..(Len(s) - 1) : Front(s)[i] = s[i]
         /\ Last(s) = s[Len(s)] /\ Last(s) \in S
         /\ Len(s) \in Nat \ {0}
<1>1. Len(s) \in Nat \ {0}
  BY EmptySeq
<1>2. Front(s) \in Seq(S) /\ Last(s) \in S /\ s = Append(Front(s), Last(s))
  BY FrontAndLast
<1>3. /\ Len(Append(Front(s), Last(s))) = Len(Front(s)) + 1
      /\ \A i \in 1..Len(Front(s)) : Append(Front(s), Last(s))[i] = Front(s)[i]
  BY <1>2, AppendProperties
<1>4. Len(Front(s)) \in Nat
  BY <1>2, LenProperties
<1>5. Len(Front(s)) = Len(s) - 1
  BY <1>1, <1>2, <1>3, <1>4
<1>6. \A i \in 1..(Len(s) - 1) : Front(s)[i] = s[i]
  BY <1>2, <1>3, <1>5
<1>7. Last(s) = s[Len(s)]
  BY DEF Last
<1> QED BY <1>1, <1>2, <1>5, <1>6, <1>7

\* What is above an activation says nothing of its values: only its tree, the
\* frames it keeps and whether it is a call under way.
LEMMA SameBelow ==
  ASSUME NEW a, NEW b, NEW c, b.node = a.node, b.kept = a.kept
  PROVE  /\ Above(c, a) => Above(c, b)
         /\ Link(c, a) => Link(c, b)
         /\ \A j, root : Height(j, a, root) => Height(j, b, root)
BY DEF Above, Link, Height

\* The innermost activation changes, but not what it is for.
LEMMA ShapeChange ==
  ASSUME NEW s \in Seq(Activation), NEW n, NEW root, Shape(s, n, root), NEW a \in Activation,
         a.node = s[Len(s)].node, a.kept = s[Len(s)].kept, Sound(a, root),
         Len(s) = 1 => a.open = TRUE
  PROVE  /\ [s EXCEPT ![Len(s)] = a] \in Seq(Activation)
         /\ Shape([s EXCEPT ![Len(s)] = a], Home(a), root)
<1>1. PICK m \in Nat \ {0} : m = Len(s)
  BY LenProperties DEF Shape
<1> DEFINE t == [s EXCEPT ![Len(s)] = a]
<1>2. t \in Seq(Activation) /\ Len(t) = m /\ \A j \in 1..m : t[j] = IF j = m THEN a ELSE s[j]
  BY <1>1, ExceptSeq
<1> HIDE DEF t
<1>3. t[m] = a /\ (\A j \in 1..m : j # m => t[j] = s[j]) /\ a.node = s[m].node /\ a.kept = s[m].kept
  BY <1>1, <1>2
<1>4. t[1].node = root /\ t[1].open = TRUE /\ Len(t[1].kept) = 1
  <2>1. CASE m = 1
    BY <1>1, <1>3, <2>1 DEF Shape
  <2>2. CASE m # 1
    BY <1>1, <1>3, <2>2 DEF Shape
  <2> QED BY <2>1, <2>2
<1>5. ASSUME NEW j \in 1..m
      PROVE  Sound(t[j], root) /\ Height(j, t[j], root) /\ (j > 1 => t[j].node.op # "program")
  <2>1. Sound(s[j], root) /\ Height(j, s[j], root) /\ (j > 1 => s[j].node.op # "program")
    BY <1>1 DEF Shape
  <2>2. CASE j = m
    <3>1. t[j] = a /\ a.node = s[j].node /\ a.kept = s[j].kept
      BY <1>3, <2>2
    <3>2. Height(j, a, root)
      BY <2>1, <3>1, SameBelow, Zenon
    <3> QED BY <2>1, <3>1, <3>2
  <2>3. CASE j # m
    BY <1>3, <2>1, <2>3
  <2> QED BY <2>2, <2>3
<1>6. ASSUME NEW j \in 1..(m - 1) PROVE Link(t[j], t[j + 1])
  <2>1. Link(s[j], s[j + 1]) /\ j \in 1..m /\ j + 1 \in 1..m /\ j # m
    BY <1>1 DEF Shape
  <2>2. t[j] = s[j]
    BY <1>3, <2>1
  <2>3. CASE j + 1 = m
    <3>1. t[j + 1] = a /\ a.node = s[j + 1].node /\ a.kept = s[j + 1].kept
      BY <1>3, <2>3
    <3> QED BY <2>1, <2>2, <3>1, SameBelow, Zenon
  <2>4. CASE j + 1 # m
    BY <1>3, <2>1, <2>2, <2>4
  <2> QED BY <2>3, <2>4
<1>7. ASSUME NEW k \in 1..m, NEW j \in 1..(k - 1) PROVE Above(t[j], t[k])
  <2>1. Above(s[j], s[k]) /\ j \in 1..m /\ j # m
    BY <1>1 DEF Shape
  <2>2. t[j] = s[j]
    BY <1>3, <2>1
  <2>3. CASE k = m
    <3>1. t[k] = a /\ a.node = s[k].node /\ a.kept = s[k].kept
      BY <1>3, <2>3
    <3> QED BY <2>1, <2>2, <3>1, SameBelow, Zenon
  <2>4. CASE k # m
    BY <1>3, <2>1, <2>2, <2>4
  <2> QED BY <2>3, <2>4
<1>8. Len(t) >= 1 /\ Home(t[Len(t)]) = Home(a)
  BY <1>1, <1>2, <1>3
<1>9. Shape(t, Home(a), root)
  BY <1>2, <1>4, <1>5, <1>6, <1>7, <1>8 DEF Shape
<1> QED BY <1>2, <1>9 DEF t

\* The innermost activation is left.
LEMMA ShapePop ==
  ASSUME NEW s \in Seq(Activation), NEW n, NEW root, Shape(s, n, root), Len(s) > 1
  PROVE  /\ Front(s) \in Seq(Activation)
         /\ Shape(Front(s), Len(s[Len(s)].kept), root)
<1>1. PICK m \in Nat \ {0} : m = Len(s) - 1 /\ m + 1 = Len(s)
  BY LenProperties
<1>2. s # <<>>
  BY EmptySeq
<1>3. Front(s) \in Seq(Activation) /\ Len(Front(s)) = m /\ \A i \in 1..m : Front(s)[i] = s[i]
  BY <1>1, <1>2, FrontFacts
<1>4. /\ Len(s) = m + 1 /\ s[1].node = root /\ s[1].open = TRUE /\ Len(s[1].kept) = 1
      /\ \A j \in 1..m + 1 :
           Sound(s[j], root) /\ Height(j, s[j], root) /\ (j > 1 => s[j].node.op # "program")
      /\ \A j \in 1..m : Link(s[j], s[j + 1])
      /\ \A k \in 1..m + 1 : \A j \in 1..(k - 1) : Above(s[j], s[k])
  BY <1>1 DEF Shape
<1> DEFINE t == Front(s)
<1>5. /\ Len(t) >= 1 /\ t[1].node = root /\ t[1].open = TRUE /\ Len(t[1].kept) = 1
  BY <1>3, <1>4
<1>6. Home(t[Len(t)]) = Len(s[Len(s)].kept)
  BY <1>3, <1>4 DEF Link
<1>7. \A j \in 1..m :
        Sound(t[j], root) /\ Height(j, t[j], root) /\ (j > 1 => t[j].node.op # "program")
  BY <1>3, <1>4
<1>8. ASSUME NEW j \in 1..(m - 1) PROVE Link(t[j], t[j + 1])
  <2>1. j \in 1..m /\ j + 1 \in 1..m
    OBVIOUS
  <2> QED BY <1>3, <1>4, <2>1
<1>9. ASSUME NEW k \in 1..m, NEW j \in 1..(k - 1) PROVE Above(t[j], t[k])
  <2>1. j \in 1..m /\ k \in 1..m + 1
    OBVIOUS
  <2> QED BY <1>3, <1>4, <2>1
<1>10. Shape(t, Len(s[Len(s)].kept), root)
  BY <1>3, <1>5, <1>6, <1>7, <1>8, <1>9 DEF Shape
<1> QED BY <1>3, <1>10

\* What may be begun for the activation a.
Child(t, a, root) ==
  \/ Awaits(a) /\ t.op \in ExprOp /\ t.high < a.node.high
  \/ a.open /\ a.node.op \in Blocks /\ Doable(t, a, root)

LEMMA OpsDisjoint ==
  /\ ExprOp \cap StmtOp = {} /\ "program" \notin ExprOp \cup StmtOp
  /\ "call" \in ExprOp /\ Blocks \cap ExprOp = {"call"}
BY DEF ExprOp, StmtOp, Blocks

LEMMA Levels ==
  ASSUME NEW j \in Nat, NEW x \in Nat \ {0}, NEW y \in Nat, NEW r \in Nat, NEW p \in Int,
         j + x <= p + 1
  PROVE  /\ y < x => j + 1 + y <= p + 1
         /\ y < r => j + 1 + y <= p + r + 1
OBVIOUS

\* A new activation goes less high than the one it is for, or starts a call.
LEMMA HeightUnder ==
  ASSUME NEW a \in Activation, NEW b \in Activation, NEW root \in Tree, NEW j \in Nat \ {0},
         Height(j, a, root), Child(b.node, a, root), Len(b.kept) = Home(a)
  PROVE  Height(j + 1, b, root)
<1>1. PICK ha \in Nat \ {0}, hb \in Nat \ {0}, r \in Nat \ {0} :
        ha = a.node.high /\ hb = b.node.high /\ r = root.high
  BY ActivationFields, TreeFields
<1>2. PICK k \in Nat : k = Len(a.kept)
  BY ActivationFields
<1>3. PICK p \in Int : p = k * r
  OBVIOUS
<1>4. j + ha <= p + 1
  BY <1>1, <1>2, <1>3 DEF Height
<1>5. CASE a.open /\ a.node.op = "call"
  <2>1. hb < r
    BY <1>1, <1>5, OpsDisjoint DEF Child, Awaits, Doable
  <2>2. Len(b.kept) = k + 1
    BY <1>2, <1>5 DEF Home
  <2>3. (k + 1) * r = p + r
    BY <1>3
  <2>4. j + 1 + hb <= p + r + 1
    BY <1>4, <2>1, Levels
  <2> QED BY <1>1, <2>2, <2>3, <2>4 DEF Height
<1>6. CASE ~(a.open /\ a.node.op = "call")
  <2>1. hb < ha
    BY <1>1, <1>6 DEF Child, Doable
  <2>2. Len(b.kept) = k
    <3>1. Home(a) = k + 0
      BY <1>2, <1>6 DEF Home
    <3> QED BY <1>2, <3>1
  <2>3. j + 1 + hb <= p + 1
    BY <1>4, <2>1, Levels
  <2> QED BY <1>1, <1>3, <2>2, <2>3 DEF Height
<1> QED BY <1>5, <1>6

LEMMA AboveChild ==
  ASSUME NEW a \in Activation, NEW b \in Activation, NEW root,
         Child(b.node, a, root), Len(b.kept) = Home(a)
  PROVE  Above(a, b) /\ Link(a, b)
<1>1. PICK k \in Nat : k = Len(a.kept)
  BY ActivationFields
<1>2. Home(a) = k + (IF a.open /\ a.node.op = "call" THEN 1 ELSE 0)
  BY <1>1 DEF Home
<1>3. Home(a) \in Nat
  BY <1>2
<1>4. ASSUME Len(a.kept) = Len(b.kept) PROVE ~(a.open /\ a.node.op = "call")
  BY <1>1, <1>2, <1>4
<1>5. CASE Awaits(a) /\ b.node.op \in ExprOp
  BY <1>3, <1>5 DEF Above, Link
<1>6. CASE a.open /\ a.node.op \in Blocks /\ Doable(b.node, a, root)
  <2>1. b.node.op \notin ExprOp
    BY <1>6, OpsDisjoint DEF Doable
  <2>2. a.node.op # "call" => a.node.op \notin ExprOp /\ b.node.binds \subseteq a.node.binds
    BY <1>6, OpsDisjoint DEF Doable
  <2> QED BY <1>3, <1>4, <1>6, <2>1, <2>2 DEF Above, Link
<1> QED BY <1>5, <1>6 DEF Child

LEMMA AboveTransitive ==
  ASSUME NEW a \in Activation, NEW b \in Activation, NEW c \in Activation,
         Above(a, b), Above(b, c)
  PROVE  Above(a, c)
<1>1. /\ Len(a.kept) \in Nat /\ Home(a) \in Nat /\ Len(a.kept) <= Home(a)
      /\ Len(b.kept) \in Nat /\ Home(b) \in Nat /\ Len(b.kept) <= Home(b)
      /\ Len(c.kept) \in Nat
  BY ActivationFields
<1>2. Home(a) <= Len(b.kept) /\ Home(b) <= Len(c.kept)
  BY DEF Above
<1>3. Home(a) <= Len(c.kept)
  BY <1>1, <1>2
<1>4. ASSUME Len(a.kept) = Len(c.kept) PROVE Len(a.kept) = Len(b.kept) /\ Len(b.kept) = Len(c.kept)
  BY <1>1, <1>2, <1>4
<1>5. ASSUME Len(a.kept) = Len(c.kept)
      PROVE  /\ a.node.op \in ExprOp => c.node.op \in ExprOp
             /\ c.node.op \in ExprOp \/ c.node.binds \subseteq a.node.binds
  <2>1. /\ a.node.op \in ExprOp => b.node.op \in ExprOp
        /\ b.node.op \in ExprOp \/ b.node.binds \subseteq a.node.binds
        /\ b.node.op \in ExprOp => c.node.op \in ExprOp
        /\ c.node.op \in ExprOp \/ c.node.binds \subseteq b.node.binds
    BY <1>4, <1>5, Zenon DEF Above
  <2> QED BY <2>1
<1> QED BY <1>3, <1>5 DEF Above

\* An activation is begun.
LEMMA ShapePush ==
  ASSUME NEW s \in Seq(Activation), NEW n \in Nat, NEW root \in Tree, Shape(s, n, root),
         NEW b \in Activation, Len(b.kept) = n, b.open = FALSE, b.vals = <<>>,
         Child(b.node, s[Len(s)], root)
  PROVE  /\ Append(s, b) \in Seq(Activation)
         /\ Shape(Append(s, b), n, root)
<1>1. PICK m \in Nat \ {0} : m = Len(s)
  BY LenProperties DEF Shape
<1> DEFINE t == Append(s, b)
           a == s[m]
<1>2. t \in Seq(Activation) /\ Len(t) = m + 1 /\ (\A j \in 1..m : t[j] = s[j]) /\ t[m + 1] = b
  BY <1>1, AppendProperties
<1> HIDE DEF t
<1>3. /\ s[1].node = root /\ s[1].open = TRUE /\ Len(s[1].kept) = 1 /\ Home(a) = n
      /\ \A j \in 1..m :
           Sound(s[j], root) /\ Height(j, s[j], root) /\ (j > 1 => s[j].node.op # "program")
      /\ \A j \in 1..(m - 1) : Link(s[j], s[j + 1])
      /\ \A k \in 1..m : \A j \in 1..(k - 1) : Above(s[j], s[k])
  BY <1>1 DEF Shape
<1>4. \A j \in 1..m : s[j] \in Activation
  BY <1>1, ElementOfSeq
<1>5. a \in Activation /\ Height(m, a, root) /\ Child(b.node, a, root) /\ Len(b.kept) = Home(a)
  BY <1>1, <1>3, <1>4
<1>6. Height(m + 1, b, root) /\ Above(a, b) /\ Link(a, b)
  BY <1>5, HeightUnder, AboveChild
<1>7. Sound(b, root)
  <2>1. Len(b.vals) = 0 /\ Len(b.node.es) \in Nat
    BY EmptySeq, ActivationFields, TreeFields
  <2> QED BY <2>1 DEF Sound
<1>8. b.node.op # "program"
  BY <1>5, OpsDisjoint DEF Child, Doable
<1>9. Home(b) = n
  <2>1. Home(b) = Len(b.kept) + 0
    BY DEF Home
  <2> QED BY <2>1
<1>10. t[1].node = root /\ t[1].open = TRUE /\ Len(t[1].kept) = 1
  BY <1>2, <1>3
<1>11. ASSUME NEW j \in 1..m + 1
       PROVE  Sound(t[j], root) /\ Height(j, t[j], root) /\ (j > 1 => t[j].node.op # "program")
  <2>1. CASE j \in 1..m
    BY <1>2, <1>3, <2>1
  <2>2. CASE j = m + 1
    BY <1>2, <1>6, <1>7, <1>8, <2>2
  <2> QED BY <2>1, <2>2
<1>12. ASSUME NEW j \in 1..m PROVE Link(t[j], t[j + 1])
  <2>1. CASE j = m
    BY <1>2, <1>6, <2>1
  <2>2. CASE j # m
    <3>1. j \in 1..(m - 1) /\ j + 1 \in 1..m
      BY <2>2
    <3> QED BY <1>2, <1>3, <3>1
  <2> QED BY <2>1, <2>2
<1>13. ASSUME NEW k \in 1..m + 1, NEW j \in 1..(k - 1) PROVE Above(t[j], t[k])
  <2>1. CASE k \in 1..m
    <3>1. j \in 1..m
      BY <2>1
    <3> QED BY <1>2, <1>3, <2>1, <3>1
  <2>2. CASE k = m + 1
    <3>1. j \in 1..m /\ t[j] = s[j] /\ t[k] = b
      BY <1>2, <2>2
    <3>2. CASE j = m
      BY <1>6, <3>1, <3>2
    <3>3. CASE j # m
      <4>1. j \in 1..(m - 1) /\ m \in 1..m
        BY <3>1, <3>3
      <4>2. Above(s[j], a)
        BY <1>3, <4>1
      <4>3. Above(s[j], b)
        BY <1>4, <1>5, <1>6, <3>1, <4>2, AboveTransitive
      <4> QED BY <3>1, <4>3
    <3> QED BY <3>2, <3>3
  <2> QED BY <2>1, <2>2
<1>14. Len(t) >= 1 /\ Home(t[Len(t)]) = n /\ Len(t) - 1 = m
  BY <1>2, <1>9
<1>15. Shape(t, n, root)
  BY <1>2, <1>10, <1>11, <1>12, <1>13, <1>14 DEF Shape
<1> QED BY <1>2, <1>15 DEF t

\* The stack is no longer than the levels of all the calls that are open.
LEMMA ShapeBounded ==
  ASSUME NEW s \in Seq(Activation), NEW n \in Nat, NEW root \in Tree, Shape(s, n, root)
  PROVE  Len(s) <= n * root.high
<1>1. PICK m \in Nat \ {0} : m = Len(s)
  BY LenProperties DEF Shape
<1>2. s[m] \in Activation /\ Height(m, s[m], root) /\ Home(s[m]) = n
  BY <1>1, ElementOfSeq DEF Shape
<1>3. PICK h \in Nat \ {0}, r \in Nat \ {0}, k \in Nat :
        h = s[m].node.high /\ r = root.high /\ k = Len(s[m].kept)
  BY <1>2, ActivationFields, TreeFields
<1>4. k <= n
  BY <1>2, <1>3, ActivationFields
<1>5. m + h <= k * r + 1
  BY <1>2, <1>3 DEF Height
<1>6. PICK p \in Int, q \in Int : p = k * r /\ q = n * r
  OBVIOUS
<1>7. p <= q
  BY <1>4, <1>6
<1>8. m <= q
  BY <1>5, <1>6, <1>7
<1> QED BY <1>1, <1>3, <1>6, <1>8

---------------------------------------------------------------------------
(* The frames an activation began with, and what they are now.             *)

Kept(a, fr) ==
  /\ Len(a.kept) <= Len(fr)
  /\ \A i \in 1..Len(a.kept) :
       \/ fr[i] = a.kept[i]
       \/ i = Len(a.kept) /\ a.node.op \notin ExprOp
          /\ OnlyThese(a.node.binds, a.kept[i], fr[i])

LEMMA KeptAlike ==
  ASSUME NEW a, NEW b, NEW fr, b.node = a.node, b.kept = a.kept, Kept(a, fr)
  PROVE  Kept(b, fr)
BY Zenon DEF Kept

LEMMA KeptFresh ==
  ASSUME NEW a \in Activation, NEW fr, a.kept = fr
  PROVE  Kept(a, fr)
BY ActivationFields DEF Kept

LEMMA KeptAppend ==
  ASSUME NEW a \in Activation, NEW fr \in Seq(Bindings), NEW g \in Bindings, Kept(a, fr)
  PROVE  Kept(a, Append(fr, g))
<1>1. PICK n \in Nat, k \in Nat : n = Len(fr) /\ k = Len(a.kept)
  BY LenProperties, ActivationFields
<1>2. /\ Len(Append(fr, g)) = n + 1 /\ \A i \in 1..n : Append(fr, g)[i] = fr[i]
  BY <1>1, AppendProperties
<1>3. k <= n /\ k <= n + 1
  BY <1>1 DEF Kept
<1>4. \A i \in 1..k : Append(fr, g)[i] = fr[i]
  BY <1>2, <1>3
<1> QED BY <1>1, <1>2, <1>3, <1>4 DEF Kept

LEMMA KeptFront ==
  ASSUME NEW a \in Activation, NEW fr \in Seq(Bindings), Kept(a, fr), Len(a.kept) < Len(fr)
  PROVE  Kept(a, Front(fr))
<1>1. PICK n \in Nat, k \in Nat : n = Len(fr) /\ k = Len(a.kept)
  BY LenProperties, ActivationFields
<1>2. k <= n - 1 /\ fr # <<>>
  BY <1>1, EmptySeq
<1>3. Len(Front(fr)) = n - 1 /\ \A i \in 1..(n - 1) : Front(fr)[i] = fr[i]
  BY <1>1, <1>2, FrontFacts
<1>4. \A i \in 1..k : Front(fr)[i] = fr[i]
  BY <1>2, <1>3
<1> QED BY <1>1, <1>2, <1>3, <1>4 DEF Kept

\* A frame is only these names away from itself, and from what it was before a
\* write of one of them.
LEMMA OnlySame == ASSUME NEW names, NEW f \in Bindings PROVE OnlyThese(names, f, f)
<1>1. PICK n \in Nat : n = Len(f)
  BY LenProperties DEF Bindings
<1> QED BY <1>1 DEF OnlyThese

LEMMA OnlyWrites ==
  ASSUME NEW names, NEW f \in Bindings, NEW g \in Bindings, NEW h, NEW name \in names, NEW x, NEW u,
         OnlyThese(names, f, g), WritesAt(g, h, name, x, u)
  PROVE  OnlyThese(names, f, h)
<1>1. PICK m \in Nat, n \in Nat : m = Len(f) /\ n = Len(g)
  BY LenProperties DEF Bindings
<1>2. PICK k \in Nat : k = Len(h)
  BY LenProperties DEF WritesAt, Bindings
<1>3. /\ u \in 1..n + 1 /\ u <= k /\ k = (IF u <= n THEN n ELSE n + 1)
      /\ h[u].name = name /\ \A i \in 1..n : i # u => h[i] = g[i]
  BY <1>1, <1>2 DEF WritesAt
<1>4. /\ m <= n /\ \A i \in 1..n : g[i].name \notin names => i <= m /\ g[i] = f[i]
  BY <1>1 DEF OnlyThese
<1>5. m <= k
  BY <1>3, <1>4
<1>6. ASSUME NEW i \in 1..k, h[i].name \notin names PROVE i <= m /\ h[i] = f[i]
  <2>1. i # u
    BY <1>3, <1>6
  <2>2. i \in 1..n
    BY <1>3, <2>1
  <2>3. h[i] = g[i]
    BY <1>3, <2>1, <2>2
  <2> QED BY <1>4, <1>6, <2>2, <2>3
<1> QED BY <1>1, <1>2, <1>5, <1>6 DEF OnlyThese

\* The last of the frames is written.
Written(fr, g) == [fr EXCEPT ![Len(fr)] = g]

LEMMA KeptWrite ==
  ASSUME NEW a \in Activation, NEW fr \in Seq(Bindings), fr # <<>>, Kept(a, fr),
         NEW name \in STRING, NEW x \in Val,
         Len(a.kept) = Len(fr) => a.node.op \notin ExprOp /\ name \in a.node.binds
  PROVE  Kept(a, Written(fr, SetVar(Last(fr), name, x)))
<1>1. PICK n \in Nat \ {0}, k \in Nat : n = Len(fr) /\ k = Len(a.kept)
  BY EmptySeq, ActivationFields
<1>2. \A i \in 1..n : fr[i] \in Bindings
  BY <1>1, ElementOfSeq
<1>3. \A i \in 1..k : a.kept[i] \in Bindings
  BY <1>1, ActivationFields, ElementOfSeq
<1> DEFINE h == SetVar(fr[n], name, x)
           t == Written(fr, h)
<1>4. PICK u : WritesAt(fr[n], h, name, x, u)
  <2>1. fr[n] \in Bindings
    BY <1>2
  <2> QED BY <2>1, SetVarWrites
<1>5. h \in Bindings
  BY <1>4 DEF WritesAt
<1> HIDE DEF h
<1>6. t = [fr EXCEPT ![Len(fr)] = h]
  BY DEF Written
<1>7. Len(t) = n /\ \A i \in 1..n : t[i] = IF i = n THEN h ELSE fr[i]
  BY <1>1, <1>5, <1>6, ExceptSeq
<1> HIDE DEF t
<1>8. k <= n
  BY <1>1 DEF Kept
<1>9. ASSUME NEW i \in 1..k
      PROVE  \/ t[i] = a.kept[i]
             \/ i = k /\ a.node.op \notin ExprOp /\ OnlyThese(a.node.binds, a.kept[i], t[i])
  <2>1. \/ fr[i] = a.kept[i]
        \/ i = k /\ a.node.op \notin ExprOp /\ OnlyThese(a.node.binds, a.kept[i], fr[i])
    BY <1>1 DEF Kept
  <2>2. i \in 1..n
    BY <1>8
  <2>3. CASE i # n
    BY <1>7, <2>1, <2>2, <2>3
  <2>4. CASE i = n
    <3>1. i = k /\ k = n
      BY <1>8, <2>4
    <3>2. a.node.op \notin ExprOp /\ name \in a.node.binds
      BY <1>1, <3>1
    <3>3. OnlyThese(a.node.binds, a.kept[n], fr[n])
      <4>1. a.kept[n] \in Bindings
        BY <1>3, <2>4
      <4>2. CASE fr[n] = a.kept[n]
        BY <4>1, <4>2, OnlySame
      <4>3. CASE fr[n] # a.kept[n]
        BY <2>1, <2>4, <4>3
      <4> QED BY <4>2, <4>3
    <3>4. OnlyThese(a.node.binds, a.kept[n], h)
      <4>1. a.kept[n] \in Bindings /\ fr[n] \in Bindings
        BY <1>2, <1>3, <2>4
      <4> QED BY <1>4, <1>5, <3>2, <3>3, <4>1, OnlyWrites
    <3>5. t[i] = h
      BY <1>7, <2>2, <2>4
    <3> QED BY <2>4, <3>1, <3>2, <3>4, <3>5
  <2> QED BY <2>3, <2>4
<1>10. Kept(a, t)
  BY <1>1, <1>7, <1>8, <1>9 DEF Kept
<1>11. Last(fr) = fr[n]
  BY <1>1 DEF Last
<1> QED BY <1>10, <1>11 DEF t, h

---------------------------------------------------------------------------
(* What the steps do to the stack and the frames together.                 *)

Good(s, fr, root) ==
  /\ s \in Seq(Activation) /\ fr \in Seq(Bindings) /\ root \in Tree /\ root.op = "program"
  /\ Shape(s, Len(fr), root)
  /\ \A j \in 1..Len(s) : Kept(s[j], fr)

\* The innermost activation of a good stack.
LEMMA GoodTop ==
  ASSUME NEW s, NEW fr, NEW root, Good(s, fr, root)
  PROVE  /\ Len(s) \in Nat \ {0} /\ Len(fr) \in Nat \ {0} /\ s # <<>> /\ fr # <<>>
         /\ Last(s) = s[Len(s)] /\ Last(s) \in Activation
         /\ Last(fr) = fr[Len(fr)] /\ Last(fr) \in Bindings
         /\ Home(Last(s)) = Len(fr)
         /\ Sound(Last(s), root) /\ Kept(Last(s), fr)
         /\ Len(s) = 1 => Last(s).node = root /\ Last(s).open = TRUE
         /\ Len(s) > 1 => Last(s).node.op # "program"
<1>1. s \in Seq(Activation) /\ fr \in Seq(Bindings) /\ Shape(s, Len(fr), root)
      /\ \A j \in 1..Len(s) : Kept(s[j], fr)
  BY DEF Good
<1>2. PICK m \in Nat \ {0} : m = Len(s)
  BY <1>1, LenProperties DEF Shape
<1>3. s # <<>>
  BY <1>2, EmptySeq
<1>4. Last(s) = s[m] /\ s[m] \in Activation
  BY <1>1, <1>2, ElementOfSeq DEF Last
<1>5. /\ s[1].node = root /\ s[1].open = TRUE /\ Len(s[1].kept) = 1
      /\ Home(s[m]) = Len(fr)
      /\ Sound(s[m], root) /\ (m > 1 => s[m].node.op # "program") /\ Kept(s[m], fr)
  BY <1>1, <1>2 DEF Shape
<1>6. Len(fr) \in Nat \ {0}
  <2>1. PICK h \in Nat, k \in Nat : h = Home(s[m]) /\ k = Len(s[m].kept) /\ k <= h
    BY <1>4, ActivationFields
  <2>2. CASE m = 1
    <3>1. k = 1
      BY <1>5, <2>1, <2>2
    <3>2. h \in Nat \ {0}
      BY <2>1, <3>1
    <3> QED BY <1>5, <2>1, <3>2
  <2>3. CASE m # 1
    <3>1. 1 \in 1..(m - 1) /\ m \in 1..m
      BY <2>3
    <3>2. Above(s[1], s[m]) /\ s[1] \in Activation
      BY <1>1, <1>2, <3>1, ElementOfSeq DEF Shape
    <3>3. PICK g \in Nat : g = Home(s[1]) /\ 1 <= g
      BY <1>5, <3>2, ActivationFields
    <3>4. g <= k
      BY <2>1, <3>2, <3>3 DEF Above
    <3>5. h \in Nat \ {0}
      BY <2>1, <3>3, <3>4
    <3> QED BY <1>5, <2>1, <3>5
  <2> QED BY <2>2, <2>3
<1>7. fr # <<>>
  BY <1>1, <1>6, EmptySeq
<1>8. Last(fr) = fr[Len(fr)] /\ Last(fr) \in Bindings
  BY <1>1, <1>7, FrontFacts
<1> QED BY <1>2, <1>3, <1>4, <1>5, <1>6, <1>7, <1>8

\* The innermost activation changes; where its parts run stays.
LEMMA GoodChange ==
  ASSUME NEW s, NEW fr, NEW root, Good(s, fr, root), NEW a \in Activation,
         a.node = Last(s).node, a.kept = Last(s).kept, Sound(a, root),
         Home(a) = Home(Last(s)), Len(s) = 1 => a.open = TRUE
  PROVE  Good([s EXCEPT ![Len(s)] = a], fr, root)
<1>1. s \in Seq(Activation) /\ fr \in Seq(Bindings) /\ Shape(s, Len(fr), root)
      /\ \A j \in 1..Len(s) : Kept(s[j], fr)
  BY DEF Good
<1>2. PICK m \in Nat \ {0} : m = Len(s)
  BY GoodTop
<1>3. Last(s) = s[Len(s)] /\ Home(Last(s)) = Len(fr)
  BY GoodTop
<1> DEFINE t == [s EXCEPT ![Len(s)] = a]
<1>4. t \in Seq(Activation) /\ Shape(t, Home(a), root)
  BY <1>1, <1>3, ShapeChange
<1>5. Len(t) = m /\ \A j \in 1..m : t[j] = IF j = m THEN a ELSE s[j]
  BY <1>1, <1>2, ExceptSeq
<1> HIDE DEF t
<1>6. ASSUME NEW j \in 1..m PROVE Kept(t[j], fr)
  <2>1. Kept(s[j], fr)
    BY <1>1, <1>2
  <2>2. CASE j = m
    <3>1. a.node = s[j].node /\ a.kept = s[j].kept
      BY <1>2, <1>3, <2>2
    <3>2. Kept(a, fr)
      BY <2>1, <3>1, KeptAlike
    <3> QED BY <1>5, <2>2, <3>2
  <2>3. CASE j # m
    BY <1>5, <2>1, <2>3
  <2> QED BY <2>2, <2>3
<1>7. Shape(t, Len(fr), root)
  BY <1>3, <1>4
<1> QED BY <1>1, <1>4, <1>5, <1>6, <1>7 DEF Good, t

\* A part of the innermost activation is begun.
LEMMA GoodPush ==
  ASSUME NEW s, NEW fr, NEW root, Good(s, fr, root), NEW t \in Tree, Child(t, Last(s), root),
         NEW b, b = [node |-> t, vals |-> <<>>, open |-> FALSE, todo |-> <<>>, kept |-> fr]
  PROVE  Good(Append(s, b), fr, root)
<1>1. s \in Seq(Activation) /\ fr \in Seq(Bindings) /\ Shape(s, Len(fr), root)
      /\ root \in Tree /\ root.op = "program" /\ \A j \in 1..Len(s) : Kept(s[j], fr)
  BY DEF Good
<1>2. PICK m \in Nat \ {0} : m = Len(s)
  BY GoodTop
<1>3. Last(s) = s[Len(s)] /\ Len(fr) \in Nat
  BY GoodTop
<1>4. b \in Activation
  <2>1. <<>> \in Seq(Val) /\ <<>> \in Seq(Tree)
    BY EmptySeq
  <2> QED BY <1>1, <2>1 DEF Activation
<1>5. Append(s, b) \in Seq(Activation) /\ Shape(Append(s, b), Len(fr), root)
  <2>1. b.node = t /\ b.kept = fr /\ b.open = FALSE /\ b.vals = <<>>
    OBVIOUS
  <2>2. Child(b.node, s[Len(s)], root) /\ Len(b.kept) = Len(fr)
    BY <1>3, <2>1
  <2> QED BY <1>1, <1>3, <1>4, <2>1, <2>2, ShapePush
<1>6. Kept(b, fr)
  BY <1>4, KeptFresh
<1>7. Len(Append(s, b)) = m + 1 /\ Append(s, b)[m + 1] = b
      /\ \A j \in 1..m : Append(s, b)[j] = s[j]
  BY <1>1, <1>2, <1>4, AppendProperties
<1>8. ASSUME NEW j \in 1..m + 1 PROVE Kept(Append(s, b)[j], fr)
  <2>1. CASE j \in 1..m
    BY <1>1, <1>2, <1>7, <2>1
  <2>2. CASE j = m + 1
    BY <1>6, <1>7, <2>2
  <2>3. j \in 1..m \/ j = m + 1
    OBVIOUS
  <2> QED BY <2>1, <2>2, <2>3
<1> QED BY <1>1, <1>5, <1>7, <1>8 DEF Good

\* The innermost activation is left; if it is a call under way, with its frame.
FramesLeft(a, fr) == IF a.open /\ a.node.op = "call" THEN Front(fr) ELSE fr

LEMMA GoodPop ==
  ASSUME NEW s, NEW fr, NEW root, Good(s, fr, root), Len(s) > 1
  PROVE  /\ Good(Front(s), FramesLeft(Last(s), fr), root)
         /\ Len(Front(s)) = Len(s) - 1 /\ Last(Front(s)) = s[Len(s) - 1]
         /\ Link(Last(Front(s)), Last(s))
         /\ Last(s).open /\ Last(s).node.op = "call" => Len(fr) > 1
<1>1. s \in Seq(Activation) /\ fr \in Seq(Bindings) /\ Shape(s, Len(fr), root)
      /\ root \in Tree /\ root.op = "program" /\ \A j \in 1..Len(s) : Kept(s[j], fr)
  BY DEF Good
<1>2. PICK m \in Nat \ {0} : m = Len(s) - 1 /\ m + 1 = Len(s)
  BY <1>1, LenProperties
<1>3. PICK n \in Nat \ {0} : n = Len(fr)
  BY GoodTop
<1>4. s # <<>> /\ fr # <<>> /\ Last(s) = s[m + 1] /\ Home(Last(s)) = n /\ Last(s) \in Activation
  BY <1>2, <1>3, GoodTop
<1> DEFINE a == Last(s)
           t == Front(s)
<1>5. PICK k \in Nat : k = Len(a.kept)
  BY <1>4, ActivationFields
<1>6. t \in Seq(Activation) /\ Shape(t, k, root)
  <2>1. k = Len(s[Len(s)].kept)
    BY <1>2, <1>4, <1>5
  <2> QED BY <1>1, <2>1, ShapePop
<1>7. Len(t) = m /\ \A j \in 1..m : t[j] = s[j]
  BY <1>1, <1>2, <1>4, FrontFacts
<1>8. m \in 1..m /\ Last(t) = s[m]
  BY <1>7 DEF Last
<1>9. Link(s[m], s[m + 1])
  BY <1>1, <1>2 DEF Shape
<1>10. k >= 1
  <2>1. Above(s[1], a) /\ s[1] \in Activation /\ Len(s[1].kept) = 1
    <3>1. 1 \in 1..(m + 1 - 1) /\ m + 1 \in 1..m + 1 /\ 1 \in 1..m + 1
      OBVIOUS
    <3>2. \A i \in 1..m + 1 : \A j \in 1..(i - 1) : Above(s[j], s[i])
      BY <1>1, <1>2 DEF Shape
    <3>3. Above(s[1], s[m + 1]) /\ s[1] \in Activation
      BY <1>1, <1>2, <3>1, <3>2, ElementOfSeq
    <3> QED BY <1>1, <1>4, <3>3 DEF Shape
  <2>2. PICK g \in Nat : g = Home(s[1]) /\ 1 <= g
    BY <2>1, ActivationFields
  <2>3. g <= k
    BY <1>5, <2>1, <2>2 DEF Above
  <2> QED BY <2>2, <2>3
<1>11. \A j \in 1..m : s[j] \in Activation /\ Kept(s[j], fr) /\ Len(s[j].kept) <= k
  <2> SUFFICES ASSUME NEW j \in 1..m
               PROVE  s[j] \in Activation /\ Kept(s[j], fr) /\ Len(s[j].kept) <= k
    OBVIOUS
  <2>1. j \in 1..m + 1 /\ m + 1 \in 1..m + 1 /\ j \in 1..(m + 1 - 1)
    OBVIOUS
  <2>2. s[j] \in Activation /\ Kept(s[j], fr)
    BY <1>1, <1>2, <2>1, ElementOfSeq
  <2>3. \A i \in 1..m + 1 : \A l \in 1..(i - 1) : Above(s[l], s[i])
    BY <1>1, <1>2 DEF Shape
  <2>4. Above(s[j], a)
    BY <1>4, <2>1, <2>3
  <2>5. PICK g \in Nat, h \in Nat : g = Home(s[j]) /\ h = Len(s[j].kept) /\ h <= g
    BY <2>2, ActivationFields
  <2>6. g <= k
    BY <1>5, <2>4, <2>5 DEF Above
  <2>7. h <= k
    BY <2>5, <2>6
  <2> QED BY <2>2, <2>5, <2>7
<1>12. CASE a.open /\ a.node.op = "call"
  <2>1. n = k + 1
    BY <1>4, <1>5, <1>12 DEF Home
  <2>2. Front(fr) \in Seq(Bindings) /\ Len(Front(fr)) = n - 1
    BY <1>1, <1>3, <1>4, FrontFacts
  <2>3. \A j \in 1..m : Kept(s[j], Front(fr))
    <3> SUFFICES ASSUME NEW j \in 1..m PROVE Kept(s[j], Front(fr))
      OBVIOUS
    <3>1. s[j] \in Activation /\ Kept(s[j], fr) /\ Len(s[j].kept) <= k
      BY <1>11
    <3>2. Len(s[j].kept) \in Nat
      BY <3>1, ActivationFields
    <3>3. Len(s[j].kept) < Len(fr)
      BY <1>3, <2>1, <3>1, <3>2
    <3> QED BY <1>1, <3>1, <3>3, KeptFront
  <2>4. n - 1 = k /\ n > 1
    BY <1>10, <2>1
  <2>5. Good(t, Front(fr), root)
    <3>1. Shape(t, Len(Front(fr)), root)
      BY <1>6, <2>2, <2>4
    <3> QED BY <1>1, <1>6, <1>7, <2>2, <2>3, <3>1 DEF Good
  <2>6. FramesLeft(a, fr) = Front(fr)
    BY <1>12 DEF FramesLeft
  <2> QED BY <1>2, <1>3, <1>4, <1>7, <1>8, <1>9, <2>4, <2>5, <2>6
<1>13. CASE ~(a.open /\ a.node.op = "call")
  <2>1. n = k
    <3>1. Home(a) = k + 0
      BY <1>5, <1>13 DEF Home
    <3> QED BY <1>4, <1>5, <3>1
  <2>2. Good(t, fr, root)
    BY <1>1, <1>3, <1>6, <1>7, <1>11, <2>1 DEF Good
  <2>3. FramesLeft(a, fr) = fr
    BY <1>13 DEF FramesLeft
  <2> QED BY <1>2, <1>4, <1>7, <1>8, <1>9, <1>13, <2>2, <2>3
<1> QED BY <1>12, <1>13

\* The value of the innermost expression is handed to what awaits it.
LEMMA GoodHand ==
  ASSUME NEW s, NEW fr, NEW root, Good(s, fr, root), Last(s).node.op \in ExprOp, NEW x \in Val
  PROVE  /\ Len(s) > 1
         /\ Good([Front(s) EXCEPT ![Len(s) - 1].vals = Append(@, x)], FramesLeft(Last(s), fr), root)
<1>1. Len(s) > 1
  <2>1. Len(s) \in Nat \ {0} /\ (Len(s) = 1 => Last(s).node = root) /\ root.op = "program"
    BY GoodTop DEF Good
  <2>2. Len(s) # 1
    BY <2>1, OpsDisjoint
  <2> QED BY <2>1, <2>2
<1> DEFINE t == Front(s)
           b == Last(t)
           v == FramesLeft(Last(s), fr)
<1>2. Good(t, v, root) /\ Len(t) = Len(s) - 1 /\ Link(b, Last(s))
  BY <1>1, GoodPop
<1>3. Awaits(b)
  BY <1>2 DEF Link
<1>4. /\ b \in Activation /\ b = t[Len(t)] /\ Len(t) \in Nat \ {0}
      /\ Len(t) = 1 => b.open = TRUE
  BY <1>2, GoodTop
<1> HIDE DEF t, b, v
<1> DEFINE a == [b EXCEPT !.vals = Append(b.vals, x)]
<1>5. /\ b.vals \in Seq(Val) /\ Len(b.vals) \in Nat /\ Len(b.node.es) \in Nat
      /\ Append(b.vals, x) \in Seq(Val) /\ Len(Append(b.vals, x)) = Len(b.vals) + 1
  BY <1>4, ActivationFields, TreeFields, AppendProperties
<1>6. /\ a \in Activation /\ a.node = b.node /\ a.kept = b.kept /\ a.open = b.open
      /\ a.vals = Append(b.vals, x)
  BY <1>4, <1>5 DEF Activation
<1> HIDE DEF a
<1>7. ~a.open /\ Len(a.vals) <= Len(a.node.es) /\ Affordable(a)
  BY <1>3, <1>5, <1>6 DEF Awaits, Affordable
<1>8. Sound(a, root)
  BY <1>7 DEF Sound
<1>9. Home(a) = Home(b)
  BY <1>6 DEF Home
<1>10. Len(t) # 1
  BY <1>3, <1>4 DEF Awaits
<1>11. Good([t EXCEPT ![Len(t)] = a], v, root)
  BY <1>2, <1>6, <1>8, <1>9, <1>10, GoodChange DEF b
<1>12. [t EXCEPT ![Len(t)] = a] = [t EXCEPT ![Len(s) - 1].vals = Append(@, x)]
  <2>1. [t EXCEPT ![Len(t)].vals = Append(@, x)] = [t EXCEPT ![Len(t)] = [t[Len(t)] EXCEPT !.vals = Append(@, x)]]
    OBVIOUS
  <2> QED BY <1>2, <1>4, <2>1 DEF a
<1> QED BY <1>1, <1>11, <1>12 DEF t, v

\* A statement writes a variable that it names.
LEMMA GoodWrite ==
  ASSUME NEW s, NEW fr, NEW root, Good(s, fr, root),
         Last(s).node.op \notin ExprOp, NEW name \in Last(s).node.binds, name \in STRING, NEW x \in Val
  PROVE  Good(s, Written(fr, SetVar(Last(fr), name, x)), root)
<1>1. s \in Seq(Activation) /\ fr \in Seq(Bindings) /\ Shape(s, Len(fr), root)
      /\ root \in Tree /\ root.op = "program" /\ \A j \in 1..Len(s) : Kept(s[j], fr)
  BY DEF Good
<1>2. PICK m \in Nat \ {0} : m = Len(s)
  BY GoodTop
<1>3. PICK n \in Nat \ {0} : n = Len(fr)
  BY GoodTop
<1>4. /\ fr # <<>> /\ Last(fr) \in Bindings /\ Last(s) = s[m] /\ Last(s) \in Activation
      /\ Home(Last(s)) = n
  BY <1>2, <1>3, GoodTop
<1> DEFINE g == SetVar(Last(fr), name, x)
           v == Written(fr, g)
<1>5. g \in Bindings
  BY <1>4, SetVarType
<1> HIDE DEF g
<1>6. v \in Seq(Bindings) /\ Len(v) = n
  BY <1>1, <1>3, <1>5, ExceptSeq DEF Written
<1> HIDE DEF v
<1>7. ASSUME NEW j \in 1..m PROVE Kept(s[j], v)
  <2>1. s[j] \in Activation /\ Kept(s[j], fr)
    BY <1>1, <1>2, ElementOfSeq
  <2>2. ASSUME Len(s[j].kept) = n PROVE s[j].node.op \notin ExprOp /\ name \in s[j].node.binds
    <3>1. CASE j = m
      BY <1>4, <3>1
    <3>2. CASE j # m
      <4>1. j \in 1..(m - 1) /\ m \in 1..m
        BY <3>2
      <4>2. Above(s[j], Last(s))
        BY <1>1, <1>2, <1>4, <4>1 DEF Shape
      <4>3. PICK h \in Nat, k \in Nat : h = Home(s[j]) /\ k = Len(Last(s).kept) /\ k <= n
        BY <1>4, <2>1, ActivationFields
      <4>4. n <= h /\ h <= k
        BY <2>1, <2>2, <4>2, <4>3, ActivationFields DEF Above
      <4>5. Len(s[j].kept) = Len(Last(s).kept)
        BY <2>2, <4>3, <4>4
      <4> QED BY <4>2, <4>5 DEF Above
    <3> QED BY <3>1, <3>2
  <2> QED BY <1>1, <1>3, <1>4, <2>1, <2>2, KeptWrite DEF v, g
<1> QED BY <1>1, <1>2, <1>3, <1>6, <1>7 DEF Good, v, g

\* A call is under way, in a frame of its own.
LEMMA GoodCall ==
  ASSUME NEW s, NEW fr, NEW root, Good(s, fr, root),
         Last(s).node.op = "call", Last(s).open = FALSE, NEW g \in Bindings,
         NEW a \in Activation, a.node = Last(s).node, a.kept = Last(s).kept, a.open = TRUE,
         Sound(a, root)
  PROVE  Good([s EXCEPT ![Len(s)] = a], Append(fr, g), root)
<1>1. s \in Seq(Activation) /\ fr \in Seq(Bindings) /\ Shape(s, Len(fr), root)
      /\ root \in Tree /\ root.op = "program" /\ \A j \in 1..Len(s) : Kept(s[j], fr)
  BY DEF Good
<1>2. PICK m \in Nat \ {0} : m = Len(s)
  BY GoodTop
<1>3. PICK n \in Nat \ {0} : n = Len(fr)
  BY GoodTop
<1>4. Last(s) = s[m] /\ Last(s) \in Activation /\ Home(Last(s)) = n
  BY <1>2, <1>3, GoodTop
<1>5. Home(a) = n + 1
  <2>1. PICK k \in Nat : k = Len(Last(s).kept)
    BY <1>4, ActivationFields
  <2>2. Home(Last(s)) = k + 0 /\ Home(a) = k + 1
    BY <2>1 DEF Home
  <2> QED BY <1>4, <2>1, <2>2
<1> DEFINE t == [s EXCEPT ![Len(s)] = a]
           v == Append(fr, g)
<1>6. v \in Seq(Bindings) /\ Len(v) = n + 1
  BY <1>1, <1>3, AppendProperties
<1>7. t \in Seq(Activation) /\ Shape(t, Home(a), root)
  BY <1>1, <1>2, <1>4, ShapeChange
<1>8. Len(t) = m /\ \A j \in 1..m : t[j] = IF j = m THEN a ELSE s[j]
  BY <1>1, <1>2, ExceptSeq
<1> HIDE DEF t
<1>9. ASSUME NEW j \in 1..m PROVE Kept(t[j], v)
  <2>1. s[j] \in Activation /\ Kept(s[j], fr)
    BY <1>1, <1>2, ElementOfSeq
  <2>2. Kept(s[j], v)
    BY <1>1, <2>1, KeptAppend
  <2>3. CASE j = m
    <3>1. Kept(a, v)
      BY <1>4, <2>2, <2>3, KeptAlike
    <3> QED BY <1>8, <2>3, <3>1
  <2>4. CASE j # m
    BY <1>8, <2>2, <2>4
  <2> QED BY <2>3, <2>4
<1>10. Shape(t, Len(v), root)
  BY <1>5, <1>6, <1>7
<1> QED BY <1>1, <1>6, <1>7, <1>8, <1>9, <1>10 DEF Good, t

---------------------------------------------------------------------------
(* The value of an expression whose operands are there.                    *)

LEMMA Arities ==
  ASSUME NEW t \in Tree
  PROVE  /\ t.op \in {"lit", "var", "fn", "program"} => Len(t.es) = 0
         /\ t.op \in {"bin", "index", "set"} => Len(t.es) = 2
         /\ t.op \in {"unary", "let", "assign", "discard", "repeat", "while", "if"} => Len(t.es) = 1
         /\ t.op = "lit" => t.name \in DOMAIN Numeral \cup DOMAIN Literal
         /\ t.op \in {"let", "assign", "set"} => t.name \in t.binds
<1>1. Len(t.es) \in Arity(t.op)
      /\ (t.op = "lit" => t.name \in DOMAIN Numeral \cup DOMAIN Literal)
      /\ (t.op \in {"let", "assign", "set"} => t.name \in t.binds)
  BY TreeFields, Zenon DEF WellFormed
<1>2. CASE t.op \in {"lit", "var", "fn", "program"}
  BY <1>1, <1>2 DEF Arity
<1>3. CASE t.op \in {"bin", "index", "set"}
  BY <1>1, <1>3 DEF Arity
<1>4. CASE t.op \in {"unary", "let", "assign", "discard", "repeat", "while", "if"}
  BY <1>1, <1>4 DEF Arity
<1> QED BY <1>1, <1>2, <1>3, <1>4

\* When no more operands are wanted they are all there, but for the right side
\* of an operator that its left side decides.
LEMMA Enough ==
  ASSUME NEW a \in Activation, ~Wants(a)
  PROVE  /\ a.node.op \notin {"bin", "print"} => Len(a.vals) >= Len(a.node.es)
         /\ a.node.op = "bin" => Len(a.vals) >= 1
         /\ a.node.op = "bin" /\ a.node.name \notin {"&&", "||"} => Len(a.vals) >= 2
<1>1. PICK k \in Nat, n \in Nat : k = Len(a.vals) /\ n = Len(a.node.es)
  BY ActivationFields, TreeFields
<1>2. a.node.op = "bin" => n = 2
  BY <1>1, ActivationFields, Arities
<1>3. \/ k >= n
      \/ a.node.op = "bin" /\ a.node.name \in {"&&", "||"} /\ k = 1
      \/ a.node.op = "print"
  BY <1>1 DEF Wants
<1>4. CASE k >= n
  BY <1>1, <1>2, <1>4
<1>5. CASE ~(k >= n)
  BY <1>1, <1>3, <1>5
<1> QED BY <1>4, <1>5

LEMMA ValueType ==
  ASSUME NEW a \in Activation, ~a.open, ~Wants(a), a.node.op \in ExprOp,
         a.node.op = "call" => a.node.name \in Builtins,
         NEW root, Sound(a, root), Frame \in Bindings
  PROVE  IsResult(Value(a))
<1> DEFINE e == a.node
           v == a.vals
<1>1. e \in Tree /\ v \in Seq(Val) /\ Len(v) \in Nat /\ Len(e.es) \in Nat
  BY ActivationFields, TreeFields
<1>2. \A i \in 1..Len(v) : v[i] \in Val
  BY <1>1, ElementOfSeq
<1>3. CASE e.op = "lit"
  <2>1. Value(a) = <<Lit(e.name)>>
    BY <1>3 DEF Value
  <2>2. Lit(e.name) \in Val
    BY <1>1, <1>3, Arities, LitType
  <2> QED BY <2>1, <2>2, ResultOf
<1>4. CASE e.op = "var"
  <2>1. Value(a) = IF Bound(Frame, e.name) THEN <<Get(Frame, e.name)>> ELSE Error
    BY <1>4 DEF Value
  <2>2. Bound(Frame, e.name) => Get(Frame, e.name) \in Val
    BY GetType
  <2> QED BY <2>1, <2>2, ResultOf, ErrorResult
<1>5. CASE e.op = "unary"
  <2>1. Value(a) = Unop(e.name, v[1])
    BY <1>5 DEF Value
  <2>2. Len(e.es) = 1 /\ Len(v) >= Len(e.es)
    BY <1>1, <1>5, Arities, Enough
  <2>3. v[1] \in Val
    BY <1>1, <1>2, <2>2
  <2> QED BY <2>1, <2>3, UnopType
<1>6. CASE e.op = "bin" /\ e.name \in {"&&", "||"}
  <2>1. Value(a) = <<Truth(Truthy(v[Len(v)]))>>
    BY <1>6 DEF Value
  <2> QED BY <2>1, TruthType, ResultOf
<1>7. CASE e.op = "bin" /\ e.name \notin {"&&", "||"}
  <2>1. Value(a) = Binop(e.name, v[1], v[2])
    BY <1>7 DEF Value
  <2>2. Len(v) >= 2
    BY <1>7, Enough
  <2>3. v[1] \in Val /\ v[2] \in Val
    BY <1>1, <1>2, <2>2
  <2> QED BY <2>1, <2>3, BinopType
<1>8. CASE e.op = "index"
  <2>1. Value(a) = Item(v[1], v[2])
    BY <1>8 DEF Value
  <2>2. Len(e.es) = 2 /\ Len(v) >= Len(e.es)
    BY <1>1, <1>8, Arities, Enough
  <2>3. v[1] \in Val /\ v[2] \in Val
    BY <1>1, <1>2, <2>2
  <2> QED BY <2>1, <2>3, ItemType
<1>9. CASE e.op = "list"
  <2>1. Value(a) = <<List(v)>>
    BY <1>9 DEF Value
  <2>2. Len(v) >= Len(e.es) /\ Len(v) <= Len(e.es) /\ (v # <<>> => Len(e.es) <= MaxList)
    BY <1>9, Enough DEF Sound, Affordable
  <2>3. MaxList \in Nat /\ (v = <<>> => Len(v) = 0)
    BY ValuesAssumption, EmptySeq
  <2>4. Len(v) <= MaxList
    BY <1>1, <2>2, <2>3
  <2>5. List(v) \in Val
    BY <1>1, <2>4, ValClosed
  <2> QED BY <2>1, <2>5, ResultOf
<1>10. CASE e.op = "call"
  <2>1. Value(a) = Builtin(e.name, v)
    BY <1>10 DEF Value
  <2> QED BY <1>1, <1>10, <2>1, BuiltinType
<1> QED BY <1>3, <1>4, <1>5, <1>6, <1>7, <1>8, <1>9, <1>10 DEF ExprOp

---------------------------------------------------------------------------
(* The inductive invariant.                                                *)

Typed ==
  /\ text \in DOMAIN Program
  /\ pc \in {"parse", "run", "refused", "ran", "failed"}
  /\ flow \in {"on", "return", "stop"}
  /\ depth \in 0..MaxDepth
  /\ steps \in 0..(StepBudget + 1) /\ (steps > StepBudget => flow = "stop")
  /\ val \in Val
  /\ out \in Text /\ Len(out) <= OutCap + 2
  /\ frames \in Seq(Bindings) /\ Len(frames) = depth + 1

IInv ==
  /\ Typed
  /\ pc = "run" => Program[text].ok /\ Good(stack, frames, Root)
  /\ pc # "run" => stack = <<>> /\ depth = 0

LEMMA RootFacts ==
  ASSUME text \in DOMAIN Program, Program[text].ok
  PROVE  /\ Root \in Tree /\ Root.op = "program" /\ Root.high <= Len(text) + 2 /\ Len(text) \in Nat
         /\ \A name \in DOMAIN Fns :
              Fns[name] \in Tree /\ Fns[name].op = "fn" /\ Fns[name].high < Root.high
<1>1. text \in Seq(STRING)
  BY ProgramAssumption
<1>2. Len(text) \in Nat
  BY <1>1, LenProperties
<1> QED BY <1>2, ProgramAssumption DEF Root, Fns

LEMMA InitIInv == Init => IInv
<1> SUFFICES ASSUME Init PROVE IInv
  OBVIOUS
<1> USE DEF Init
<1>1. MaxDepth \in Nat /\ StepBudget \in Nat /\ OutCap \in Nat
  BY BoundsAssumption, ValuesAssumption
<1>2. val \in Val
  BY Bits, ValClosed
<1>3. out \in Text /\ Len(out) = 0
  BY EmptySeq DEF Text
<1>4. frames \in Seq(Bindings) /\ Len(frames) = 1
  <2>1. <<>> \in Bindings
    BY EmptySeq DEF Bindings
  <2> QED BY <2>1
<1>5. depth \in 0..MaxDepth /\ steps \in 0..(StepBudget + 1) /\ ~(steps > StepBudget)
  BY <1>1
<1>6. Len(out) <= OutCap + 2
  BY <1>1, <1>3
<1>7. Typed
  BY <1>2, <1>3, <1>4, <1>5, <1>6 DEF Typed
<1> QED BY <1>7 DEF IInv

\* A step of the run that leaves everything good.
LEMMA GoesOn ==
  ASSUME IInv, pc = "run", UNCHANGED <<text, pc>>,
         flow' \in {"on", "return", "stop"}, depth' \in 0..MaxDepth,
         steps' \in 0..(StepBudget + 1), steps' > StepBudget => flow' = "stop",
         val' \in Val, out' \in Text, Len(out') <= OutCap + 2,
         Len(frames') = depth' + 1, Good(stack', frames', Root)
  PROVE  IInv'
<1>1. Root' = Root /\ Program[text'].ok /\ text' \in DOMAIN Program
  BY DEF Root, IInv, Typed
<1>2. Good(stack', frames', Root')
  BY <1>1
<1>3. frames' \in Seq(Bindings)
  BY DEF Good
<1>4. Typed'
  BY <1>1, <1>3 DEF Typed
<1> QED BY <1>1, <1>2, <1>4 DEF IInv

LEMMA StopIInv ==
  ASSUME IInv, pc = "run", UNCHANGED <<text, pc>>, Stop PROVE IInv'
<1>1. flow' = "stop" /\ UNCHANGED <<stack, frames, depth, out, steps, val>>
  BY DEF Stop
<1>2. Good(stack', frames', Root)
  BY <1>1 DEF IInv
<1> QED BY <1>1, <1>2, GoesOn DEF IInv, Typed

LEMMA BecomeIInv ==
  ASSUME IInv, pc = "run", UNCHANGED <<text, pc>>, NEW s, Become(s), Good(s, frames, Root)
  PROVE  IInv'
<1>1. stack' = s /\ UNCHANGED <<frames, depth, out, steps, flow, val>>
  BY DEF Become
<1>2. Good(stack', frames', Root)
  BY <1>1
<1> QED BY <1>1, <1>2, GoesOn DEF IInv, Typed

LEMMA SpendIInv ==
  ASSUME IInv, Running, UNCHANGED <<text, pc>>, NEW s, Spend(s), Good(s, frames, Root)
  PROVE  IInv'
<1>1. /\ steps' = steps + 1 /\ UNCHANGED <<frames, depth, out, val>>
      /\ \/ steps < StepBudget /\ stack' = s /\ flow' = flow
         \/ ~(steps < StepBudget) /\ stack' = stack /\ flow' = "stop"
  BY DEF Spend
<1>2. Good(stack', frames', Root)
  BY <1>1 DEF IInv, Running
<1>3. steps \in 0..(StepBudget + 1) /\ StepBudget \in Nat /\ ~(steps > StepBudget) /\ flow = "on"
  BY BoundsAssumption DEF IInv, Typed, Running
<1>4. steps' \in 0..(StepBudget + 1) /\ (steps' > StepBudget => flow' = "stop")
  BY <1>1, <1>3
<1>5. flow' \in {"on", "return", "stop"}
  BY <1>1, <1>3
<1> QED BY <1>1, <1>2, <1>4, <1>5, GoesOn DEF IInv, Typed, Running

---------------------------------------------------------------------------
(* The parts of the steps.                                                 *)

\* The innermost activation of a run that is under way.
LEMMA OnTop ==
  ASSUME IInv, pc = "run"
  PROVE  /\ Good(stack, frames, Root) /\ Program[text].ok /\ text \in DOMAIN Program
         /\ Top = Last(stack) /\ Top \in Activation /\ Sound(Top, Root)
         /\ Top.node \in Tree /\ Top.vals \in Seq(Val) /\ Top.open \in BOOLEAN
         /\ Frame = Last(frames) /\ Frame \in Bindings /\ Home(Top) = Len(frames)
         /\ Len(stack) \in Nat \ {0} /\ stack # <<>>
         /\ Top.node.op # "program" => Len(stack) > 1
         /\ Len(stack) = 1 => Top.open = TRUE /\ Top.node.op = "program"
<1>1. Good(stack, frames, Root) /\ Program[text].ok /\ text \in DOMAIN Program
  BY DEF IInv, Typed
<1>2. Top = Last(stack) /\ Frame = Last(frames)
  BY DEF Top, Frame
<1>3. /\ Len(stack) \in Nat \ {0} /\ stack # <<>> /\ Last(stack) \in Activation /\ Sound(Last(stack), Root)
      /\ Last(frames) \in Bindings /\ Home(Last(stack)) = Len(frames)
      /\ Len(stack) = 1 => Last(stack).node = Root /\ Last(stack).open = TRUE
  BY <1>1, GoodTop
<1>4. Root.op = "program"
  BY <1>1 DEF Good
<1>5. Top \in Activation /\ Sound(Top, Root) /\ Home(Top) = Len(frames) /\ Frame \in Bindings
      /\ (Len(stack) = 1 => Top.open = TRUE /\ Top.node.op = "program")
  BY <1>2, <1>3, <1>4
<1>6. Top.node \in Tree /\ Top.vals \in Seq(Val) /\ Top.open \in BOOLEAN
  BY <1>5, ActivationFields
<1>7. Top.node.op # "program" => Len(stack) > 1
  <2>1. Len(stack) = 1 => Top.node.op = "program"
    BY <1>2, <1>3, <1>4, Zenon
  <2>2. PICK m \in Nat \ {0} : m = Len(stack)
    BY <1>3
  <2>3. m # 1 => m > 1
    OBVIOUS
  <2> QED BY <2>1, <2>2, <2>3, Zenon
<1> QED BY <1>1, <1>2, <1>3, <1>5, <1>6, <1>7, Zenon

LEMMA GoodWith ==
  ASSUME IInv, pc = "run", NEW a \in Activation, a.node = Top.node, a.kept = Top.kept,
         Sound(a, Root), a.open = Top.open \/ Top.node.op \notin {"call", "program"}
  PROVE  Good(With(a), frames, Root)
<1>1. Home(a) = Home(Top)
  BY DEF Home
<1>2. Len(stack) = 1 => a.open = TRUE
  <2>1. Len(stack) = 1 => Top.open = TRUE /\ Top.node.op = "program"
    BY OnTop, Zenon
  <2> QED BY <2>1, Zenon
<1>3. Good([stack EXCEPT ![Len(stack)] = a], frames, Root)
  BY <1>1, <1>2, OnTop, GoodChange
<1> QED BY <1>3 DEF With

LEMMA GoodRest ==
  ASSUME IInv, pc = "run", Top.node.op # "program", ~(Top.open /\ Top.node.op = "call")
  PROVE  Good(Rest, frames, Root)
<1>1. Good(stack, frames, Root) /\ Len(stack) > 1 /\ Top = Last(stack)
  BY OnTop
<1>2. Good(Front(stack), FramesLeft(Last(stack), frames), Root)
  BY <1>1, GoodPop
<1>3. FramesLeft(Last(stack), frames) = frames
  BY <1>1 DEF FramesLeft
<1> QED BY <1>2, <1>3 DEF Rest

\* An expression that is not a call under way hands over its value.
LEMMA ResultIInv ==
  ASSUME IInv, Running, UNCHANGED <<text, pc>>, Top.node.op \in ExprOp, ~Top.open,
         NEW o, IsResult(o), Result(o)
  PROVE  IInv'
<1>1. pc = "run"
  BY DEF Running
<1>2. CASE o = Error
  BY <1>1, <1>2, StopIInv DEF Result
<1>3. CASE o # Error
  <2>1. PICK v \in Val : o = <<v>>
    BY <1>3 DEF IsResult
  <2>2. o[1] = v /\ Become(Handed(v))
    BY <1>3, <2>1 DEF Result
  <2>3. Good([Front(stack) EXCEPT ![Len(stack) - 1].vals = Append(@, v)], FramesLeft(Last(stack), frames), Root)
    BY <1>1, OnTop, GoodHand
  <2>4. FramesLeft(Last(stack), frames) = frames
    BY <1>1, OnTop DEF FramesLeft
  <2>5. Good(Handed(v), frames, Root)
    BY <2>3, <2>4 DEF Handed, Rest
  <2> QED BY <1>1, <2>2, <2>5, BecomeIInv
<1> QED BY <1>2, <1>3

LEMMA StoreIInv ==
  ASSUME IInv, Running, UNCHANGED <<text, pc>>, Top.node.op \in {"let", "assign", "set"}, ~Top.open,
         NEW x \in Val, Store(SetVar(Frame, Top.node.name, x))
  PROVE  IInv'
<1> DEFINE name == Top.node.name
           v == Written(frames, SetVar(Last(frames), name, x))
<1>1. pc = "run" /\ flow = "on"
  BY DEF Running
<1>2. /\ Good(stack, frames, Root) /\ Top = Last(stack) /\ Frame = Last(frames)
      /\ Top.node \in Tree /\ Frame \in Bindings
  BY <1>1, OnTop
<1>3. name \in Top.node.binds /\ name \in STRING /\ Top.node.op \notin ExprOp
  BY <1>2, Arities, TreeFields DEF ExprOp
<1>4. Good(stack, v, Root)
  BY <1>2, <1>3, GoodWrite
<1>5. Len(stack) > 1
  BY <1>1, OnTop
<1>6. Good(Front(stack), FramesLeft(Last(stack), v), Root) /\ FramesLeft(Last(stack), v) = v
  <2> HIDE DEF v
  <2>1. Good(Front(stack), FramesLeft(Last(stack), v), Root)
    BY <1>4, <1>5, GoodPop
  <2> QED BY <1>2, <2>1 DEF FramesLeft
<1>7. /\ frames' = v /\ stack' = Front(stack) /\ UNCHANGED <<depth, out, steps, flow, val>>
  BY <1>2, Zenon DEF Store, InFrame, Written, Rest
<1>8. Len(v) = Len(frames)
  <2>1. SetVar(Frame, name, x) \in Bindings
    BY <1>2, <1>3, SetVarType
  <2>2. Len(frames) \in Nat \ {0} /\ frames \in Seq(Bindings)
    BY <1>2, GoodTop DEF Good
  <2> QED BY <1>2, <2>1, <2>2, ExceptSeq DEF Written
<1> HIDE DEF v
<1>9. Good(stack', frames', Root)
  BY <1>6, <1>7
<1> QED BY <1>1, <1>7, <1>8, <1>9, GoesOn DEF IInv, Typed

LEMMA OpenedFields ==
  ASSUME NEW a \in Activation, NEW body \in Seq(Tree)
  PROVE  /\ Opened(a, body) \in Activation
         /\ Opened(a, body).node = a.node /\ Opened(a, body).kept = a.kept
         /\ Opened(a, body).vals = a.vals
         /\ Opened(a, body).open = TRUE /\ Opened(a, body).todo = body
BY DEF Activation, Opened

\* A node that has its body open.
LEMMA SoundOpen ==
  ASSUME NEW a \in Activation, a.open = TRUE, a.node.op \in {"program", "if", "repeat", "while"},
         a.todo \in {a.node.body, a.node.other}, a.node.op = "repeat" => a.vals # <<>>, NEW root
  PROVE  Sound(a, root)
<1>1. a.node \in Tree
  BY ActivationFields
<1>2. \A i \in 1..Len(a.todo) : Doable(a.todo[i], a, root)
  <2> SUFFICES ASSUME NEW i \in 1..Len(a.todo) PROVE Doable(a.todo[i], a, root)
    OBVIOUS
  <2>1. a.node.op # "fn" /\ a.node.op # "call"
    OBVIOUS
  <2>2. /\ a.todo[i].op \in StmtOp /\ a.todo[i].high < a.node.high
        /\ a.todo[i].binds \subseteq a.node.binds
    BY <1>1, <2>1, StatementOf
  <2> QED BY <2>1, <2>2 DEF Doable
<1>3. a.node.op \in Blocks /\ a.node.op # "list"
  BY DEF Blocks
<1> QED BY <1>2, <1>3 DEF Sound, Affordable

\* The program is begun: its block is open, in the frame of the program.
LEMMA GoodBegin ==
  ASSUME NEW root \in Tree, root.op = "program", NEW fr \in Seq(Bindings), Len(fr) = 1,
         NEW b \in Activation, b.node = root, b.open = TRUE, b.todo = root.body,
         b.vals = <<>>, b.kept = fr
  PROVE  Good(<<b>>, fr, root)
<1> DEFINE s == <<b>>
<1>1. s \in Seq(Activation) /\ Len(s) = 1 /\ s[1] = b
  OBVIOUS
<1> HIDE DEF s
<1>2. Sound(b, root)
  BY SoundOpen
<1>3. Height(1, b, root)
  <2>1. PICK h \in Nat : h = root.high
    BY TreeFields
  <2>2. 1 + h <= 1 * h + 1
    OBVIOUS
  <2> QED BY <2>1, <2>2 DEF Height
<1>4. Home(b) = 1
  <2>1. Home(b) = Len(b.kept) + 0
    BY DEF Home
  <2> QED BY <2>1
<1>5. Kept(b, fr)
  BY KeptFresh
<1>6. \A j \in 1..Len(s) :
        Sound(s[j], root) /\ Height(j, s[j], root) /\ (j > 1 => s[j].node.op # "program")
  BY <1>1, <1>2, <1>3
<1>7. /\ \A j \in 1..(Len(s) - 1) : Link(s[j], s[j + 1])
      /\ \A k \in 1..Len(s) : \A j \in 1..(k - 1) : Above(s[j], s[k])
  BY <1>1
<1>8. Shape(s, Len(fr), root)
  BY <1>1, <1>4, <1>6, <1>7 DEF Shape
<1>9. \A j \in 1..Len(s) : Kept(s[j], fr)
  BY <1>1, <1>5
<1> QED BY <1>1, <1>8, <1>9 DEF Good, s

---------------------------------------------------------------------------
(* The steps.                                                              *)

LEMMA FreshForm ==
  ASSUME NEW t
  PROVE  Fresh(t) = [node |-> t, vals |-> <<>>, open |-> FALSE, todo |-> <<>>, kept |-> frames]
BY DEF Fresh

LEMMA BeginIInv == ASSUME IInv, Begin PROVE IInv'
<1>1. pc = "parse" /\ UNCHANGED <<text, frames, steps, depth, out, flow, val>>
  BY DEF Begin
<1>2. Typed /\ stack = <<>> /\ depth = 0 /\ Root' = Root
  BY <1>1 DEF IInv, Root
<1>3. frames \in Seq(Bindings) /\ Len(frames) = 1 /\ text \in DOMAIN Program
  BY <1>2 DEF Typed
<1>4. CASE Program[text].ok
  <2> DEFINE b == Opened(Fresh(Root), Root.body)
  <2>1. pc' = "run" /\ stack' = <<b>>
    BY <1>4 DEF Begin
  <2>2. Root \in Tree /\ Root.op = "program" /\ Root.body \in Seq(Tree)
    BY <1>3, <1>4, RootFacts, TreeFields
  <2>3. Fresh(Root) \in Activation /\ Fresh(Root).node = Root /\ Fresh(Root).kept = frames /\ Fresh(Root).vals = <<>>
    <3>1. <<>> \in Seq(Val) /\ <<>> \in Seq(Tree)
      BY EmptySeq
    <3> QED BY <1>3, <2>2, <3>1, FreshForm DEF Activation
  <2>4. /\ b \in Activation /\ b.node = Root /\ b.open = TRUE /\ b.todo = Root.body
        /\ b.vals = <<>> /\ b.kept = frames
    BY <2>2, <2>3, OpenedFields
  <2> HIDE DEF b
  <2>5. Good(<<b>>, frames, Root)
    BY <1>3, <2>2, <2>4, GoodBegin
  <2>6. Good(stack', frames', Root')
    BY <1>1, <1>2, <2>1, <2>5
  <2>7. Typed'
    BY <1>1, <1>2, <2>1 DEF Typed
  <2> QED BY <1>1, <1>4, <2>1, <2>6, <2>7 DEF IInv
<1>5. CASE ~Program[text].ok
  <2>1. pc' = "refused" /\ stack' = stack
    BY <1>5 DEF Begin
  <2>2. Typed'
    BY <1>1, <1>2, <2>1 DEF Typed
  <2> QED BY <1>1, <1>2, <2>1, <2>2 DEF IInv
<1> QED BY <1>4, <1>5

LEMMA OperandIInv == ASSUME IInv, Operand, UNCHANGED <<text, pc>> PROVE IInv'
<1>1. Running /\ pc = "run" /\ ~Top.open /\ Wants(Top)
  BY DEF Operand, Running
<1>2. CASE Refused(Top)
  BY <1>1, <1>2, StopIInv DEF Operand
<1>3. CASE ~Refused(Top)
  <2> DEFINE t == Top.node.es[Len(Top.vals) + 1]
             s == Append(stack, Fresh(t))
  <2>1. Spend(s)
    BY <1>3 DEF Operand
  <2>2. /\ Good(stack, frames, Root) /\ Top = Last(stack)
        /\ Top.node \in Tree /\ Top.vals \in Seq(Val)
    BY <1>1, OnTop
  <2>3. PICK k \in Nat, n \in Nat : k = Len(Top.vals) /\ n = Len(Top.node.es) /\ k < n
    BY <1>1, <2>2, LenProperties, TreeFields DEF Wants
  <2>4. k + 1 \in 1..n
    BY <2>3
  <2>5. t \in Tree /\ t.op \in ExprOp /\ t.high < Top.node.high
    BY <2>2, <2>3, <2>4, OperandOf
  <2>6. Affordable(Top)
    <3>1. MaxList \in Nat
      BY ValuesAssumption
    <3> QED BY <1>3, <2>3, <3>1 DEF Refused, Affordable
  <2>7. Child(t, Top, Root)
    <3> HIDE DEF t
    <3> QED BY <1>1, <2>3, <2>5, <2>6 DEF Child, Awaits
  <2> HIDE DEF t
  <2>8. Good(s, frames, Root)
    BY <2>2, <2>5, <2>7, FreshForm, GoodPush
  <2> QED BY <1>1, <2>1, <2>8, SpendIInv
<1> QED BY <1>2, <1>3

LEMMA StatementIInv == ASSUME IInv, Statement, UNCHANGED <<text, pc>> PROVE IInv'
<1>1. Running /\ pc = "run" /\ Top.open /\ Top.todo # <<>>
  BY DEF Statement, Running
<1> DEFINE a == [Top EXCEPT !.todo = Tail(@)]
           t == Head(Top.todo)
           s == With(a)
<1>2. Spend(Append(s, Fresh(t)))
  BY DEF Statement
<1>3. /\ Good(stack, frames, Root) /\ Top \in Activation /\ Sound(Top, Root) /\ Top.open = TRUE
      /\ Top.todo \in Seq(Tree)
  BY <1>1, OnTop, ActivationFields
<1>4. /\ Tail(Top.todo) \in Seq(Tree) /\ Len(Tail(Top.todo)) = Len(Top.todo) - 1
      /\ \A i \in 1..Len(Tail(Top.todo)) : Tail(Top.todo)[i] = Top.todo[i + 1]
      /\ t \in Tree
  BY <1>1, <1>3, HeadTailProperties
<1>5. PICK n \in Nat \ {0} : n = Len(Top.todo)
  BY <1>1, <1>3, EmptySeq
<1>6. t = Top.todo[1]
  BY <1>1, <1>3
<1>7. /\ a \in Activation /\ a.node = Top.node /\ a.kept = Top.kept /\ a.open = TRUE
      /\ a.vals = Top.vals /\ a.todo = Tail(Top.todo)
  BY <1>3, <1>4 DEF Activation
<1> HIDE DEF a, t
<1>8. /\ a.node.op \in Blocks /\ (a.node.op = "repeat" => a.vals # <<>>)
      /\ \A i \in 1..n : Doable(Top.todo[i], Top, Root)
      /\ a.vals # <<>> => Affordable(a)
  BY <1>3, <1>5, <1>7, Zenon DEF Sound, Affordable
<1>9. \A i \in 1..n : Doable(Top.todo[i], a, Root)
  BY <1>7, <1>8, Zenon DEF Doable
<1>10. \A i \in 1..Len(a.todo) : Doable(a.todo[i], a, Root)
  <2> SUFFICES ASSUME NEW i \in 1..Len(a.todo) PROVE Doable(a.todo[i], a, Root)
    OBVIOUS
  <2>1. i + 1 \in 1..n /\ a.todo[i] = Top.todo[i + 1]
    BY <1>4, <1>5, <1>7
  <2> QED BY <1>9, <2>1
<1>11. Sound(a, Root)
  BY <1>7, <1>8, <1>10 DEF Sound
<1>12. Good(s, frames, Root)
  BY <1>1, <1>3, <1>7, <1>11, GoodWith
<1>13. Last(s) = a
  <2>1. stack \in Seq(Activation) /\ Len(stack) \in Nat \ {0}
    BY <1>3, GoodTop DEF Good
  <2> QED BY <1>7, <2>1, ExceptSeq DEF With, Last
<1>14. Child(t, a, Root)
  <2>1. Doable(t, a, Root)
    BY <1>6, <1>9
  <2> QED BY <1>7, <1>8, <2>1 DEF Child
<1> HIDE DEF s
<1>15. Good(Append(s, Fresh(t)), frames, Root)
  BY <1>4, <1>12, <1>13, <1>14, FreshForm, GoodPush
<1> QED BY <1>1, <1>2, <1>15, SpendIInv

LEMMA EvaluateIInv == ASSUME IInv, Evaluate, UNCHANGED <<text, pc>> PROVE IInv'
<1>1. /\ Running /\ pc = "run" /\ Top.node.op \in ExprOp /\ ~Top.open /\ ~Wants(Top)
      /\ Top.node.op = "call" => Top.node.name \in Builtins
  BY DEF Evaluate, Ready, Running
<1>2. IsResult(Value(Top))
  BY <1>1, OnTop, ValueType
<1> QED BY <1>1, <1>2, ResultIInv DEF Evaluate

LEMMA EnterIInv == ASSUME IInv, Enter, UNCHANGED <<text, pc>> PROVE IInv'
<1>1. Running /\ pc = "run" /\ Top.node.op = "call" /\ ~Top.open
  BY DEF Enter, Ready, Running
<1> DEFINE f == Fns[Top.node.name]
           g == Arguments(f, Top.vals)
           a == Opened(Top, f.body)
<1>2. CASE ~(Callable(Top.node.name, Top.vals) /\ depth < MaxDepth)
  BY <1>1, <1>2, StopIInv DEF Enter
<1>3. CASE Callable(Top.node.name, Top.vals) /\ depth < MaxDepth
  <2>1. /\ frames' = Append(frames, g) /\ depth' = depth + 1 /\ stack' = With(a)
        /\ UNCHANGED <<out, steps, flow, val>>
    BY <1>3 DEF Enter
  <2>2. /\ Good(stack, frames, Root) /\ Top \in Activation /\ Top = Last(stack)
        /\ Top.vals \in Seq(Val) /\ Program[text].ok /\ text \in DOMAIN Program
    BY <1>1, OnTop
  <2>3. f \in Tree /\ f.op = "fn" /\ f.high < Root.high /\ Len(f.params) = Len(Top.vals)
    BY <1>3, <2>2, RootFacts DEF Callable
  <2> HIDE DEF f
  <2>4. g \in Bindings
    BY <2>2, <2>3, TreeFields, ArgumentsType
  <2>5. /\ a \in Activation /\ a.node = Top.node /\ a.kept = Top.kept /\ a.open = TRUE
        /\ a.todo = f.body
    BY <2>2, <2>3, TreeFields, OpenedFields
  <2> HIDE DEF g, a
  <2>6. \A i \in 1..Len(a.todo) : Doable(a.todo[i], a, Root)
    <3> SUFFICES ASSUME NEW i \in 1..Len(f.body) PROVE Doable(f.body[i], a, Root)
      BY <2>5
    <3>1. f.body[i].op \in StmtOp /\ f.body[i].high < f.high
      BY <2>3, StatementOf
    <3>2. f.body[i].high \in Nat /\ f.high \in Nat /\ Root.high \in Nat
      <4>1. f.body[i] \in Tree
        BY <2>3, TreeFields, ElementOfSeq
      <4> QED BY <2>2, <2>3, <4>1, TreeFields DEF Good
    <3>3. f.body[i].high < Root.high
      BY <2>3, <3>1, <3>2
    <3> QED BY <1>1, <2>5, <3>1, <3>3 DEF Doable
  <2>7. Sound(a, Root)
    BY <1>1, <2>5, <2>6 DEF Sound, Affordable, Blocks
  <2>8. Good(With(a), Append(frames, g), Root)
    <3>1. Last(stack).node.op = "call" /\ Last(stack).open = FALSE
      BY <1>1, <2>2, ActivationFields
    <3> QED BY <2>2, <2>4, <2>5, <2>7, <3>1, GoodCall DEF With
  <2>9. Good(stack', frames', Root)
    BY <2>1, <2>8
  <2>10. Len(frames') = depth' + 1
    <3>1. frames \in Seq(Bindings) /\ Len(frames) = depth + 1
      BY DEF IInv, Typed
    <3> QED BY <2>1, <2>4, <3>1, AppendProperties
  <2>11. depth' \in 0..MaxDepth
    <3>1. depth \in 0..MaxDepth /\ MaxDepth \in Nat
      BY BoundsAssumption DEF IInv, Typed
    <3> QED BY <1>3, <2>1, <3>1
  <2> QED BY <1>1, <2>1, <2>9, <2>10, <2>11, GoesOn DEF IInv, Typed
<1> QED BY <1>2, <1>3

\* The first operands of a statement that has them all are values.
LEMMA OperandValue ==
  ASSUME IInv, pc = "run", ~Wants(Top), Top.node.op \notin {"bin", "print"},
         NEW i \in 1..Len(Top.node.es)
  PROVE  Top.vals[i] \in Val
<1>1. Top \in Activation /\ Top.vals \in Seq(Val)
  BY OnTop
<1>2. PICK k \in Nat, n \in Nat : k = Len(Top.vals) /\ n = Len(Top.node.es)
  BY <1>1, ActivationFields, TreeFields
<1>3. k >= n
  BY <1>1, <1>2, Enough
<1>4. i \in 1..k
  BY <1>2, <1>3
<1> QED BY <1>1, <1>2, <1>4, ElementOfSeq

LEMMA LetIInv == ASSUME IInv, Let, UNCHANGED <<text, pc>> PROVE IInv'
<1>1. Running /\ pc = "run" /\ Top.node.op \in {"let", "assign"} /\ ~Top.open /\ ~Wants(Top)
  BY DEF Let, Ready, Running
<1>2. CASE Top.node.op = "assign" /\ ~Bound(Frame, Top.node.name)
  BY <1>1, <1>2, StopIInv DEF Let
<1>3. CASE ~(Top.node.op = "assign" /\ ~Bound(Frame, Top.node.name))
  <2>1. Store(SetVar(Frame, Top.node.name, Top.vals[1]))
    BY <1>3 DEF Let
  <2>2. Len(Top.node.es) = 1
    BY <1>1, OnTop, Arities
  <2>3. Top.vals[1] \in Val
    BY <1>1, <2>2, OperandValue
  <2> QED BY <1>1, <2>1, <2>3, StoreIInv
<1> QED BY <1>2, <1>3

LEMMA SetIndexIInv == ASSUME IInv, SetIndex, UNCHANGED <<text, pc>> PROVE IInv'
<1>1. Running /\ pc = "run" /\ Top.node.op = "set" /\ ~Top.open /\ ~Wants(Top)
  BY DEF SetIndex, Ready, Running
<1> DEFINE name == Top.node.name
           old == Get(Frame, name)
           u == IndexOf(Top.vals[1].n, Len(old.l))
           new == [old.l EXCEPT ![u] = Top.vals[2]]
<1>2. CASE ~(Bound(Frame, name) /\ old.kind = "list" /\ u # 0)
  BY <1>1, <1>2, StopIInv, Zenon DEF SetIndex
<1>3. CASE Bound(Frame, name) /\ old.kind = "list" /\ u # 0
  <2>1. Store(SetVar(Frame, name, List(new)))
    BY <1>3, Zenon DEF SetIndex
  <2>2. Len(Top.node.es) = 2
    BY <1>1, OnTop, Arities
  <2>3. Top.vals[1] \in Val /\ Top.vals[2] \in Val
    BY <1>1, <2>2, OperandValue
  <2>4. old \in Val
    BY <1>1, <1>3, OnTop, GetType
  <2>5. old.l \in Seq(Val) /\ Len(old.l) <= MaxList /\ Len(old.l) \in Nat
    BY <2>4, ValFields, LenProperties
  <2>6. Top.vals[1].n \in Int
    BY <2>3, ValFields, Bits
  <2>7. u \in 1..Len(old.l)
    <3>1. u \in 0..Len(old.l)
      BY <2>5, <2>6, IndexPlace
    <3> QED BY <1>3, <2>5, <3>1
  <2> HIDE DEF u, old
  <2>8. new \in Seq(Val) /\ Len(new) = Len(old.l)
    BY <2>3, <2>5, <2>7, ExceptSeq
  <2>9. List(new) \in Val
    <3> HIDE DEF new
    <3> QED BY <2>5, <2>8, ValClosed
  <2> HIDE DEF new
  <2> QED BY <1>1, <2>1, <2>9, StoreIInv
<1> QED BY <1>2, <1>3

LEMMA PrintLineIInv == ASSUME IInv, PrintLine, UNCHANGED <<text, pc>> PROVE IInv'
<1>1. /\ Running /\ pc = "run" /\ Top.node.op = "print" /\ ~Top.open
      /\ out' = Emit(out, Line(Top.vals)) /\ stack' = Rest
      /\ UNCHANGED <<frames, depth, steps, flow, val>>
  BY DEF PrintLine, Ready, Running
<1>2. Good(stack', frames', Root)
  BY <1>1, GoodRest
<1>3. Line(Top.vals) \in Text
  BY <1>1, OnTop, LineType
<1>4. out' \in Text /\ Len(out') <= OutCap + 2
  BY <1>1, <1>3, EmitFits DEF IInv, Typed
<1> QED BY <1>1, <1>2, <1>4, GoesOn DEF IInv, Typed

LEMMA DiscardIInv == ASSUME IInv, Discard, UNCHANGED <<text, pc>> PROVE IInv'
<1>1. /\ Running /\ pc = "run" /\ Top.node.op \in {"fn", "discard"} /\ ~Top.open
      /\ Become(Rest)
  BY DEF Discard, Ready, Running
<1>2. Good(Rest, frames, Root)
  BY <1>1, GoodRest
<1> QED BY <1>1, <1>2, BecomeIInv

\* The body of the innermost activation is opened.
LEMMA GoodOpen ==
  ASSUME IInv, pc = "run", Top.node.op \in {"if", "while"}, NEW b \in {Top.node.body, Top.node.other}
  PROVE  Good(With(Opened(Top, b)), frames, Root)
<1>1. Top \in Activation /\ Top.node \in Tree
  BY OnTop
<1>2. b \in Seq(Tree)
  BY <1>1, TreeFields
<1> DEFINE a == Opened(Top, b)
<1>3. /\ a \in Activation /\ a.node = Top.node /\ a.kept = Top.kept
      /\ a.open = TRUE /\ a.todo = b
  BY <1>1, <1>2, OpenedFields
<1> HIDE DEF a
<1>4. Sound(a, Root)
  BY <1>3, SoundOpen
<1>5. Good(With(a), frames, Root)
  BY <1>3, <1>4, GoodWith
<1> QED BY <1>5 DEF a

LEMMA IfIInv == ASSUME IInv, If, UNCHANGED <<text, pc>> PROVE IInv'
<1>1. Running /\ pc = "run" /\ Top.node.op = "if"
  BY DEF If, Ready, Running
<1>2. PICK b \in {Top.node.body, Top.node.other} : Become(With(Opened(Top, b)))
  BY DEF If
<1>3. Good(With(Opened(Top, b)), frames, Root)
  BY <1>1, GoodOpen
<1> QED BY <1>1, <1>2, <1>3, BecomeIInv

LEMMA WhileIInv == ASSUME IInv, While, UNCHANGED <<text, pc>> PROVE IInv'
<1>1. Running /\ pc = "run" /\ Top.node.op = "while"
  BY DEF While, Ready, Running
<1>2. CASE Truthy(Top.vals[1])
  <2>1. Spend(With(Opened(Top, Top.node.body)))
    BY <1>2 DEF While
  <2>2. Good(With(Opened(Top, Top.node.body)), frames, Root)
    BY <1>1, GoodOpen
  <2> QED BY <1>1, <2>1, <2>2, SpendIInv
<1>3. CASE ~Truthy(Top.vals[1])
  <2>1. Become(Rest)
    BY <1>3 DEF While
  <2>2. Good(Rest, frames, Root)
    BY <1>1, GoodRest
  <2> QED BY <1>1, <2>1, <2>2, BecomeIInv
<1> QED BY <1>2, <1>3

\* So many rounds are still to go.
LEMMA GoodAgain ==
  ASSUME IInv, pc = "run", Top.node.op = "repeat", NEW n \in Int64
  PROVE  Good(With(Again(n)), frames, Root)
<1>1. Top \in Activation /\ Top.node \in Tree
  BY OnTop
<1>2. Top.node.body \in Seq(Tree)
  BY <1>1, TreeFields
<1> DEFINE a == Again(n)
           b == Opened(Top, Top.node.body)
<1>3. /\ b \in Activation /\ b.node = Top.node /\ b.kept = Top.kept
      /\ b.open = TRUE /\ b.todo = Top.node.body
  BY <1>1, <1>2, OpenedFields
<1>4. <<Num(n)>> \in Seq(Val) /\ <<Num(n)>> # <<>>
  <2>1. Num(n) \in Val
    BY ValClosed
  <2> QED BY <2>1
<1>5. a = [b EXCEPT !.vals = <<Num(n)>>]
  BY DEF Again
<1> HIDE DEF b
<1>6. /\ a \in Activation /\ a.node = Top.node /\ a.kept = Top.kept
      /\ a.open = TRUE /\ a.todo = Top.node.body /\ a.vals = <<Num(n)>>
  BY <1>3, <1>4, <1>5 DEF Activation
<1> HIDE DEF a
<1>7. Sound(a, Root)
  BY <1>4, <1>6, SoundOpen
<1>8. Good(With(a), frames, Root)
  BY <1>6, <1>7, GoodWith
<1> QED BY <1>8 DEF a

LEMMA RepeatIInv == ASSUME IInv, Repeat, UNCHANGED <<text, pc>> PROVE IInv'
<1>1. Running /\ pc = "run" /\ Top.node.op = "repeat" /\ ~Wants(Top)
  BY DEF Repeat, Ready, Running
<1> DEFINE x == Top.vals[1]
<1>2. x \in Val
  <2>1. Len(Top.node.es) = 1
    BY <1>1, OnTop, Arities
  <2> QED BY <1>1, <2>1, OperandValue
<1>3. x.n \in Int64 /\ x.n \in Int /\ IntMax \in Nat /\ RepeatMax \in Nat
  BY <1>2, ValFields, Bits, ValuesAssumption, BoundsAssumption
<1>4. CASE x.kind # "int"
  BY <1>1, <1>4, StopIInv DEF Repeat
<1>5. CASE x.kind = "int" /\ x.n <= 0
  <2>1. Become(Rest)
    BY <1>5 DEF Repeat
  <2>2. Good(Rest, frames, Root)
    BY <1>1, GoodRest
  <2> QED BY <1>1, <2>1, <2>2, BecomeIInv
<1>6. CASE x.kind = "int" /\ ~(x.n <= 0)
  <2> DEFINE n == IF x.n < RepeatMax THEN x.n ELSE RepeatMax
  <2>1. Become(With(Again(n)))
    BY <1>6 DEF Repeat
  <2>2. n \in Int64
    BY <1>3 DEF Int64
  <2> HIDE DEF n
  <2>3. Good(With(Again(n)), frames, Root)
    BY <1>1, <2>2, GoodAgain
  <2> QED BY <1>1, <2>1, <2>3, BecomeIInv
<1> QED BY <1>4, <1>5, <1>6

LEMMA ReturnIInv == ASSUME IInv, Return, UNCHANGED <<text, pc>> PROVE IInv'
<1>1. /\ pc = "run" /\ flow' = "return" /\ ~(steps > StepBudget)
      /\ val' = (IF Top.vals = <<>> THEN Num(0) ELSE Top.vals[1])
      /\ UNCHANGED <<stack, frames, depth, out, steps>>
  BY DEF Return, Ready, Running, IInv, Typed
<1>2. val' \in Val
  <2>1. Num(0) \in Val
    BY Bits, ValClosed
  <2>2. Top.vals # <<>> => Top.vals[1] \in Val
    <3>1. Top.vals \in Seq(Val)
      BY <1>1, OnTop
    <3>2. Top.vals # <<>> => 1 \in 1..Len(Top.vals)
      BY <3>1, EmptySeq
    <3> QED BY <3>1, <3>2, ElementOfSeq
  <2> QED BY <1>1, <2>1, <2>2
<1>3. Good(stack', frames', Root)
  BY <1>1 DEF IInv
<1> QED BY <1>1, <1>2, <1>3, GoesOn DEF IInv, Typed

\* A call under way is left, with its frame: for the value, or for nothing.
LEMMA GoodClose ==
  ASSUME IInv, pc = "run", Top.node.op = "call", Top.open = TRUE, NEW x \in Val
  PROVE  /\ Good(Handed(x), Front(frames), Root) /\ Good(Rest, Front(frames), Root)
         /\ depth - 1 \in 0..MaxDepth /\ Len(Front(frames)) = depth - 1 + 1
<1>1. /\ Good(stack, frames, Root) /\ Top = Last(stack) /\ Len(stack) > 1
  BY OnTop
<1>2. FramesLeft(Last(stack), frames) = Front(frames)
  BY <1>1 DEF FramesLeft
<1>3. Good(Front(stack), Front(frames), Root) /\ Len(frames) > 1
  BY <1>1, <1>2, GoodPop
<1>4. Good([Front(stack) EXCEPT ![Len(stack) - 1].vals = Append(@, x)], Front(frames), Root)
  BY <1>1, <1>2, OpsDisjoint, GoodHand
<1>5. frames \in Seq(Bindings) /\ Len(frames) = depth + 1 /\ depth \in 0..MaxDepth /\ MaxDepth \in Nat
  BY BoundsAssumption DEF IInv, Typed
<1>6. frames # <<>> /\ Len(Front(frames)) = Len(frames) - 1
  BY <1>1, <1>5, GoodTop, FrontFacts
<1>7. depth - 1 \in 0..MaxDepth /\ Len(Front(frames)) = depth - 1 + 1
  BY <1>3, <1>5, <1>6
<1> QED BY <1>3, <1>4, <1>7 DEF Handed, Rest

LEMMA EndCallIInv == ASSUME IInv, EndCall, UNCHANGED <<text, pc>> PROVE IInv'
<1>1. /\ pc = "run" /\ Top.node.op = "call" /\ Top.open
      /\ frames' = Front(frames) /\ depth' = depth - 1
      /\ stack' = Handed(Num(0)) /\ UNCHANGED <<out, steps, flow, val>>
  BY DEF EndCall, CloseFrame, Over, Running
<1>2. Num(0) \in Val
  BY Bits, ValClosed
<1>3. /\ Good(Handed(Num(0)), Front(frames), Root)
      /\ depth - 1 \in 0..MaxDepth /\ Len(Front(frames)) = depth - 1 + 1
  BY <1>1, <1>2, OnTop, GoodClose
<1>4. Good(stack', frames', Root) /\ depth' \in 0..MaxDepth /\ Len(frames') = depth' + 1
  BY <1>1, <1>3
<1> QED BY <1>1, <1>4, GoesOn DEF IInv, Typed

LEMMA EndRoundIInv == ASSUME IInv, EndRound, UNCHANGED <<text, pc>> PROVE IInv'
<1>1. Running /\ pc = "run" /\ Top.node.op = "repeat" /\ Top.open
  BY DEF EndRound, Over, Running
<1>2. CASE Top.vals[1].n > 1
  <2>1. Become(With(Again(Top.vals[1].n - 1)))
    BY <1>2 DEF EndRound
  <2>2. Top.vals \in Seq(Val) /\ Top.vals # <<>>
    BY <1>1, OnTop DEF Sound
  <2>3. 1 \in 1..Len(Top.vals)
    BY <2>2, EmptySeq
  <2>4. Top.vals[1] \in Val
    BY <2>2, <2>3, ElementOfSeq
  <2>5. Top.vals[1].n \in Int64 /\ IntMax \in Nat
    BY <2>4, ValFields, ValuesAssumption
  <2>6. Top.vals[1].n - 1 \in Int64
    BY <1>2, <2>5 DEF Int64
  <2>7. Good(With(Again(Top.vals[1].n - 1)), frames, Root)
    BY <1>1, <2>6, GoodAgain
  <2> QED BY <1>1, <2>1, <2>7, BecomeIInv
<1>3. CASE ~(Top.vals[1].n > 1)
  <2>1. Become(Rest)
    BY <1>3 DEF EndRound
  <2>2. Good(Rest, frames, Root)
    BY <1>1, GoodRest
  <2> QED BY <1>1, <2>1, <2>2, BecomeIInv
<1> QED BY <1>2, <1>3

LEMMA EndPassIInv == ASSUME IInv, EndPass, UNCHANGED <<text, pc>> PROVE IInv'
<1> DEFINE a == [Top EXCEPT !.open = FALSE, !.vals = <<>>]
<1>1. Running /\ pc = "run" /\ Top.node.op = "while" /\ Top.open /\ Become(With(a))
  BY DEF EndPass, Over, Running
<1>2. Top \in Activation /\ Top.node \in Tree
  BY <1>1, OnTop
<1>3. <<>> \in Seq(Val) /\ Len(<<>>) = 0
  BY EmptySeq
<1>4. /\ a \in Activation /\ a.node = Top.node /\ a.kept = Top.kept
      /\ a.open = FALSE /\ a.vals = <<>>
  BY <1>2, <1>3 DEF Activation
<1> HIDE DEF a
<1>5. Sound(a, Root)
  <2>1. Len(a.node.es) \in Nat /\ Len(a.vals) = 0
    BY <1>2, <1>3, <1>4, TreeFields
  <2> QED BY <1>4, <2>1 DEF Sound
<1>6. Good(With(a), frames, Root)
  BY <1>1, <1>4, <1>5, GoodWith
<1> QED BY <1>1, <1>6, BecomeIInv

LEMMA EndBranchIInv == ASSUME IInv, EndBranch, UNCHANGED <<text, pc>> PROVE IInv'
<1>1. Running /\ pc = "run" /\ Top.node.op = "if" /\ Become(Rest)
  BY DEF EndBranch, Over, Running
<1>2. Good(Rest, frames, Root)
  BY <1>1, GoodRest
<1> QED BY <1>1, <1>2, BecomeIInv

LEMMA UnwindIInv == ASSUME IInv, Unwind, UNCHANGED <<text, pc>> PROVE IInv'
<1>1. pc = "run" /\ flow # "on" /\ Len(stack) > 1 /\ UNCHANGED <<out, steps, val>>
  BY DEF Unwind
<1>2. /\ val \in Val /\ flow \in {"on", "return", "stop"} /\ (steps > StepBudget => flow = "stop")
  BY DEF IInv, Typed
<1>3. Top.node.op # "program"
  <2>1. Good(stack, frames, Root) /\ Top = Last(stack)
    BY <1>1, OnTop
  <2> QED BY <1>1, <2>1, GoodTop
<1>4. CASE Top.node.op = "call" /\ Top.open
  <2>1. /\ Good(Handed(val), Front(frames), Root) /\ Good(Rest, Front(frames), Root)
        /\ depth - 1 \in 0..MaxDepth /\ Len(Front(frames)) = depth - 1 + 1
    BY <1>1, <1>2, <1>4, OnTop, GoodClose
  <2>2. /\ frames' = Front(frames) /\ depth' = depth - 1
        /\ IF flow = "return" THEN stack' = Handed(val) /\ flow' = "on"
           ELSE stack' = Rest /\ flow' = flow
    BY <1>4 DEF Unwind, CloseFrame
  <2>3. /\ Good(stack', frames', Root) /\ depth' \in 0..MaxDepth /\ Len(frames') = depth' + 1
    BY <2>1, <2>2
  <2>4. flow' \in {"on", "return", "stop"} /\ (steps > StepBudget => flow' = "stop")
    BY <1>2, <2>2
  <2> QED BY <1>1, <2>3, <2>4, GoesOn DEF IInv, Typed
<1>5. CASE ~(Top.node.op = "call" /\ Top.open)
  <2>1. stack' = Rest /\ UNCHANGED <<frames, depth, flow>>
    BY <1>5 DEF Unwind
  <2>2. Good(stack', frames', Root)
    BY <1>1, <1>3, <1>5, <2>1, GoodRest
  <2> QED BY <1>1, <2>1, <2>2, GoesOn DEF IInv, Typed
<1> QED BY <1>4, <1>5

\* The run ends in the frame of the program.
LEMMA EndIInv == ASSUME IInv, End PROVE IInv'
<1>1. /\ pc = "run" /\ pc' \in {"failed", "ran"} /\ stack' = <<>>
      /\ UNCHANGED <<text, frames, steps, depth, out, flow, val>>
      /\ Top.node.op = "program" \/ Len(stack) = 1
  BY DEF End, Over, Running
<1>2. Good(stack, frames, Root) /\ Top = Last(stack) /\ Home(Top) = Len(frames)
  BY <1>1, OnTop
<1>3. Len(stack) = 1
  <2>1. PICK m \in Nat \ {0} : m = Len(stack)
    BY <1>2, GoodTop
  <2>2. m > 1 => Top.node.op # "program"
    BY <1>2, <2>1, GoodTop, Zenon
  <2>3. m = 1 \/ m > 1
    OBVIOUS
  <2> QED BY <1>1, <2>1, <2>2, <2>3, Zenon
<1>4. Len(frames) = 1
  <2>1. Top = stack[1] /\ Len(stack[1].kept) = 1 /\ Top.node = Root /\ Root.op = "program"
    BY <1>2, <1>3, GoodTop DEF Good, Shape
  <2>2. Home(Top) = 1 + 0
    BY <2>1 DEF Home
  <2> QED BY <1>2, <2>2
<1>5. depth = 0
  <2>1. Len(frames) = depth + 1 /\ depth \in 0..MaxDepth
    BY DEF IInv, Typed
  <2> QED BY <1>4, <2>1
<1>6. Typed'
  BY <1>1 DEF IInv, Typed
<1> QED BY <1>1, <1>5, <1>6 DEF IInv

LEMMA NextIInv == IInv /\ [Next]_vars => IInv'
<1> SUFFICES ASSUME IInv, [Next]_vars PROVE IInv'
  OBVIOUS
<1>1. CASE Begin
  BY <1>1, BeginIInv
<1>2. CASE Step
  <2>1. UNCHANGED <<text, pc>>
    BY <1>2 DEF Step
  <2> QED BY <1>2, <2>1, OperandIInv, StatementIInv, EvaluateIInv, EnterIInv, LetIInv, SetIndexIInv,
             PrintLineIInv, DiscardIInv, IfIInv, RepeatIInv, WhileIInv, ReturnIInv, EndCallIInv,
             EndRoundIInv, EndPassIInv, EndBranchIInv, UnwindIInv DEF Step
<1>3. CASE End
  BY <1>3, EndIInv
<1>4. CASE UNCHANGED vars
  <2>1. UNCHANGED <<text, pc, stack, frames, steps, depth, out, flow, val>>
    BY <1>4 DEF vars
  <2>2. Root' = Root
    BY <2>1 DEF Root
  <2>3. Typed'
    BY <2>1 DEF IInv, Typed
  <2> QED BY <2>1, <2>2, <2>3 DEF IInv
<1> QED BY <1>1, <1>2, <1>3, <1>4 DEF Next

LEMMA Invariance == Spec => []IInv
<1>1. Init => IInv
  BY InitIInv
<1>2. IInv /\ [Next]_vars => IInv'
  BY NextIInv
<1> QED BY <1>1, <1>2, PTL DEF Spec

---------------------------------------------------------------------------
(* The theorems.                                                           *)

\* Elements of the sequences of the state.
LEMMA InSequence ==
  ASSUME NEW S, NEW s \in Seq(S), NEW x \in ToSet(s) PROVE x \in S
<1>1. PICK i \in DOMAIN s : x = s[i]
  BY DEF ToSet
<1>2. i \in 1..Len(s)
  BY LenProperties
<1> QED BY <1>1, <1>2, ElementOfSeq

\* Depth counts the open frames, no step is spent beyond the first that is too
\* many, and every value kept fits: integers in their 64 bits whatever is
\* computed with them, lists within MAX_LIST at every level.
THEOREM TypeCorrect == Spec => []TypeOK
<1>1. IInv => TypeOK
  <2> SUFFICES ASSUME IInv PROVE TypeOK
    OBVIOUS
  <2>1. Typed /\ (pc # "run" => depth = 0)
    BY DEF IInv
  <2>2. ASSUME NEW f \in ToSet(frames), NEW b \in ToSet(f) PROVE b.value.fits
    <3>1. f \in Bindings
      BY <2>1, InSequence DEF Typed
    <3>2. b \in Binding
      BY <3>1, InSequence DEF Bindings
    <3>3. b.value \in Val
      BY <3>2 DEF Binding
    <3> QED BY <3>3, ValFields
  <2>3. ASSUME NEW a \in ToSet(stack), NEW x \in ToSet(a.vals) PROVE x.fits
    <3>1. stack \in Seq(Activation)
      BY EmptySeq DEF IInv, Good
    <3>2. a \in Activation
      BY <3>1, InSequence
    <3>3. a.vals \in Seq(Val)
      BY <3>2, ActivationFields
    <3>4. x \in Val
      BY <3>3, InSequence
    <3> QED BY <3>4, ValFields
  <2> QED BY <2>1, <2>2, <2>3 DEF Typed, TypeOK
<1> QED BY <1>1, Invariance, PTL

\* However much is printed, in whatever order of calls and loops, the digest
\* stays within OUT_CAP and the separator that may cross it.
THEOREM DigestFits == Spec => []OutputFits
<1>1. IInv => OutputFits
  BY DEF IInv, Typed, OutputFits
<1> QED BY <1>1, Invariance, PTL

\* Evaluations and executions nest no deeper than the text has tokens, and two,
\* in each of the calls MAX_DEPTH allows, whatever the program does.
THEOREM RecursionBounded == Spec => []StackBounded
<1>1. IInv => StackBounded
  <2> SUFFICES ASSUME IInv PROVE StackBounded
    OBVIOUS
  <2>1. depth \in 0..MaxDepth /\ MaxDepth \in Nat /\ Len(frames) = depth + 1
    BY BoundsAssumption DEF IInv, Typed
  <2>2. CASE pc = "run"
    <3>1. Good(stack, frames, Root) /\ Program[text].ok /\ text \in DOMAIN Program
      BY <2>2, OnTop
    <3>2. PICK h \in Nat, l \in Nat : h = Root.high /\ l = Len(text) /\ h <= l + 2
      BY <3>1, RootFacts, TreeFields
    <3>3. PICK n \in Nat : n = Len(frames) /\ n <= MaxDepth + 1
      BY <2>1
    <3>4. Len(stack) <= n * h
      BY <3>1, <3>2, <3>3, ShapeBounded DEF Good
    <3>5. PICK m \in Nat : m = Len(stack)
      BY <3>1, GoodTop
    <3>6. n * h <= (MaxDepth + 1) * h
      BY <2>1, <3>3
    <3>7. (MaxDepth + 1) * h <= (MaxDepth + 1) * (l + 2)
      BY <2>1, <3>2
    <3>8. PICK x \in Int, y \in Int, z \in Int :
            x = n * h /\ y = (MaxDepth + 1) * h /\ z = (MaxDepth + 1) * (l + 2)
      BY <2>1
    <3>9. m <= z
      BY <3>4, <3>5, <3>6, <3>7, <3>8
    <3> QED BY <3>2, <3>5, <3>8, <3>9 DEF StackBounded
  <2>3. CASE pc # "run"
    <3>1. Len(stack) = 0
      BY <2>3, EmptySeq DEF IInv
    <3>2. Len(text) \in Nat
      <4>1. text \in Seq(STRING)
        BY ProgramAssumption DEF IInv, Typed
      <4> QED BY <4>1, LenProperties
    <3>3. 0 <= (MaxDepth + 1) * (Len(text) + 2)
      BY <2>1, <3>2
    <3> QED BY <3>1, <3>3 DEF StackBounded
  <2> QED BY <2>2, <2>3
<1> QED BY <1>1, Invariance, PTL

\* What is evaluated and executed changes, of the variables there were when it
\* began, only those that the statement under way names itself, however deep
\* the calls in it went and however they ended.
THEOREM LocalsKept == Spec => []LocalsStayLocal
<1>1. IInv => LocalsStayLocal
  <2> SUFFICES ASSUME IInv PROVE LocalsStayLocal
    OBVIOUS
  <2>1. ASSUME NEW a \in ToSet(stack) PROVE Kept(a, frames)
    <3>1. PICK j \in DOMAIN stack : a = stack[j]
      BY DEF ToSet
    <3>2. pc = "run"
      BY <3>1 DEF IInv
    <3>3. Good(stack, frames, Root)
      BY <3>2, OnTop
    <3>4. DOMAIN stack = 1..Len(stack) /\ \A i \in 1..Len(stack) : Kept(stack[i], frames)
      BY <3>3, LenProperties DEF Good
    <3> QED BY <3>1, <3>4
  <2> QED BY <2>1, Zenon DEF LocalsStayLocal, Kept
<1> QED BY <1>1, Invariance, PTL
=============================================================================
