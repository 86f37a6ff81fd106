---------------------------- MODULE SelectionProofs ----------------------------
(***************************************************************************)
(* What the operators of Selection do to every sequence, and the induction *)
(* those facts rest on: up to a number, over a sequence by appending, and  *)
(* the recursive function that its recursion defines.  Each induction has  *)
(* the property as a set, so that it can be instantiated by the provers.   *)
(***************************************************************************)
EXTENDS Selection, SequencesExt, SequenceTheorems, FiniteSetTheorems, WellFoundedInduction, TLAPS

(***************************************************************************)
(* A set of natural numbers that is not empty has a least element.         *)
(***************************************************************************)
LEMMA LeastNumber ==
  ASSUME NEW T, T \subseteq Nat, T # {}
  PROVE  \E x \in T : \A y \in T : x <= y
<1> DEFINE R == {ss \in Nat \X Nat : ss[1] < ss[2]}
<1>1. IsWellFoundedOn(R, Nat)
  <2>1. R = OpToRel(<, Nat)
    BY Zenon DEF OpToRel
  <2> HIDE DEF R
  <2> QED BY <2>1, NatLessThanWellFounded, Zenon
<1>2. \A a, b \in Nat : a < b => <<a, b>> \in R
  OBVIOUS
<1> HIDE DEF R
<1>3. PICK x \in T : \A y \in T : <<y, x>> \notin R
  BY <1>1, WFMin
<1>4. ASSUME NEW y \in T PROVE ~(y < x)
  BY <1>2, <1>3
<1> QED BY <1>4

(***************************************************************************)
(* Induction up to n, the property being a set of numbers.                 *)
(***************************************************************************)
LEMMA UpTo ==
  ASSUME NEW n \in Nat, NEW G, 0 \in G,
         \A i \in 1 .. n : i - 1 \in G => i \in G
  PROVE  0 .. n \subseteq G
<1> DEFINE Bad == {i \in 0 .. n : i \notin G}
<1> SUFFICES ASSUME Bad # {} PROVE FALSE
  OBVIOUS
<1>1. PICK i \in Bad : \A j \in Bad : i <= j
  <2>1. Bad \subseteq Nat
    OBVIOUS
  <2> HIDE DEF Bad
  <2> QED BY <2>1, LeastNumber
<1>2. i \in 1 .. n /\ i - 1 \in 0 .. n /\ i - 1 \notin Bad
  BY <1>1
<1> QED BY <1>2

(***************************************************************************)
(* Induction over sequences, the property being a set of sequences.        *)
(***************************************************************************)
LEMMA SequencesByAppending ==
  ASSUME NEW S, NEW G, <<>> \in G,
         \A s \in Seq(S), e \in S : s \in G => Append(s, e) \in G
  PROVE  Seq(S) \subseteq G
<1> SUFFICES ASSUME NEW s \in Seq(S) PROVE s \in G
  OBVIOUS
<1> DEFINE H == {i \in 0 .. Len(s) : SubSeq(s, 1, i) \in G}
<1>1. 0 \in H
  <2>1. SubSeq(s, 1, 0) = <<>> /\ Len(s) \in Nat
    BY SubSeqEmpty, LenProperties
  <2>2. SubSeq(s, 1, 0) \in G
    BY <2>1, Zenon
  <2> QED BY <2>1, <2>2
<1>2. ASSUME NEW i \in 1 .. Len(s), i - 1 \in H PROVE i \in H
  <2>1. SubSeq(s, 1, i - 1) \in Seq(S) /\ s[i] \in S
    BY SubSeqProperties
  <2>2. SubSeq(s, 1, i) = Append(SubSeq(s, 1, i - 1), s[i])
    BY <2>1, SubSeqRecursiveSecond, AppendIsConcat
  <2>3. SubSeq(s, 1, i - 1) \in G
    BY <1>2
  <2>4. SubSeq(s, 1, i) \in G
    BY <2>1, <2>2, <2>3
  <2> QED BY <2>4
<1>3. 0 .. Len(s) \subseteq H
  <2>1. Len(s) \in Nat
    BY LenProperties
  <2> HIDE DEF H
  <2> QED BY <1>1, <1>2, <2>1, UpTo
<1>4. SubSeq(s, 1, Len(s)) \in G
  BY <1>3
<1> QED BY <1>4, SubSeqFull

\* f starts with base, and its next value is a step from the one before.
Obeys(f, n, base, step) ==
  f[0] = base /\ \A i \in 1 .. n : f[i] = step[i][f[i - 1]]

(***************************************************************************)
(* A recursion over the numbers up to n defines a function.                *)
(***************************************************************************)
LEMMA Recursion ==
  ASSUME NEW n \in Nat, NEW T, NEW base \in T, NEW step \in [1 .. n -> [T -> T]]
  PROVE  \E f \in [0 .. n -> T] : Obeys(f, n, base, step)
<1> USE DEF Obeys
<1> DEFINE Found(m) == \E f \in [0 .. m -> T] : Obeys(f, m, base, step)
<1>1. Found(0)
  <2> DEFINE f == [j \in 0 .. 0 |-> base]
  <2>1. f \in [0 .. 0 -> T] /\ f[0] = base /\ 1 .. 0 = {}
    OBVIOUS
  <2> HIDE DEF f
  <2> QED BY <2>1
<1>2. ASSUME NEW m \in 1 .. n, Found(m - 1) PROVE Found(m)
  <2>1. PICK f \in [0 .. m - 1 -> T] :
          f[0] = base /\ \A i \in 1 .. m - 1 : f[i] = step[i][f[i - 1]]
    BY <1>2
  <2> DEFINE g == [j \in 0 .. m |-> IF j = m THEN step[m][f[m - 1]] ELSE f[j]]
  <2>2. g \in [0 .. m -> T]
    BY <2>1
  <2>3. g[0] = base
    BY <2>1
  <2>4. ASSUME NEW i \in 1 .. m PROVE g[i] = step[i][g[i - 1]]
    <3>1. g[i - 1] = f[i - 1]
      OBVIOUS
    <3>2. CASE i = m
      <4>1. g[m] = step[m][f[m - 1]]
        OBVIOUS
      <4> QED BY <3>1, <3>2, <4>1
    <3>3. CASE i # m
      <4>1. i \in 1 .. m - 1 /\ g[i] = f[i]
        BY <3>3
      <4> QED BY <2>1, <3>1, <4>1
    <3> QED BY <3>2, <3>3
  <2> HIDE DEF g
  <2> QED BY <2>2, <2>3, <2>4
<1> HIDE DEF Found
<1> DEFINE G == {m \in 0 .. n : Found(m)}
<1>3. 0 \in G
  BY <1>1
<1>4. \A m \in 1 .. n : m - 1 \in G => m \in G
  BY <1>2
<1>5. 0 .. n \subseteq G
  <2> HIDE DEF G
  <2> QED BY <1>3, <1>4, UpTo
<1>6. Found(n)
  BY <1>5
<1> QED BY <1>6 DEF Found

(***************************************************************************)
(* Two functions that obey one recursion agree.  (first m of n and of k)   *)
(***************************************************************************)
LEMMA Recursive ==
  ASSUME NEW n \in Nat, NEW f, NEW g, f[0] = g[0],
         \A i \in 1 .. n : f[i - 1] = g[i - 1] => f[i] = g[i]
  PROVE  \A i \in 0 .. n : f[i] = g[i]
<1> DEFINE G == {i \in 0 .. n : f[i] = g[i]}
<1>1. 0 \in G
  OBVIOUS
<1>2. \A i \in 1 .. n : i - 1 \in G => i \in G
  OBVIOUS
<1>3. 0 .. n \subseteq G
  <2> HIDE DEF G
  <2> QED BY <1>1, <1>2, UpTo
<1> QED BY <1>3

(***************************************************************************)
(* What At is: the recursion it is defined by.                             *)
(***************************************************************************)
AtStep(s, I, f) ==
  /\ f[0] = <<>>
  /\ \A i \in 1 .. Len(s) : f[i] = IF i \in I THEN Append(f[i - 1], s[i]) ELSE f[i - 1]

\* At(s, I) is what a function with that recursion has at the length of s.
LEMMA AtRecursion ==
  ASSUME NEW S, NEW s \in Seq(S), NEW I
  PROVE  \E f : AtStep(s, I, f) /\ At(s, I) = f[Len(s)]
<1>1. PICK n \in Nat : n = Len(s)
  BY LenProperties
<1>2. \A i \in 1 .. n : s[i] \in S
  BY <1>1, ElementOfSeq
<1> DEFINE step == [i \in 1 .. n |-> [t \in Seq(S) |-> IF i \in I THEN Append(t, s[i]) ELSE t]]
<1>3. /\ step \in [1 .. n -> [Seq(S) -> Seq(S)]]
      /\ \A i \in 1 .. n, t \in Seq(S) : step[i][t] = IF i \in I THEN Append(t, s[i]) ELSE t
  BY <1>2, AppendProperties
<1> HIDE DEF step
<1>4. <<>> \in Seq(S)
  BY EmptySeq
<1>5. PICK f \in [0 .. n -> Seq(S)] : f[0] = <<>> /\ \A i \in 1 .. n : f[i] = step[i][f[i - 1]]
  <2>1. \E f \in [0 .. n -> Seq(S)] : Obeys(f, n, <<>>, step)
    BY <1>3, <1>4, Recursion
  <2> QED BY <2>1 DEF Obeys
<1> DEFINE E(g, i) == IF i = 0 THEN <<>>
                      ELSE IF i \in I THEN Append(g[i - 1], s[i]) ELSE g[i - 1]
           F(g) == [i \in 0 .. n |-> E(g, i)]
           upto == CHOOSE g : g = F(g)
<1>6. f = F(f)
  <2>1. ASSUME NEW i \in 0 .. n PROVE f[i] = E(f, i)
    <3>1. CASE i = 0
      BY <1>5, <3>1
    <3>2. CASE i \in 1 .. n
      <4>1. f[i - 1] \in Seq(S)
        BY <3>2
      <4>2. f[i] = step[i][f[i - 1]]
        BY <1>5, <3>2
      <4> QED BY <1>3, <3>2, <4>1, <4>2
    <3> QED BY <3>1, <3>2
  <2> HIDE DEF E
  <2> QED BY <2>1
<1>7. upto = F(upto)
  <2> HIDE DEF F
  <2> QED BY <1>6, Zenon
<1>8. AtStep(s, I, upto)
  <2> HIDE DEF upto
  <2>1. \A i \in 0 .. n : upto[i] = E(upto, i)
    <3> HIDE DEF E
    <3> QED BY <1>7, Zenon
  <2>2. upto[0] = E(upto, 0) /\ \A i \in 1 .. n : upto[i] = E(upto, i) /\ i # 0
    BY <2>1
  <2> QED BY <1>1, <2>2 DEF AtStep
<1>9. At(s, I) = upto[n]
  BY <1>1, Zenon DEF At
<1> HIDE DEF upto
<1> QED BY <1>1, <1>8, <1>9

(***************************************************************************)
(* A position more: only the last element matters to what is added.        *)
(***************************************************************************)
LEMMA AtEmpty == ASSUME NEW I PROVE At(<<>>, I) = <<>>
<1>1. <<>> \in Seq({}) /\ Len(<<>>) = 0
  BY EmptySeq
<1>2. PICK f : AtStep(<<>>, I, f) /\ At(<<>>, I) = f[Len(<<>>)]
  BY <1>1, AtRecursion
<1> QED BY <1>1, <1>2 DEF AtStep

\* One more element is kept exactly if its position is in the set.
LEMMA AtAppend ==
  ASSUME NEW S, NEW s \in Seq(S), NEW e \in S, NEW I, NEW J,
         \A i \in 1 .. Len(s) : i \in I <=> i \in J
  PROVE  At(Append(s, e), J) = IF Len(s) + 1 \in J THEN Append(At(s, I), e) ELSE At(s, I)
<1>1. PICK n \in Nat : n = Len(s)
  BY LenProperties
<1>2. /\ Append(s, e) \in Seq(S) /\ Len(Append(s, e)) = n + 1
      /\ Append(s, e)[n + 1] = e /\ \A i \in 1 .. n : Append(s, e)[i] = s[i]
  BY <1>1, AppendProperties
<1>3. PICK f : AtStep(s, I, f) /\ At(s, I) = f[n]
  BY <1>1, AtRecursion
<1>4. PICK g : AtStep(Append(s, e), J, g) /\ At(Append(s, e), J) = g[n + 1]
  BY <1>2, AtRecursion
<1>5. /\ f[0] = <<>>
      /\ \A i \in 1 .. n : f[i] = IF i \in I THEN Append(f[i - 1], s[i]) ELSE f[i - 1]
  BY <1>1, <1>3 DEF AtStep
<1>6. /\ g[0] = <<>>
      /\ \A i \in 1 .. n + 1 :
           g[i] = IF i \in J THEN Append(g[i - 1], Append(s, e)[i]) ELSE g[i - 1]
  BY <1>2, <1>4 DEF AtStep
<1>7. \A i \in 1 .. n : f[i - 1] = g[i - 1] => f[i] = g[i]
  BY <1>1, <1>2, <1>5, <1>6
<1> DEFINE same == {i \in 0 .. n : f[i] = g[i]}
<1>8. \A i \in 0 .. n : f[i] = g[i]
  <2>1. 0 \in same
    BY <1>1, <1>5, <1>6
  <2>2. \A i \in 1 .. n : i - 1 \in same => i \in same
    BY <1>7
  <2>3. 0 .. n \subseteq same
    <3> HIDE DEF same
    <3> QED BY <1>1, <2>1, <2>2, UpTo
  <2> QED BY <2>3
<1>9. g[n + 1] = IF n + 1 \in J THEN Append(g[n], e) ELSE g[n]
  BY <1>2, <1>6
<1> QED BY <1>1, <1>3, <1>4, <1>8, <1>9

(***************************************************************************)
(* The laws of Select and of DropFirst when one element is added.          *)
(***************************************************************************)
LEMMA SelectEmpty == ASSUME NEW K PROVE Select(<<>>, K) = <<>>
  BY AtEmpty DEF Select

\* One more element is selected exactly if it is of the kind.
LEMMA SelectAppend ==
  ASSUME NEW S, NEW s \in Seq(S), NEW e \in S, NEW K
  PROVE  Select(Append(s, e), K) = IF e \in K THEN Append(Select(s, K), e) ELSE Select(s, K)
<1> DEFINE I == {i \in DOMAIN s : s[i] \in K}
           J == {i \in DOMAIN Append(s, e) : Append(s, e)[i] \in K}
<1>1. PICK n \in Nat : n = Len(s) /\ DOMAIN s = 1 .. n
  BY LenProperties
<1>2. /\ Append(s, e) \in Seq(S) /\ DOMAIN Append(s, e) = 1 .. n + 1
      /\ Append(s, e)[n + 1] = e /\ \A i \in 1 .. n : Append(s, e)[i] = s[i]
  BY <1>1, AppendProperties, LenProperties
<1>3. \A i \in 1 .. n : i \in I <=> i \in J
  BY <1>1, <1>2
<1>4. n + 1 \in J <=> e \in K
  BY <1>2
<1> HIDE DEF I, J
<1>5. At(Append(s, e), J) = IF n + 1 \in J THEN Append(At(s, I), e) ELSE At(s, I)
  BY <1>1, <1>3, AtAppend
<1> QED BY <1>4, <1>5 DEF Select, I, J

\* What is selected consists of elements of s that are of the kind.
LEMMA SelectType ==
  ASSUME NEW S, NEW s \in Seq(S), NEW K
  PROVE  Select(s, K) \in Seq(S \cap K)
<1> DEFINE G == {t \in Seq(S) : Select(t, K) \in Seq(S \cap K)}
<1>1. <<>> \in G
  BY EmptySeq, SelectEmpty
<1>2. ASSUME NEW t \in Seq(S), NEW e \in S, t \in G PROVE Append(t, e) \in G
  <2>1. Select(t, K) \in Seq(S \cap K) /\ Append(t, e) \in Seq(S)
    BY <1>2, AppendProperties
  <2>2. Select(Append(t, e), K) \in Seq(S \cap K)
    <3>1. CASE e \in K
      <4>1. Select(Append(t, e), K) = Append(Select(t, K), e) /\ e \in S \cap K
        BY <3>1, SelectAppend
      <4> QED BY <2>1, <4>1, AppendProperties
    <3>2. CASE e \notin K
      BY <2>1, <3>2, SelectAppend
    <3> QED BY <3>1, <3>2
  <2> QED BY <2>1, <2>2
<1>3. Seq(S) \subseteq G
  <2> HIDE DEF G
  <2> QED BY <1>1, <1>2, SequencesByAppending
<1> QED BY <1>3

\* There is nothing to drop in an empty sequence.
LEMMA DropEmpty == ASSUME NEW K, NEW k PROVE DropFirst(<<>>, K, k) = <<>>
  BY AtEmpty DEF DropFirst

\* One more element is dropped if it is of the kind and fewer than k came before.
LEMMA DropAppend ==
  ASSUME NEW S, NEW s \in Seq(S), NEW e \in S, NEW K, NEW k \in Int
  PROVE  DropFirst(Append(s, e), K, k) =
           IF e \in K /\ Len(Select(s, K)) < k THEN DropFirst(s, K, k)
           ELSE Append(DropFirst(s, K, k), e)
<1> DEFINE P(t, i) == t[i] \in K => Len(Select(SubSeq(t, 1, i), K)) > k
           I == {i \in DOMAIN s : P(s, i)}
<1>1. PICK n \in Nat : n = Len(s) /\ DOMAIN s = 1 .. n
  BY LenProperties
<1>2. PICK se \in Seq(S) :
        /\ se = Append(s, e) /\ Len(se) = n + 1 /\ DOMAIN se = 1 .. n + 1
        /\ se[n + 1] = e /\ \A i \in 1 .. n : se[i] = s[i]
  <2>1. Append(s, e) \in Seq(S) /\ Len(Append(s, e)) = n + 1
    BY <1>1, AppendProperties
  <2>2. DOMAIN Append(s, e) = 1 .. n + 1
    BY <2>1, LenProperties
  <2>3. Append(s, e)[n + 1] = e /\ \A i \in 1 .. n : Append(s, e)[i] = s[i]
    BY <1>1, AppendProperties
  <2> QED BY <2>1, <2>2, <2>3
<1> DEFINE J == {i \in DOMAIN se : P(se, i)}
<1>3. ASSUME NEW i \in 1 .. n PROVE SubSeq(se, 1, i) = SubSeq(s, 1, i)
  <2>1. s \o <<e>> = se /\ <<e>> \in Seq(S) /\ i \in 1 .. Len(s) /\ 1 \in 1 .. Len(s)
    BY <1>1, <1>2, AppendIsConcat
  <2> QED BY <2>1, SubSeqOfConcat1
<1>4. SubSeq(se, 1, n + 1) = se
  BY <1>2, SubSeqFull
<1>5. \A i \in 1 .. n : i \in I <=> i \in J
  <2>1. \A i \in 1 .. n : P(s, i) <=> P(se, i)
    BY <1>2, <1>3
  <2> HIDE DEF P
  <2> QED BY <1>1, <1>2, <2>1
<1>6. Select(s, K) \in Seq(S \cap K) /\ Len(Select(s, K)) \in Nat
  BY SelectType, LenProperties
<1>7. n + 1 \in J <=> ~(e \in K /\ Len(Select(s, K)) < k)
  <2>1. P(se, n + 1) <=> (e \in K => Len(Select(se, K)) > k)
    BY <1>2, <1>4
  <2>2. e \in K => Len(Select(se, K)) = Len(Select(s, K)) + 1
    BY <1>2, <1>6, SelectAppend, LenProperties
  <2> HIDE DEF P
  <2>3. n + 1 \in J <=> P(se, n + 1)
    BY <1>2
  <2> HIDE DEF J
  <2> QED BY <1>6, <2>1, <2>2, <2>3
<1>8. DropFirst(s, K, k) = At(s, I) /\ DropFirst(se, K, k) = At(se, J)
  BY DEF DropFirst
<1> HIDE DEF I, J
<1>9. At(se, J) = IF n + 1 \in J THEN Append(At(s, I), e) ELSE At(s, I)
  BY <1>1, <1>2, <1>5, AtAppend
<1> QED BY <1>2, <1>7, <1>8, <1>9

(***************************************************************************)
(* The laws of Select for whole sequences.                                 *)
(***************************************************************************)
LEMMA SelectAll ==
  ASSUME NEW S, NEW K, S \subseteq K, NEW s \in Seq(S)
  PROVE  Select(s, K) = s
<1> DEFINE G == {t \in Seq(S) : Select(t, K) = t}
<1>1. <<>> \in G
  BY EmptySeq, SelectEmpty
<1>2. ASSUME NEW t \in Seq(S), NEW e \in S, t \in G PROVE Append(t, e) \in G
  <2>1. Append(t, e) \in Seq(S) /\ e \in K
    BY AppendProperties
  <2>2. Select(Append(t, e), K) = Append(t, e)
    BY <1>2, <2>1, SelectAppend
  <2> QED BY <2>1, <2>2
<1>3. Seq(S) \subseteq G
  <2> HIDE DEF G
  <2> QED BY <1>1, <1>2, SequencesByAppending
<1> QED BY <1>3

\* Of a sequence that has none of the kind, nothing is selected.
LEMMA SelectNone ==
  ASSUME NEW S, NEW K, S \cap K = {}, NEW s \in Seq(S)
  PROVE  Select(s, K) = <<>>
<1> DEFINE G == {t \in Seq(S) : Select(t, K) = <<>>}
<1>1. <<>> \in G
  BY EmptySeq, SelectEmpty
<1>2. ASSUME NEW t \in Seq(S), NEW e \in S, t \in G PROVE Append(t, e) \in G
  <2>1. Append(t, e) \in Seq(S) /\ e \notin K
    BY AppendProperties
  <2>2. Select(Append(t, e), K) = <<>>
    BY <1>2, <2>1, SelectAppend
  <2> QED BY <2>1, <2>2
<1>3. Seq(S) \subseteq G
  <2> HIDE DEF G
  <2> QED BY <1>1, <1>2, SequencesByAppending
<1> QED BY <1>3

\* Appending to the second half appends to the whole.
LEMMA AppendToConcat ==
  ASSUME NEW S, NEW s \in Seq(S), NEW t \in Seq(S), NEW e \in S
  PROVE  s \o Append(t, e) = Append(s \o t, e)
  BY AppendIsConcat, ConcatAssociative, ConcatProperties, AppendProperties

\* Selecting from two sequences in a row selects from each.
LEMMA SelectConcat ==
  ASSUME NEW S, NEW s \in Seq(S), NEW t \in Seq(S), NEW K
  PROVE  Select(s \o t, K) = Select(s, K) \o Select(t, K)
<1> DEFINE G == {u \in Seq(S) : Select(s \o u, K) = Select(s, K) \o Select(u, K)}
<1>1. Select(s, K) \in Seq(S \cap K)
  BY SelectType
<1>2. <<>> \in G
  <2>1. <<>> \in Seq(S) /\ s \o <<>> = s /\ Select(s, K) \o <<>> = Select(s, K)
    BY <1>1, EmptySeq, ConcatEmptySeq
  <2>2. Select(<<>>, K) = <<>>
    BY SelectEmpty
  <2> QED BY <2>1, <2>2
<1>3. ASSUME NEW u \in Seq(S), NEW e \in S, u \in G PROVE Append(u, e) \in G
  <2>1. Append(u, e) \in Seq(S) /\ s \o u \in Seq(S) /\ s \o Append(u, e) = Append(s \o u, e)
    BY AppendProperties, ConcatProperties, AppendToConcat
  <2>2. Select(s \o u, K) = Select(s, K) \o Select(u, K) /\ Select(u, K) \in Seq(S \cap K)
    BY <1>3, SelectType
  <2>3. Select(s \o Append(u, e), K) = Select(s, K) \o Select(Append(u, e), K)
    <3>1. Select(Append(s \o u, e), K) =
            IF e \in K THEN Append(Select(s \o u, K), e) ELSE Select(s \o u, K)
      BY <2>1, SelectAppend
    <3>2. Select(Append(u, e), K) = IF e \in K THEN Append(Select(u, K), e) ELSE Select(u, K)
      BY SelectAppend
    <3>3. e \in K =>
            Select(s, K) \o Append(Select(u, K), e) = Append(Select(s, K) \o Select(u, K), e)
      BY <1>1, <2>2, AppendToConcat
    <3> QED BY <2>1, <2>2, <3>1, <3>2, <3>3
  <2> QED BY <2>1, <2>3
<1>4. Seq(S) \subseteq G
  <2> HIDE DEF G
  <2> QED BY <1>2, <1>3, SequencesByAppending
<1> QED BY <1>4

(***************************************************************************)
(* The laws of DropFirst.                                                  *)
(***************************************************************************)
LEMMA DropType ==
  ASSUME NEW S, NEW s \in Seq(S), NEW K, NEW k \in Int
  PROVE  DropFirst(s, K, k) \in Seq(S)
<1> DEFINE G == {t \in Seq(S) : DropFirst(t, K, k) \in Seq(S)}
<1>1. <<>> \in G
  BY EmptySeq, DropEmpty
<1>2. ASSUME NEW t \in Seq(S), NEW e \in S, t \in G PROVE Append(t, e) \in G
  <2>1. Append(t, e) \in Seq(S)
    BY AppendProperties
  <2>2. DropFirst(Append(t, e), K, k) \in {DropFirst(t, K, k), Append(DropFirst(t, K, k), e)}
    BY DropAppend
  <2>3. DropFirst(t, K, k) \in Seq(S) /\ Append(DropFirst(t, K, k), e) \in Seq(S)
    BY <1>2, AppendProperties
  <2> QED BY <2>1, <2>2, <2>3
<1>3. Seq(S) \subseteq G
  <2> HIDE DEF G
  <2> QED BY <1>1, <1>2, SequencesByAppending
<1> QED BY <1>3

\* Dropping the first 0 of a kind changes nothing.
LEMMA DropNothing ==
  ASSUME NEW S, NEW s \in Seq(S), NEW K, NEW k \in Int, k <= 0
  PROVE  DropFirst(s, K, k) = s
<1> DEFINE G == {t \in Seq(S) : DropFirst(t, K, k) = t}
<1>1. <<>> \in G
  BY EmptySeq, DropEmpty
<1>2. ASSUME NEW t \in Seq(S), NEW e \in S, t \in G PROVE Append(t, e) \in G
  <2>1. Append(t, e) \in Seq(S)
    BY AppendProperties
  <2>2. Len(Select(t, K)) \in Nat
    BY SelectType, LenProperties
  <2>3. DropFirst(Append(t, e), K, k) = Append(t, e)
    BY <1>2, <2>2, DropAppend
  <2> QED BY <2>1, <2>3
<1>3. Seq(S) \subseteq G
  <2> HIDE DEF G
  <2> QED BY <1>1, <1>2, SequencesByAppending
<1> QED BY <1>3

\* What is dropped is none of the elements outside K.
LEMMA SelectOthers ==
  ASSUME NEW S, NEW s \in Seq(S), NEW K, NEW L, K \cap L = {}, NEW k \in Int
  PROVE  Select(DropFirst(s, K, k), L) = Select(s, L)
<1> DEFINE G == {t \in Seq(S) : Select(DropFirst(t, K, k), L) = Select(t, L)}
<1>1. <<>> \in G
  BY EmptySeq, DropEmpty
<1>2. ASSUME NEW t \in Seq(S), NEW e \in S, t \in G PROVE Append(t, e) \in G
  <2>1. Append(t, e) \in Seq(S) /\ DropFirst(t, K, k) \in Seq(S)
    BY AppendProperties, DropType
  <2>2. Select(DropFirst(t, K, k), L) = Select(t, L)
    BY <1>2
  <2>3. Select(DropFirst(Append(t, e), K, k), L) = Select(Append(t, e), L)
    <3>1. CASE DropFirst(Append(t, e), K, k) = Append(DropFirst(t, K, k), e)
      <4>1. Select(Append(DropFirst(t, K, k), e), L) =
              IF e \in L THEN Append(Select(DropFirst(t, K, k), L), e)
              ELSE Select(DropFirst(t, K, k), L)
        BY <2>1, SelectAppend
      <4>2. Select(Append(t, e), L) = IF e \in L THEN Append(Select(t, L), e) ELSE Select(t, L)
        BY SelectAppend
      <4> QED BY <2>2, <3>1, <4>1, <4>2
    <3>2. CASE e \in K /\ DropFirst(Append(t, e), K, k) = DropFirst(t, K, k)
      BY <2>2, <3>2, SelectAppend
    <3> QED BY <3>1, <3>2, DropAppend
  <2> QED BY <2>1, <2>3
<1>3. Seq(S) \subseteq G
  <2> HIDE DEF G
  <2> QED BY <1>1, <1>2, SequencesByAppending
<1> QED BY <1>3

\* What is selected is a sequence of the same elements.
LEMMA SelectIn ==
  ASSUME NEW S, NEW s \in Seq(S), NEW K PROVE Select(s, K) \in Seq(S)
<1>1. Select(s, K) \in Seq(S \cap K)
  BY SelectType
<1> QED BY <1>1, SeqMonotonic

--------------------------------------------------------------------------------
(***************************************************************************)
(* The set of a sequence's elements: an element more, a selection.         *)
(***************************************************************************)
LEMMA SetEmpty == ToSet(<<>>) = {}
  BY EmptySeq DEF ToSet

\* The elements after an append are those before and the new one.
LEMMA SetAppend ==
  ASSUME NEW S, NEW s \in Seq(S), NEW e \in S
  PROVE  ToSet(Append(s, e)) = ToSet(s) \cup {e}
<1>1. PICK n \in Nat : n = Len(s) /\ DOMAIN s = 1 .. n
  BY LenProperties
<1>2. /\ DOMAIN Append(s, e) = 1 .. n + 1
      /\ Append(s, e)[n + 1] = e /\ \A i \in 1 .. n : Append(s, e)[i] = s[i]
  BY <1>1, AppendProperties, LenProperties
<1> QED BY <1>1, <1>2 DEF ToSet

\* The elements selected are those of the kind.
LEMMA SelectSet ==
  ASSUME NEW S, NEW s \in Seq(S), NEW K
  PROVE  ToSet(Select(s, K)) = ToSet(s) \cap K
<1> DEFINE G == {t \in Seq(S) : ToSet(Select(t, K)) = ToSet(t) \cap K}
<1>1. <<>> \in G
  BY EmptySeq, SelectEmpty, SetEmpty
<1>2. ASSUME NEW t \in Seq(S), NEW e \in S, t \in G PROVE Append(t, e) \in G
  <2>1. Append(t, e) \in Seq(S) /\ ToSet(Append(t, e)) = ToSet(t) \cup {e}
    BY AppendProperties, SetAppend
  <2>2. ToSet(Select(t, K)) = ToSet(t) \cap K
    BY <1>2
  <2>3. CASE e \in K
    <3>1. Select(Append(t, e), K) = Append(Select(t, K), e) /\ e \in S \cap K
      BY <2>3, SelectAppend
    <3>2. ToSet(Append(Select(t, K), e)) = ToSet(Select(t, K)) \cup {e}
      <4>1. Select(t, K) \in Seq(S \cap K)
        BY SelectType
      <4> QED BY <3>1, <4>1, SetAppend
    <3> QED BY <2>1, <2>2, <2>3, <3>1, <3>2
  <2>4. CASE e \notin K
    <3>1. Select(Append(t, e), K) = Select(t, K)
      BY <2>4, SelectAppend
    <3> QED BY <2>1, <2>2, <2>4, <3>1
  <2> QED BY <2>3, <2>4
<1>3. Seq(S) \subseteq G
  <2> HIDE DEF G
  <2> QED BY <1>1, <1>2, SequencesByAppending
<1> QED BY <1>3

\* What s has of K it has once.
Distinct(s, K) == \A i, j \in 1 .. Len(s) : s[i] \in K /\ s[i] = s[j] => i = j

(***************************************************************************)
(* An element more is one that was not there.                              *)
(***************************************************************************)
LEMMA DistinctAppend ==
  ASSUME NEW S, NEW s \in Seq(S), NEW e \in S, NEW K
  PROVE  Distinct(Append(s, e), K) <=> Distinct(s, K) /\ (e \in K => e \notin ToSet(s))
<1>1. PICK n \in Nat : n = Len(s) /\ DOMAIN s = 1 .. n
  BY LenProperties
<1>2. /\ Len(Append(s, e)) = n + 1
      /\ Append(s, e)[n + 1] = e /\ \A i \in 1 .. n : Append(s, e)[i] = s[i]
  BY <1>1, AppendProperties
<1>3. ASSUME Distinct(Append(s, e), K) PROVE Distinct(s, K) /\ (e \in K => e \notin ToSet(s))
  <2>1. Distinct(s, K)
    BY <1>1, <1>2, <1>3 DEF Distinct
  <2>2. ASSUME e \in K, NEW i \in 1 .. n, s[i] = e PROVE FALSE
    <3>1. i \in 1 .. n + 1 /\ n + 1 \in 1 .. n + 1 /\ i # n + 1
      OBVIOUS
    <3> QED BY <1>2, <1>3, <2>2, <3>1 DEF Distinct
  <2> QED BY <1>1, <2>1, <2>2 DEF ToSet
<1>4. ASSUME Distinct(s, K), e \in K => e \notin ToSet(s) PROVE Distinct(Append(s, e), K)
  <2>1. ASSUME NEW i \in 1 .. n + 1, NEW j \in 1 .. n + 1,
               Append(s, e)[i] \in K, Append(s, e)[i] = Append(s, e)[j]
        PROVE  i = j
    <3>1. CASE i \in 1 .. n /\ j \in 1 .. n
      BY <1>1, <1>2, <1>4, <2>1, <3>1 DEF Distinct
    <3>2. CASE i = n + 1 /\ j \in 1 .. n
      BY <1>1, <1>2, <1>4, <2>1, <3>2 DEF ToSet
    <3>3. CASE i \in 1 .. n /\ j = n + 1
      BY <1>1, <1>2, <1>4, <2>1, <3>3 DEF ToSet
    <3> QED BY <3>1, <3>2, <3>3
  <2> QED BY <1>2, <2>1 DEF Distinct
<1> QED BY <1>3, <1>4

(***************************************************************************)
(* The two parts of a sequence have what it has, and share nothing that    *)
(* it has once.                                                            *)
(***************************************************************************)
LEMMA Parts ==
  ASSUME NEW S, NEW s \in Seq(S), NEW k \in 0 .. Len(s), NEW K, Distinct(s, K)
  PROVE  LET u == SubSeq(s, 1, k)
             v == SubSeq(s, k + 1, Len(s))
         IN  /\ u \in Seq(S) /\ v \in Seq(S)
             /\ Distinct(u, K) /\ Distinct(v, K)
             /\ ToSet(s) = ToSet(u) \cup ToSet(v)
             /\ ToSet(u) \cap ToSet(v) \cap K = {}
<1> DEFINE u == SubSeq(s, 1, k)
           v == SubSeq(s, k + 1, Len(s))
<1>1. PICK n \in Nat : n = Len(s) /\ DOMAIN s = 1 .. n
  BY LenProperties
<1>2. k \in Int /\ k + 1 \in Int /\ n \in Int /\ 1 \in Int /\ k \in 0 .. n /\ k \in Nat
  BY <1>1
<1>3. \A i \in 1 .. n : s[i] \in S
  BY <1>1, ElementOfSeq
<1>4. /\ u \in Seq(S)
      /\ Len(u) = IF 1 <= k THEN k - 1 + 1 ELSE 0
      /\ \A i \in 1 .. k - 1 + 1 : u[i] = s[1 + i - 1]
  <2>1. \A i \in 1 .. k : s[i] \in S
    BY <1>2, <1>3
  <2> QED BY <1>2, <2>1, SubSeqProperties
<1>5. /\ v \in Seq(S)
      /\ Len(v) = IF k + 1 <= n THEN n - (k + 1) + 1 ELSE 0
      /\ \A i \in 1 .. n - (k + 1) + 1 : v[i] = s[k + 1 + i - 1]
  <2>1. \A i \in k + 1 .. n : s[i] \in S
    BY <1>2, <1>3
  <2>2. v = SubSeq(s, k + 1, n)
    BY <1>1
  <2> QED BY <1>2, <2>1, <2>2, SubSeqProperties
<1> HIDE DEF u, v
<1>6. Len(u) = k /\ DOMAIN u = 1 .. k /\ \A i \in 1 .. k : u[i] = s[i]
  <2>1. Len(u) = k
    BY <1>2, <1>4
  <2>2. \A i \in 1 .. k : i \in 1 .. k - 1 + 1 /\ 1 + i - 1 = i
    BY <1>2
  <2> QED BY <1>4, <2>1, <2>2, LenProperties
<1>7. Len(v) = n - k /\ DOMAIN v = 1 .. n - k /\ \A i \in 1 .. n - k : v[i] = s[k + i]
  <2>1. Len(v) = n - k
    BY <1>2, <1>5
  <2>2. \A i \in 1 .. n - k : i \in 1 .. n - (k + 1) + 1 /\ k + 1 + i - 1 = k + i
    BY <1>2
  <2>3. DOMAIN v = 1 .. n - k
    BY <1>5, <2>1, LenProperties
  <2> QED BY <1>5, <2>1, <2>2, <2>3
<1>8. /\ \A i \in 1 .. k : i \in 1 .. n
      /\ \A i \in 1 .. n - k : k + i \in 1 .. n
      /\ \A i, j \in 1 .. n - k : k + i = k + j => i = j
      /\ \A i \in 1 .. k, j \in 1 .. n - k : i # k + j
      /\ \A i \in 1 .. n : i \in 1 .. k \/ (i - k \in 1 .. n - k /\ k + (i - k) = i)
  BY <1>2
<1>9. Distinct(u, K)
  BY <1>1, <1>6, <1>8 DEF Distinct
<1>10. Distinct(v, K)
  BY <1>1, <1>7, <1>8 DEF Distinct
<1>11. ToSet(s) = ToSet(u) \cup ToSet(v)
  <2>1. ASSUME NEW x \in ToSet(s) PROVE x \in ToSet(u) \cup ToSet(v)
    <3>1. PICK i \in 1 .. n : x = s[i]
      BY <1>1 DEF ToSet
    <3>2. CASE i \in 1 .. k
      BY <1>6, <3>1, <3>2 DEF ToSet
    <3>3. CASE i - k \in 1 .. n - k /\ k + (i - k) = i
      <4>1. v[i - k] = x
        BY <1>7, <3>1, <3>3
      <4> QED BY <1>7, <3>3, <4>1 DEF ToSet
    <3> QED BY <1>8, <3>2, <3>3
  <2>2. ToSet(u) \subseteq ToSet(s) /\ ToSet(v) \subseteq ToSet(s)
    <3>1. \A i \in 1 .. k : u[i] \in {s[j] : j \in 1 .. n}
      BY <1>6, <1>8
    <3>2. \A i \in 1 .. n - k : v[i] \in {s[j] : j \in 1 .. n}
      BY <1>7, <1>8
    <3>3. ToSet(s) = {s[j] : j \in 1 .. n} /\ ToSet(u) = {u[i] : i \in 1 .. k}
          /\ ToSet(v) = {v[i] : i \in 1 .. n - k}
      BY <1>1, <1>6, <1>7, Zenon DEF ToSet
    <3> QED BY <3>1, <3>2, <3>3, Zenon
  <2> QED BY <2>1, <2>2
<1>12. ToSet(u) \cap ToSet(v) \cap K = {}
  <2>1. ASSUME NEW x \in ToSet(u) \cap ToSet(v) \cap K PROVE FALSE
    <3>1. PICK i \in 1 .. k : x = s[i]
      BY <1>6, <2>1 DEF ToSet
    <3>2. PICK j \in 1 .. n - k : x = s[k + j]
      BY <1>7, <2>1 DEF ToSet
    <3>3. i \in 1 .. Len(s) /\ k + j \in 1 .. Len(s) /\ s[i] \in K /\ s[i] = s[k + j] /\ i # k + j
      BY <1>1, <1>8, <2>1, <3>1, <3>2
    <3> QED BY <3>3 DEF Distinct
  <2> QED BY <2>1
<1> QED BY <1>4, <1>5, <1>9, <1>10, <1>11, <1>12 DEF u, v

(***************************************************************************)
(* A selection repeats nothing that is not repeated.                       *)
(***************************************************************************)
LEMMA SelectDistinct ==
  ASSUME NEW S, NEW s \in Seq(S), NEW K, NEW L, Distinct(s, L)
  PROVE  Distinct(Select(s, K), L)
<1> DEFINE G == {t \in Seq(S) : Distinct(t, L) => Distinct(Select(t, K), L)}
<1>1. <<>> \in G
  BY EmptySeq, SelectEmpty
<1>2. ASSUME NEW t \in Seq(S), NEW e \in S, t \in G PROVE Append(t, e) \in G
  <2>1. Append(t, e) \in Seq(S)
    BY AppendProperties
  <2>2. ASSUME Distinct(Append(t, e), L) PROVE Distinct(Select(Append(t, e), K), L)
    <3>1. Distinct(t, L) /\ (e \in L => e \notin ToSet(t))
      BY <2>2, DistinctAppend
    <3>2. Distinct(Select(t, K), L) /\ (e \in L => e \notin ToSet(Select(t, K)))
      BY <1>2, <3>1, SelectSet
    <3>3. CASE e \in K
      <4>1. Select(Append(t, e), K) = Append(Select(t, K), e) /\ e \in S \cap K
        BY <3>3, SelectAppend
      <4>2. Select(t, K) \in Seq(S \cap K)
        BY SelectType
      <4> QED BY <3>2, <4>1, <4>2, DistinctAppend
    <3>4. CASE e \notin K
      BY <3>2, <3>4, SelectAppend
    <3> QED BY <3>3, <3>4
  <2> QED BY <2>1, <2>2
<1>3. Seq(S) \subseteq G
  <2> HIDE DEF G
  <2> QED BY <1>1, <1>2, SequencesByAppending
<1> QED BY <1>3

(***************************************************************************)
(* As many elements as the sequence is long, if it has each once.          *)
(***************************************************************************)
LEMMA DistinctSize ==
  ASSUME NEW S, NEW s \in Seq(S), Distinct(s, S)
  PROVE  IsFiniteSet(ToSet(s)) /\ Cardinality(ToSet(s)) = Len(s)
<1> DEFINE G == {t \in Seq(S) : Distinct(t, S) =>
                                  IsFiniteSet(ToSet(t)) /\ Cardinality(ToSet(t)) = Len(t)}
<1>1. <<>> \in G
  BY EmptySeq, SetEmpty, FS_EmptySet
<1>2. ASSUME NEW t \in Seq(S), NEW e \in S, t \in G PROVE Append(t, e) \in G
  <2>1. Append(t, e) \in Seq(S) /\ Len(Append(t, e)) = Len(t) + 1
    BY AppendProperties
  <2>2. ASSUME Distinct(Append(t, e), S)
        PROVE  IsFiniteSet(ToSet(Append(t, e))) /\ Cardinality(ToSet(Append(t, e))) = Len(t) + 1
    <3>1. IsFiniteSet(ToSet(t)) /\ Cardinality(ToSet(t)) = Len(t) /\ e \notin ToSet(t)
      BY <1>2, <2>2, DistinctAppend
    <3>2. ToSet(Append(t, e)) = ToSet(t) \cup {e}
      BY SetAppend
    <3>3. /\ IsFiniteSet(ToSet(t) \cup {e})
          /\ Cardinality(ToSet(t) \cup {e}) = IF e \in ToSet(t) THEN Cardinality(ToSet(t))
                                             ELSE Cardinality(ToSet(t)) + 1
      BY <3>1, FS_AddElement
    <3> QED BY <3>1, <3>2, <3>3
  <2> QED BY <2>1, <2>2
<1>3. Seq(S) \subseteq G
  <2> HIDE DEF G
  <2> QED BY <1>1, <1>2, SequencesByAppending
<1> QED BY <1>3

(***************************************************************************)
(* The parts before and after a first element, and those before and after  *)
(* a last one.                                                             *)
(***************************************************************************)
LEMMA HeadParts ==
  ASSUME NEW S, NEW s \in Seq(S), s # <<>>, NEW K, Distinct(s, K)
  PROVE  /\ Tail(s) \in Seq(S) /\ Distinct(Tail(s), K) /\ Head(s) \in S
         /\ ToSet(s) = {Head(s)} \cup ToSet(Tail(s))
         /\ Head(s) \in K => Head(s) \notin ToSet(Tail(s))
<1>1. PICK n \in Nat : n = Len(s) /\ n # 0
  BY EmptySeq, LenProperties
<1>2. 1 \in 0 .. Len(s) /\ 1 \in 1 .. n
  BY <1>1
<1>3. Tail(s) = SubSeq(s, 1 + 1, Len(s)) /\ Head(s) = s[1] /\ s[1] \in S
  <2>1. Tail(s) = SubSeq(s, 2, Len(s)) /\ Head(s) = s[1]
    BY TailIsSubSeq, HeadTailProperties
  <2> QED BY <1>1, <1>2, <2>1, ElementOfSeq
<1> DEFINE u == SubSeq(s, 1, 1)
           v == SubSeq(s, 1 + 1, Len(s))
<1>4. /\ v \in Seq(S) /\ Distinct(v, K) /\ ToSet(s) = ToSet(u) \cup ToSet(v)
      /\ ToSet(u) \cap ToSet(v) \cap K = {} /\ u \in Seq(S)
  BY <1>2, Parts
<1>5. ToSet(u) = {s[1]}
  <2>1. /\ Len(u) = IF 1 <= 1 THEN 1 - 1 + 1 ELSE 0
        /\ \A i \in 1 .. 1 - 1 + 1 : u[i] = s[1 + i - 1]
    <3>1. \A i \in 1 .. 1 : s[i] \in S
      BY <1>3
    <3> QED BY <3>1, SubSeqProperties
  <2> HIDE DEF u
  <2>2. Len(u) = 1 /\ u[1] = s[1]
    BY <2>1
  <2>3. DOMAIN u = {1}
    BY <1>4, <2>2, LenProperties
  <2> QED BY <2>2, <2>3 DEF ToSet
<1> HIDE DEF u, v
<1> QED BY <1>3, <1>4, <1>5 DEF v

\* The elements of a sequence are its first and those of the rest.
LEMMA SetOfTail ==
  ASSUME NEW S, NEW s \in Seq(S), s # <<>>
  PROVE  ToSet(s) = {Head(s)} \cup ToSet(Tail(s))
<1>1. Distinct(s, {})
  BY DEF Distinct
<1> QED BY <1>1, HeadParts

\* A sequence is its last element appended to those before.
LEMMA FrontAndLast ==
  ASSUME NEW S, NEW s \in Seq(S), s # <<>>
  PROVE  /\ Front(s) \in Seq(S) /\ Last(s) \in S /\ s = Append(Front(s), Last(s))
<1>1. Len(s) \in Nat \ {0} /\ \A i \in 1 .. Len(s) : s[i] \in S
  BY EmptySeq, ElementOfSeq
<1>2. Front(s) \in Seq(S) /\ Len(Front(s)) = Len(s) - 1 /\ \A i \in 1 .. Len(s) - 1 : Front(s)[i] = s[i]
  <2>1. 1 \in Int /\ Len(s) - 1 \in Int /\ \A i \in 1 .. Len(s) - 1 : s[i] \in S
    BY <1>1
  <2>2. /\ Front(s) \in Seq(S)
        /\ Len(Front(s)) = IF 1 <= Len(s) - 1 THEN Len(s) - 1 - 1 + 1 ELSE 0
        /\ \A i \in 1 .. Len(s) - 1 - 1 + 1 : Front(s)[i] = s[1 + i - 1]
    BY <2>1, SubSeqProperties DEF Front
  <2>3. Len(Front(s)) = Len(s) - 1
    <3>1. PICK n \in Nat \ {0} : n = Len(s)
      BY <1>1
    <3>2. (IF 1 <= n - 1 THEN n - 1 - 1 + 1 ELSE 0) = n - 1
      OBVIOUS
    <3> QED BY <2>2, <3>1, <3>2
  <2>4. ASSUME NEW i \in 1 .. Len(s) - 1 PROVE Front(s)[i] = s[i]
    <3>1. i \in 1 .. Len(s) - 1 - 1 + 1 /\ 1 + i - 1 = i
      BY <1>1
    <3>2. Front(s)[i] = s[1 + i - 1]
      BY <2>2, <3>1
    <3> QED BY <3>1, <3>2
  <2> QED BY <2>2, <2>3, <2>4
<1>3. Last(s) \in S
  BY <1>1 DEF Last
<1>4. s = Append(Front(s), Last(s))
  <2>1. Append(Front(s), Last(s)) \in Seq(S) /\ Len(Append(Front(s), Last(s))) = Len(s)
    BY <1>1, <1>2, <1>3, AppendProperties
  <2>2. \A i \in 1 .. Len(s) : Append(Front(s), Last(s))[i] = s[i]
    BY <1>1, <1>2, <1>3, AppendProperties DEF Last
  <2> QED BY <2>1, <2>2, SeqEqual
<1> QED BY <1>2, <1>3, <1>4

\* The last element of a sequence without repetitions is not among those before.
LEMMA FrontParts ==
  ASSUME NEW S, NEW s \in Seq(S), s # <<>>, NEW K, Distinct(s, K)
  PROVE  /\ Distinct(Front(s), K) /\ ToSet(s) = ToSet(Front(s)) \cup {Last(s)}
         /\ Last(s) \in K => Last(s) \notin ToSet(Front(s))
<1>1. Front(s) \in Seq(S) /\ Last(s) \in S /\ s = Append(Front(s), Last(s))
  BY FrontAndLast
<1>2. ToSet(Append(Front(s), Last(s))) = ToSet(Front(s)) \cup {Last(s)}
  BY <1>1, SetAppend
<1>3. Distinct(Append(Front(s), Last(s)), K)
        <=> Distinct(Front(s), K) /\ (Last(s) \in K => Last(s) \notin ToSet(Front(s)))
  BY <1>1, DistinctAppend
<1> QED BY <1>1, <1>2, <1>3

--------------------------------------------------------------------------------
(***************************************************************************)
(* A selection from a selection.                                           *)
(***************************************************************************)
LEMMA SelectSelect ==
  ASSUME NEW S, NEW s \in Seq(S), NEW K, NEW L
  PROVE  Select(Select(s, K), L) = Select(s, K \cap L)
<1> DEFINE G == {t \in Seq(S) : Select(Select(t, K), L) = Select(t, K \cap L)}
<1>1. <<>> \in G
  BY EmptySeq, SelectEmpty
<1>2. ASSUME NEW t \in Seq(S), NEW e \in S, t \in G PROVE Append(t, e) \in G
  <2>1. Append(t, e) \in Seq(S)
    BY AppendProperties
  <2>2. /\ Select(Append(t, e), K) = IF e \in K THEN Append(Select(t, K), e) ELSE Select(t, K)
        /\ Select(Append(t, e), K \cap L) =
             IF e \in K \cap L THEN Append(Select(t, K \cap L), e) ELSE Select(t, K \cap L)
    BY SelectAppend
  <2>3. ASSUME e \in K
        PROVE  Select(Append(Select(t, K), e), L) =
                 IF e \in L THEN Append(Select(Select(t, K), L), e) ELSE Select(Select(t, K), L)
    <3>1. Select(t, K) \in Seq(S \cap K) /\ e \in S \cap K
      BY <2>3, SelectType
    <3>2. PICK R : R = S \cap K
      OBVIOUS
    <3>3. PICK u \in Seq(R) : u = Select(t, K)
      BY <3>1, <3>2
    <3>4. Select(Append(u, e), L) = IF e \in L THEN Append(Select(u, L), e) ELSE Select(u, L)
      <4>1. u \in Seq(R) /\ e \in R
        BY <3>1, <3>2, <3>3
      <4> QED BY <4>1, SelectAppend, Zenon
    <3> QED BY <3>3, <3>4
  <2>4. Select(Select(t, K), L) = Select(t, K \cap L)
    BY <1>2
  <2>5. Select(Select(Append(t, e), K), L) = Select(Append(t, e), K \cap L)
    <3>1. CASE e \notin K
      BY <2>2, <2>4, <3>1
    <3>2. CASE e \in K /\ e \notin L
      BY <2>2, <2>3, <2>4, <3>2
    <3>3. CASE e \in K /\ e \in L
      BY <2>2, <2>3, <2>4, <3>3
    <3> QED BY <3>1, <3>2, <3>3
  <2> QED BY <2>1, <2>5
<1>3. Seq(S) \subseteq G
  <2> HIDE DEF G
  <2> QED BY <1>1, <1>2, SequencesByAppending
<1> QED BY <1>3

(***************************************************************************)
(* What a sequence has beyond its first k elements, when one is added.     *)
(***************************************************************************)
LEMMA SuffixAppend ==
  ASSUME NEW S, NEW s \in Seq(S), NEW e \in S, NEW k \in 0 .. Len(s)
  PROVE  SubSeq(Append(s, e), k + 1, Len(s) + 1) = Append(SubSeq(s, k + 1, Len(s)), e)
<1> DEFINE a == SubSeq(Append(s, e), k + 1, Len(s) + 1)
           b == SubSeq(s, k + 1, Len(s))
<1>1. PICK n \in Nat : n = Len(s)
  BY LenProperties
<1>2. /\ Append(s, e) \in Seq(S) /\ Len(Append(s, e)) = n + 1
      /\ Append(s, e)[n + 1] = e /\ \A i \in 1 .. n : Append(s, e)[i] = s[i]
  BY <1>1, AppendProperties
<1>3. k \in 0 .. n /\ k + 1 \in Int /\ n \in Int /\ n + 1 \in Int
  BY <1>1
<1>4. /\ \A i \in k + 1 .. n : i \in 1 .. n
      /\ \A i \in k + 1 .. n + 1 : i \in 1 .. n + 1
  BY <1>3
<1>5. /\ a \in Seq(S) /\ Len(a) = (IF k + 1 <= n + 1 THEN n + 1 - (k + 1) + 1 ELSE 0)
      /\ \A i \in 1 .. n + 1 - (k + 1) + 1 : a[i] = Append(s, e)[k + 1 + i - 1]
  <2>1. \A i \in k + 1 .. n + 1 : Append(s, e)[i] \in S
    BY <1>2, <1>4, ElementOfSeq
  <2> QED BY <1>1, <1>3, <2>1, SubSeqProperties
<1>6. /\ b \in Seq(S) /\ Len(b) = (IF k + 1 <= n THEN n - (k + 1) + 1 ELSE 0)
      /\ \A i \in 1 .. n - (k + 1) + 1 : b[i] = s[k + 1 + i - 1]
  <2>1. \A i \in k + 1 .. n : s[i] \in S
    BY <1>1, <1>4, ElementOfSeq
  <2> QED BY <1>1, <1>3, <2>1, SubSeqProperties
<1> HIDE DEF a, b
<1>7. Len(a) = n - k + 1 /\ \A i \in 1 .. n - k + 1 : a[i] = Append(s, e)[k + i]
  <2>1. Len(a) = n - k + 1
    BY <1>3, <1>5
  <2>2. \A i \in 1 .. n - k + 1 : i \in 1 .. n + 1 - (k + 1) + 1 /\ k + 1 + i - 1 = k + i
    BY <1>3
  <2> QED BY <1>5, <2>1, <2>2
<1>8. Len(b) = n - k /\ \A i \in 1 .. n - k : b[i] = s[k + i]
  <2>1. Len(b) = n - k
    BY <1>3, <1>6
  <2>2. \A i \in 1 .. n - k : i \in 1 .. n - (k + 1) + 1 /\ k + 1 + i - 1 = k + i
    BY <1>3
  <2> QED BY <1>6, <2>1, <2>2
<1>9. /\ Append(b, e) \in Seq(S) /\ Len(Append(b, e)) = n - k + 1
      /\ Append(b, e)[n - k + 1] = e /\ \A i \in 1 .. n - k : Append(b, e)[i] = b[i]
  <2>1. /\ Append(b, e) \in Seq(S) /\ Len(Append(b, e)) = Len(b) + 1
        /\ Append(b, e)[Len(b) + 1] = e /\ \A i \in 1 .. Len(b) : Append(b, e)[i] = b[i]
    BY <1>6, AppendProperties
  <2> QED BY <1>8, <2>1
<1>10. ASSUME NEW i \in 1 .. n - k + 1 PROVE a[i] = Append(b, e)[i]
  <2>1. CASE i \in 1 .. n - k
    <3>1. k + i \in 1 .. n
      BY <1>3, <2>1
    <3>2. a[i] = Append(s, e)[k + i] /\ Append(s, e)[k + i] = s[k + i]
      BY <1>2, <1>7, <3>1
    <3>3. Append(b, e)[i] = b[i] /\ b[i] = s[k + i]
      BY <1>8, <1>9, <2>1
    <3> QED BY <3>2, <3>3
  <2>2. CASE i = n - k + 1
    <3>1. k + i = n + 1
      BY <1>3, <2>2
    <3>2. a[i] = Append(s, e)[n + 1]
      BY <1>7, <3>1
    <3>3. Append(b, e)[i] = e
      BY <1>9, <2>2
    <3> QED BY <1>2, <3>2, <3>3
  <2>3. i \in 1 .. n - k \/ i = n - k + 1
    BY <1>3
  <2> QED BY <2>1, <2>2, <2>3
<1>11. a = Append(b, e)
  BY <1>5, <1>7, <1>9, <1>10, SeqEqual
<1> QED BY <1>1, <1>11 DEF a, b

(***************************************************************************)
(* Of what is in K, DropFirst keeps all but the first k.                   *)
(***************************************************************************)
LEMMA SelectDropped ==
  ASSUME NEW S, NEW s \in Seq(S), NEW K, NEW k \in Nat
  PROVE  Select(DropFirst(s, K, k), K) = SubSeq(Select(s, K), k + 1, Len(Select(s, K)))
<1> DEFINE Kept(t) == SubSeq(Select(t, K), k + 1, Len(Select(t, K)))
           G == {t \in Seq(S) : Select(DropFirst(t, K, k), K) = Kept(t)}
<1>1. <<>> \in G
  <2>1. Len(<<>>) = 0 /\ SubSeq(<<>>, k + 1, 0) = <<>>
    BY EmptySeq, SubSeqEmpty
  <2> QED BY <2>1, EmptySeq, SelectEmpty, DropEmpty
<1>2. ASSUME NEW t \in Seq(S), NEW e \in S, t \in G PROVE Append(t, e) \in G
  <2>1. Append(t, e) \in Seq(S) /\ DropFirst(t, K, k) \in Seq(S)
    BY AppendProperties, DropType
  <2>2. Select(t, K) \in Seq(S \cap K)
    BY SelectType
  <2>3. PICK n \in Nat : n = Len(Select(t, K))
    BY <2>2, LenProperties
  <2>4. Select(DropFirst(t, K, k), K) = Kept(t)
    BY <1>2
  <2>5. DropFirst(Append(t, e), K, k) =
          IF e \in K /\ n < k THEN DropFirst(t, K, k) ELSE Append(DropFirst(t, K, k), e)
    BY <2>3, DropAppend
  <2>6. Select(Append(t, e), K) = IF e \in K THEN Append(Select(t, K), e) ELSE Select(t, K)
    BY SelectAppend
  <2>7. Select(Append(DropFirst(t, K, k), e), K) =
          IF e \in K THEN Append(Select(DropFirst(t, K, k), K), e) ELSE Select(DropFirst(t, K, k), K)
    BY <2>1, SelectAppend
  <2>8. CASE e \notin K
    BY <2>1, <2>4, <2>5, <2>6, <2>7, <2>8
  <2>9. CASE e \in K /\ n < k
    <3>1. Len(Append(Select(t, K), e)) = n + 1
      BY <2>2, <2>3, <2>9, AppendProperties
    <3>2. n < k + 1 /\ n + 1 < k + 1
      BY <2>9
    <3>3. SubSeq(Select(t, K), k + 1, n) = <<>> /\ SubSeq(Append(Select(t, K), e), k + 1, n + 1) = <<>>
      BY <3>2, SubSeqEmpty
    <3>4. Kept(t) = <<>> /\ Kept(Append(t, e)) = <<>>
      BY <2>3, <2>6, <2>9, <3>1, <3>3
    <3>5. DropFirst(Append(t, e), K, k) = DropFirst(t, K, k)
      BY <2>5, <2>9
    <3> HIDE DEF Kept
    <3> QED BY <2>1, <2>4, <3>4, <3>5
  <2>10. CASE e \in K /\ ~(n < k)
    <3>1. Len(Append(Select(t, K), e)) = n + 1 /\ k \in 0 .. Len(Select(t, K)) /\ e \in S \cap K
      BY <2>2, <2>3, <2>10, AppendProperties
    <3>2. SubSeq(Append(Select(t, K), e), k + 1, n + 1) = Append(SubSeq(Select(t, K), k + 1, n), e)
      BY <2>2, <2>3, <3>1, SuffixAppend
    <3>3. Kept(Append(t, e)) = Append(Kept(t), e)
      BY <2>3, <2>6, <2>10, <3>1, <3>2
    <3> HIDE DEF Kept
    <3> QED BY <2>1, <2>4, <2>5, <2>7, <2>10, <3>3
  <2> QED BY <2>8, <2>9, <2>10
<1>3. Seq(S) \subseteq G
  <2> HIDE DEF G
  <2> QED BY <1>1, <1>2, SequencesByAppending
<1> QED BY <1>3

(***************************************************************************)
(* DropFirst drops k elements, or as many as there are in K.               *)
(***************************************************************************)
LEMMA DropLength ==
  ASSUME NEW S, NEW s \in Seq(S), NEW K, NEW k \in Nat
  PROVE  Len(DropFirst(s, K, k)) =
           Len(s) - (IF Len(Select(s, K)) < k THEN Len(Select(s, K)) ELSE k)
<1> DEFINE Fewer(t) == Len(t) - (IF Len(Select(t, K)) < k THEN Len(Select(t, K)) ELSE k)
           G == {t \in Seq(S) : Len(DropFirst(t, K, k)) = Fewer(t)}
<1>1. <<>> \in G
  BY EmptySeq, SelectEmpty, DropEmpty
<1>2. ASSUME NEW t \in Seq(S), NEW e \in S, t \in G PROVE Append(t, e) \in G
  <2>1. Append(t, e) \in Seq(S) /\ DropFirst(t, K, k) \in Seq(S) /\ Len(Append(t, e)) = Len(t) + 1
        /\ Len(Append(DropFirst(t, K, k), e)) = Len(DropFirst(t, K, k)) + 1
    BY AppendProperties, DropType
  <2>2. PICK n \in Nat, m \in Nat : n = Len(Select(t, K)) /\ m = Len(t)
    BY SelectType, LenProperties
  <2>3. DropFirst(Append(t, e), K, k) =
          IF e \in K /\ n < k THEN DropFirst(t, K, k) ELSE Append(DropFirst(t, K, k), e)
    BY <2>2, DropAppend
  <2>4. Len(Select(Append(t, e), K)) = IF e \in K THEN n + 1 ELSE n
    <3>1. Select(t, K) \in Seq(S \cap K)
      BY SelectType
    <3>2. e \in K => Len(Append(Select(t, K), e)) = n + 1
      BY <2>2, <3>1, AppendProperties
    <3> QED BY <2>2, <3>2, SelectAppend
  <2>5. Len(DropFirst(t, K, k)) = m - (IF n < k THEN n ELSE k)
    BY <1>2, <2>2
  <2>6. Fewer(Append(t, e)) = m + 1 - (IF (IF e \in K THEN n + 1 ELSE n) < k
                                      THEN (IF e \in K THEN n + 1 ELSE n) ELSE k)
    BY <2>1, <2>2, <2>4
  <2> HIDE DEF Fewer
  <2>7. Len(DropFirst(Append(t, e), K, k)) = Fewer(Append(t, e))
    <3>1. CASE e \in K /\ n < k
      BY <2>3, <2>5, <2>6, <3>1
    <3>2. CASE e \in K /\ ~(n < k)
      <4>1. Len(DropFirst(Append(t, e), K, k)) = m - k + 1
        BY <2>1, <2>3, <2>5, <3>2
      <4>2. ~(n + 1 < k)
        BY <3>2
      <4>3. Fewer(Append(t, e)) = m + 1 - k
        BY <2>6, <3>2, <4>2
      <4> QED BY <4>1, <4>3
    <3>3. CASE e \notin K
      BY <2>1, <2>3, <2>5, <2>6, <3>3
    <3> QED BY <3>1, <3>2, <3>3
  <2> QED BY <2>1, <2>7
<1>3. Seq(S) \subseteq G
  <2> HIDE DEF G
  <2> QED BY <1>1, <1>2, SequencesByAppending
<1> QED BY <1>3

\* An element of t is one of s, there or later.
MovedUp(s, t) ==
  /\ Len(t) <= Len(s)
  /\ \A i \in 1 .. Len(t) : \E j \in i .. Len(s) : t[i] = s[j]

(***************************************************************************)
(* What DropFirst keeps moves up.                                          *)
(***************************************************************************)
LEMMA DropMovesUp ==
  ASSUME NEW S, NEW s \in Seq(S), NEW K, NEW k \in Int
  PROVE  MovedUp(s, DropFirst(s, K, k))
<1> DEFINE G == {t \in Seq(S) : MovedUp(t, DropFirst(t, K, k))}
<1>1. <<>> \in G
  BY EmptySeq, DropEmpty DEF MovedUp
<1>2. ASSUME NEW t \in Seq(S), NEW e \in S, t \in G PROVE Append(t, e) \in G
  <2> DEFINE d == DropFirst(t, K, k)
             te == Append(t, e)
             de == Append(d, e)
  <2>1. te \in Seq(S) /\ d \in Seq(S) /\ MovedUp(t, d)
    BY <1>2, AppendProperties, DropType
  <2>2. DropFirst(te, K, k) \in {d, de}
    BY DropAppend
  <2>3. PICK m \in Nat, n \in Nat : m = Len(t) /\ n = Len(d)
    BY <2>1, LenProperties
  <2>4. /\ Len(te) = m + 1 /\ te[m + 1] = e /\ \A i \in 1 .. m : te[i] = t[i]
        /\ Len(de) = n + 1 /\ de[n + 1] = e /\ \A i \in 1 .. n : de[i] = d[i]
    BY <2>1, <2>3, AppendProperties
  <2> HIDE DEF d, te, de
  <2>5. n <= m /\ \A i \in 1 .. n : \E j \in i .. m : d[i] = t[j]
    BY <2>1, <2>3 DEF MovedUp
  <2>6. ASSUME NEW i \in 1 .. n PROVE \E j \in i .. m + 1 : d[i] = te[j]
    <3>1. PICK j \in i .. m : d[i] = t[j]
      BY <2>5
    <3>2. j \in 1 .. m /\ j \in i .. m + 1
      OBVIOUS
    <3> QED BY <2>4, <3>1, <3>2
  <2>7. MovedUp(te, d)
    <3>1. Len(d) <= Len(te)
      BY <2>3, <2>4, <2>5
    <3> QED BY <2>3, <2>4, <2>6, <3>1 DEF MovedUp
  <2>8. MovedUp(te, de)
    <3>1. Len(de) <= Len(te)
      BY <2>4, <2>5
    <3>2. ASSUME NEW i \in 1 .. n + 1 PROVE \E j \in i .. m + 1 : de[i] = te[j]
      <4>1. CASE i \in 1 .. n
        BY <2>4, <2>6, <4>1
      <4>2. CASE i = n + 1
        <5>1. m + 1 \in i .. m + 1 /\ de[i] = te[m + 1]
          BY <2>4, <2>5, <4>2
        <5> QED BY <5>1
      <4> QED BY <4>1, <4>2
    <3> QED BY <2>4, <3>1, <3>2 DEF MovedUp
  <2>9. MovedUp(te, DropFirst(te, K, k))
    BY <2>2, <2>7, <2>8
  <2> QED BY <2>1, <2>9 DEF te
<1>3. Seq(S) \subseteq G
  <2> HIDE DEF G
  <2> QED BY <1>1, <1>2, SequencesByAppending
<1> QED BY <1>3
================================================================================
