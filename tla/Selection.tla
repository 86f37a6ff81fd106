------------------------------- MODULE Selection -------------------------------
(***************************************************************************)
(* Selections from a sequence.  Select is SelectSeq with a set for a test, *)
(* written as a recursive function: the provers cannot expand SelectSeq,   *)
(* and of this form they have the laws in SelectionProofs.                 *)
(***************************************************************************)
EXTENDS Integers, Sequences

\* The elements of s at the positions in I, in their order.
At(s, I) ==
  LET upto[i \in 0 .. Len(s)] ==
        IF i = 0 THEN <<>>
        ELSE IF i \in I THEN Append(upto[i - 1], s[i]) ELSE upto[i - 1]
  IN upto[Len(s)]

\* Those that are in K.
Select(s, K) == At(s, {i \in DOMAIN s : s[i] \in K})

\* All but the first k that are in K.
DropFirst(s, K, k) ==
  At(s, {i \in DOMAIN s : s[i] \in K => Len(Select(SubSeq(s, 1, i), K)) > k})
================================================================================
