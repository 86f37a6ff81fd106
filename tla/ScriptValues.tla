----------------------------- MODULE ScriptValues -----------------------------
(***************************************************************************)
(* The values of mind/src/script.rs, what its operators and builtins make  *)
(* of them, and the frames and the output of a running program.  A value   *)
(* carries the text it shows and, as a ghost, whether it fits: integers in *)
(* their 64 bits, lists within MaxList at every level.  Characters are one *)
(* byte each.                                                              *)
(***************************************************************************)
EXTENDS Integers, Sequences, FiniteSets

CONSTANTS OutCap, MaxList, MaxStr,   \* as in the code
          IntMax,                    \* the largest integer (i64::MAX)
          Numeral,                   \* the number each token of a number stands for
          Literal                    \* the characters, as codes, of each token of a string

ASSUME ValuesAssumption ==
  /\ {OutCap, MaxList, MaxStr, IntMax} \subseteq Nat \ {0}
  /\ \A tok \in DOMAIN Numeral : Numeral[tok] \in 0..IntMax
  /\ \A tok \in DOMAIN Literal : Literal[tok] \in Seq(Nat)

Int64 == (-IntMax - 1)..IntMax

---------------------------------------------------------------------------
(* Values: an integer, a string of character codes, a list of values.      *)

\* A number without its last k digits.
Shifted(n) == LET rest[k \in 0..n] == IF k = 0 THEN n ELSE rest[k - 1] \div 10 IN rest
Decimal(n) ==
  LET rest == Shifted(n)
      digits == 1 + Cardinality({k \in 1..n : rest[k] > 0})
  IN [i \in 1..digits |-> 48 + (rest[digits - i] % 10)]

\* Pieces put behind start one by one, until the text is past OutCap.
Joined(start, pieces, sep) ==
  LET upTo[k \in 0..Len(pieces)] ==
        IF k = 0 THEN start
        ELSE LET t == upTo[k - 1]
             IN IF Len(t) > OutCap THEN t
                ELSE t \o (IF t = << >> THEN << >> ELSE sep) \o pieces[k]
  IN upTo[Len(pieces)]

ShowInt(n) == IF n < 0 THEN << 45 >> \o Decimal(-n) ELSE Decimal(n)
ShowList(l) ==
  LET t == Joined(<< 91 >>, [i \in 1..Len(l) |-> IF i = 1 THEN l[i].s ELSE << 44, 32 >> \o l[i].s],
                  << >>)
  IN (IF Len(t) > OutCap THEN t \o << 46, 46, 46 >> ELSE t) \o << 93 >>

Num(n) == [kind |-> "int", n |-> n, s |-> ShowInt(n), l |-> << >>, fits |-> n \in Int64]
Str(s) == [kind |-> "str", n |-> 0, s |-> s, l |-> << >>, fits |-> TRUE]
List(l) == [kind |-> "list", n |-> 0, s |-> ShowList(l), l |-> l,
            fits |-> Len(l) <= MaxList /\ \A i \in DOMAIN l : l[i].fits]

Truth(b) == Num(IF b THEN 1 ELSE 0)
Truthy(x) == CASE x.kind = "int" -> x.n # 0
               [] x.kind = "str" -> x.s # << >>
               [] OTHER -> x.l # << >>

Lit(tok) == IF tok \in DOMAIN Numeral THEN Num(Numeral[tok]) ELSE Str(Literal[tok])

---------------------------------------------------------------------------
(* Operators.  A result is a sequence: of the value, or empty for an error. *)

Error == << >>
Checked(n) == IF n \in Int64 THEN << Num(n) >> ELSE Error

Abs(n) == IF n < 0 THEN -n ELSE n
Quot(a, b) == (IF (a < 0) = (b < 0) THEN 1 ELSE -1) * (Abs(a) \div Abs(b))

Arith(op, a, b) ==
  CASE op = "+" -> Checked(a + b)
    [] op = "-" -> Checked(a - b)
    [] op = "*" -> Checked(a * b)
    [] op \in {"/", "%"} /\ b = 0 -> Error
    [] op = "/" /\ b # 0 -> Checked(Quot(a, b))
    [] op = "%" /\ b # 0 -> IF Checked(Quot(a, b)) = Error THEN Error ELSE << Num(a - b * Quot(a, b)) >>

Unop(op, x) ==
  IF op = "!" THEN << Truth(~Truthy(x)) >>
  ELSE IF x.kind = "int" THEN Checked(-x.n) ELSE Error

\* The order of strings is that of their bytes.
Below(s, t) ==
  \E k \in 0..Len(s) :
    /\ k < Len(t) /\ SubSeq(s, 1, k) = SubSeq(t, 1, k)
    /\ k < Len(s) => s[k + 1] < t[k + 1]

Less(x, y) == IF x.kind = "int" THEN x.n < y.n ELSE Below(x.s, y.s)
Compare(op, x, y) ==
  IF x.kind # y.kind \/ x.kind = "list" THEN Error
  ELSE << Truth(CASE op = "<" -> Less(x, y)
                  [] op = ">" -> Less(y, x)
                  [] op = "<=" -> ~Less(y, x)
                  [] OTHER -> ~Less(x, y)) >>

JoinStr(s, t) == IF Len(s) + Len(t) > MaxStr THEN Error ELSE << Str(s \o t) >>
JoinList(l, k) == IF Len(l) + Len(k) > MaxList THEN Error ELSE << List(l \o k) >>

Binop(op, x, y) ==
  CASE op = "==" -> << Truth(x = y) >>
    [] op = "!=" -> << Truth(x # y) >>
    [] op \in {"<", ">", "<=", ">="} -> Compare(op, x, y)
    [] op \in {"+", "-", "*", "/", "%"} /\ x.kind = "int" /\ y.kind = "int" -> Arith(op, x.n, y.n)
    [] op = "+" /\ "str" \in {x.kind, y.kind} -> JoinStr(x.s, y.s)
    [] op = "+" /\ x.kind = "list" /\ y.kind = "list" -> JoinList(x.l, y.l)
    [] OTHER -> Error

\* An index from the front, or backwards from the end: its place, or 0.
IndexOf(i, len) ==
  LET at == IF i < 0 THEN i + len ELSE i IN IF at \in 0..(len - 1) THEN at + 1 ELSE 0

Item(x, i) ==
  LET places == IF x.kind = "str" THEN Len(x.s) ELSE Len(x.l)
  IN IF i.kind # "int" \/ x.kind = "int" \/ IndexOf(i.n, places) = 0 THEN Error
     ELSE << IF x.kind = "str" THEN Str(<< x.s[IndexOf(i.n, places)] >>)
             ELSE x.l[IndexOf(i.n, places)] >>

Upper(c) == IF c \in 97..122 THEN c - 32 ELSE c
Lower(c) == IF c \in 65..90 THEN c + 32 ELSE c

\* mutant: the list is not measured before it grows
PushUnmeasured(l, x) == IF l.kind # "list" THEN Error ELSE << List(Append(l.l, x)) >>
Push(l, x) ==
  IF l.kind # "list" \/ Len(l.l) + 1 > MaxList THEN Error ELSE << List(Append(l.l, x)) >>

Within(t, s) == \E i \in 0..(Len(s) - Len(t)) : SubSeq(s, i + 1, i + Len(t)) = t
Holds(x, y) ==
  CASE x.kind = "str" -> << Truth(Within(y.s, x.s)) >>
    [] x.kind = "list" -> << Truth(\E i \in DOMAIN x.l : x.l[i] = y) >>
    [] OTHER -> Error

\* What a length is as an integer of 64 bits.
Wrapped(n) == ((n + IntMax + 1) % (2 * (IntMax + 1))) - (IntMax + 1)
Length(x) == CASE x.kind = "str" -> << Num(Wrapped(Len(x.s))) >>
               [] x.kind = "list" -> << Num(Wrapped(Len(x.l))) >>
               [] OTHER -> Error

Builtins == {"len", "push", "str", "upper", "lower", "contains"}
Builtin(name, args) ==
  IF Len(args) # (IF name \in {"push", "contains"} THEN 2 ELSE 1) THEN Error
  ELSE LET x == args[1]
       IN CASE name = "len" -> Length(x)
            [] name = "push" -> Push(x, args[2])
            [] name = "contains" -> Holds(x, args[2])
            [] name = "str" -> << Str(x.s) >>
            [] name = "upper" -> << Str([i \in 1..Len(x.s) |-> Upper(x.s[i])]) >>
            [] name = "lower" -> << Str([i \in 1..Len(x.s) |-> Lower(x.s[i])]) >>

---------------------------------------------------------------------------
(* A frame is a sequence of bindings: of a name the last one is read, the  *)
(* first is written.                                                       *)

Places(frame, name) == {i \in 1..Len(frame) : frame[i].name = name}
Bound(frame, name) == Places(frame, name) # {}
Get(frame, name) ==
  LET at == Places(frame, name) IN frame[CHOOSE i \in at : \A j \in at : j <= i].value
SetVar(frame, name, x) ==
  LET at == Places(frame, name)
  IN IF at = {} THEN Append(frame, [name |-> name, value |-> x])
     ELSE [frame EXCEPT ![CHOOSE i \in at : \A j \in at : i <= j].value = x]

\* The values of the parameters, as the first bindings of a call's frame.
Arguments(f, args) == [i \in 1..Len(args) |-> [name |-> f.params[i], value |-> args[i]]]

\* A line of what is printed.
Line(vals) == Joined(<< >>, [i \in 1..Len(vals) |-> vals[i].s], << 32 >>)

\* mutant: the room is not looked at before the separator
EmitAlways(out, s) ==
  LET led == IF out = << >> THEN out ELSE out \o << 32, 124, 32 >>
      room == IF Len(led) < OutCap THEN OutCap - Len(led) ELSE 0
  IN led \o SubSeq(s, 1, IF Len(s) < room THEN Len(s) ELSE room)

\* Past OutCap a line is cut, and the lines after it are left out.
Emit(out, s) ==
  LET led == IF out = << >> THEN out ELSE out \o << 32, 124, 32 >>
      room == IF Len(led) < OutCap THEN OutCap - Len(led) ELSE 0
  IN IF Len(out) < OutCap THEN led \o SubSeq(s, 1, IF Len(s) < room THEN Len(s) ELSE room) ELSE out
===============================================================================
