---------------------------- MODULE ScriptReference ----------------------------
(***************************************************************************)
(* The meaning of a program as a function of its tree, by recursion as     *)
(* eval and exec have it: the reference for the machine of Script.  An     *)
(* environment r is the code's Env, with the value last computed (val) and *)
(* how control flows on (flow).                                            *)
(***************************************************************************)
EXTENDS Script, ScriptParser

Halt(r) == [r EXCEPT !.flow = "stop"]
Give(r, x) == [r EXCEPT !.val = x]
Take(r, o) == IF o = Error THEN Halt(r) ELSE Give(r, o[1])
\* What follows happens unless an error has stopped the program.
On(r, F(_)) == IF r.flow = "stop" THEN r ELSE F(r)

Paid(r) == [r EXCEPT !.steps = @ + 1, !.flow = IF r.steps >= StepBudget THEN "stop" ELSE @]
Here(r) == Last(r.frames)
Assign(r, name, x) == [r EXCEPT !.frames = Append(Front(@), SetVar(Here(r), name, x))]

RECURSIVE Eval(_, _), Exec(_, _), Times(_, _, _), Passes(_, _)

\* The values of several expressions, as a list, from left to right.
EvalAll(es, r0) ==
  FoldLeft(LAMBDA acc, e :
             On(acc, LAMBDA a : On(Eval(e, a), LAMBDA r : Give(r, List(Append(a.val.l, r.val))))),
           Give(r0, List(<< >>)), es)

\* A call has a frame of its own, closed again however the body ended.
Call(name, r) ==
  LET args == r.val.l
      f == r.fns[name]
      done == Exec(f.body, [r EXCEPT !.depth = @ + 1, !.frames = Append(@, Arguments(f, args))])
  IN IF name \notin DOMAIN r.fns \/ Len(f.params) # Len(args) \/ r.depth >= MaxDepth THEN Halt(r)
     ELSE [done EXCEPT !.frames = Front(@), !.depth = @ - 1,
                       !.val = IF done.flow = "return" THEN @ ELSE Num(0),
                       !.flow = IF @ = "stop" THEN @ ELSE "on"]

Logic(e, r0) ==
  On(Eval(e.es[1], r0),
     LAMBDA l : IF Truthy(l.val) = (e.name = "||") THEN Give(l, Truth(Truthy(l.val)))
                ELSE On(Eval(e.es[2], l), LAMBDA r : Give(r, Truth(Truthy(r.val)))))

\* What F makes of the values of two operands.
Both(e, r0, F(_, _)) ==
  On(Eval(e.es[1], r0), LAMBDA l : On(Eval(e.es[2], l), LAMBDA r : Take(r, F(l.val, r.val))))

Effect(e, r0) ==
  CASE e.op = "lit" -> Give(r0, Lit(e.name))
    [] e.op = "var" -> Take(r0, IF Bound(Here(r0), e.name) THEN << Get(Here(r0), e.name) >> ELSE Error)
    [] e.op = "unary" -> On(Eval(e.es[1], r0), LAMBDA r : Take(r, Unop(e.name, r.val)))
    [] e.op = "bin" -> IF e.name \in {"&&", "||"} THEN Logic(e, r0)
                       ELSE Both(e, r0, LAMBDA x, y : Binop(e.name, x, y))
    [] e.op = "index" -> Both(e, r0, Item)
    [] e.op = "list" -> IF Len(e.es) > MaxList THEN Halt(r0) ELSE EvalAll(e.es, r0)
    [] e.op = "call" -> On(EvalAll(e.es, r0),
                           LAMBDA r : IF e.name \in Builtins THEN Take(r, Builtin(e.name, r.val.l))
                                      ELSE Call(e.name, r))

Eval(e, r0) == On(Paid(r0), LAMBDA r : Effect(e, r))

\* xs[i] = e: the index, the value, and only then the list as it now is.
AssignAt(s, r0) ==
  On(Eval(s.es[1], r0), LAMBDA i :
    IF i.val.kind # "int" THEN Halt(i)
    ELSE On(Eval(s.es[2], i), LAMBDA r :
      LET old == Get(Here(r), s.name)
          u == IndexOf(i.val.n, Len(old.l))
      IN IF ~Bound(Here(r), s.name) \/ old.kind # "list" \/ u = 0 THEN Halt(r)
         ELSE Assign(r, s.name, List([old.l EXCEPT ![u] = r.val]))))

\* The items of a line, up to the one with which it is past OutCap.
Printed(items, r0) ==
  LET Show(acc, e) ==
        On(acc, LAMBDA a :
          IF Len(a.val.s) > OutCap THEN a
          ELSE On(Eval(e, a), LAMBDA r :
                 Give(r, Str(a.val.s \o (IF a.val.s = << >> THEN << >> ELSE << 32 >>) \o r.val.s))))
  IN On(FoldLeft(Show, Give(r0, Str(<< >>)), items),
        LAMBDA r : [r EXCEPT !.out = Emit(@, r.val.s)])

Times(n, body, r) ==
  IF n <= 0 \/ r.flow # "on" THEN r ELSE Times(n - 1, body, Exec(body, r))

Passes(s, r0) ==
  On(Eval(s.es[1], r0), LAMBDA c :
    IF ~Truthy(c.val) THEN c
    ELSE On(Paid(c), LAMBDA r :
           LET done == Exec(s.body, r) IN IF done.flow = "on" THEN Passes(s, done) ELSE done))

Perform(s, r0) ==
  CASE s.op = "fn" -> r0
    [] s.op = "let" -> On(Eval(s.es[1], r0), LAMBDA r : Assign(r, s.name, r.val))
    [] s.op = "assign" ->
         On(Eval(s.es[1], r0),
            LAMBDA r : IF Bound(Here(r), s.name) THEN Assign(r, s.name, r.val) ELSE Halt(r))
    [] s.op = "set" -> AssignAt(s, r0)
    [] s.op = "print" -> Printed(s.es, r0)
    [] s.op = "discard" -> Eval(s.es[1], r0)
    [] s.op = "repeat" ->
         On(Eval(s.es[1], r0), LAMBDA r :
           IF r.val.kind # "int" THEN Halt(r)
           ELSE Times(IF r.val.n < RepeatMax THEN r.val.n ELSE RepeatMax, s.body, r))
    [] s.op = "while" -> Passes(s, r0)
    [] s.op = "if" ->
         On(Eval(s.es[1], r0), LAMBDA r : Exec(IF Truthy(r.val) THEN s.body ELSE s.other, r))
    [] s.op = "return" ->
         On(IF s.es = << >> THEN Give(r0, Num(0)) ELSE Eval(s.es[1], r0),
            LAMBDA r : [r EXCEPT !.flow = "return"])

Exec(body, r0) ==
  IF body = << >> \/ r0.flow # "on" THEN r0
  ELSE Exec(Tail(body), On(Paid(r0), LAMBDA r : Perform(Head(body), r)))

Run(body) ==
  Exec(body, [frames |-> << << >> >>, fns |-> Hoist(<< >>, body), steps |-> 0, depth |-> 0,
              out |-> << >>, flow |-> "on", val |-> Num(0)])

---------------------------------------------------------------------------
(* Properties.                                                             *)

\* The machine does what the recursion of eval and exec does: the same output,
\* the same variables, as many steps, and an error if and only if there is one.
Agrees ==
  pc \in {"ran", "failed"} =>
    LET r == Run(Root.body)
    IN r.out = out /\ r.frames = frames /\ r.steps = steps /\ (r.flow = "stop" <=> pc = "failed")

\* Reference for the precedence climb: of a chain of operands and operators,
\* the root is the last of the operators that bind loosest.
LevelOf(tok) == CHOOSE l \in DOMAIN Levels : tok \in Levels[l]
IsChain(t) == /\ Len(t) % 2 = 1
              /\ \A i \in DOMAIN t : IF i % 2 = 1 THEN t[i] \in DOMAIN Numeral
                                     ELSE \E l \in DOMAIN Levels : t[i] \in Levels[l]
RECURSIVE Grouped(_)
Grouped(t) ==
  LET ops == {i \in DOMAIN t : i % 2 = 0}
      loosest == {i \in ops : \A j \in ops : LevelOf(t[i]) <= LevelOf(t[j])}
      root == Max(loosest)
  IN IF Len(t) = 1 THEN Plain("lit", t[1], << >>)
     ELSE Bin(t[root], Grouped(SubSeq(t, 1, root - 1)), Grouped(SubSeq(t, root + 1, Len(t))))

\* A chain parses into the tree the precedence of its operators calls for,
\* operators of one level from left to right.
LoosestLast ==
  pc = "run" /\ text[1] = "print" /\ IsChain(Tail(text)) =>
    Root.body[1].es[1] = Grouped(Tail(text))

\* A program may call a function defined further down: with its definitions
\* moved to its front it prints the same and ends alike, an error included,
\* unless the steps run out in one of the two orders.
HoistedAlike ==
  pc \in {"ran", "failed"} =>
    LET IsFn(s) == s.op = "fn"
        NotFn(s) == s.op # "fn"
        moved == SelectSeq(Root.body, IsFn) \o SelectSeq(Root.body, NotFn)
        again == Run(moved)
    IN {again.steps, steps} \subseteq 0..StepBudget =>
         again.out = out /\ (again.flow = "stop" <=> pc = "failed")
===============================================================================
