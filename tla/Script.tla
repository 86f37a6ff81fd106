-------------------------------- MODULE Script --------------------------------
(***************************************************************************)
(* The interpreter of mind/src/script.rs as a machine: a step for each     *)
(* expression and each statement it begins, and for what becomes of each   *)
(* when its operands are there.  The native stack is a variable: an        *)
(* activation for each eval and exec under way.  A program is taken as the *)
(* tree the parser makes of its text.                                      *)
(***************************************************************************)
EXTENDS ScriptValues, SequencesExt

CONSTANTS StepBudget, MaxDepth,  \* as in the code
          RepeatMax,             \* the most often repeat runs its block
          Program,               \* what the parser makes of each text, and its functions
          Tree                   \* the trees of all programs, with all trees under them

ASSUME BoundsAssumption == {StepBudget, MaxDepth, RepeatMax} \subseteq Nat \ {0}

VARIABLES text,    \* the program that was given to run
          pc,      \* whether it has been parsed, runs, or has ended, and how
          stack,   \* the evaluations and executions under way, the innermost last
          frames,  \* the variables of each open call, below them those of the program
          steps, depth, out,
          flow,    \* "on", or "return" or "stop" while the stack unwinds
          val      \* what a return gives back
vars == << text, pc, stack, frames, steps, depth, out, flow, val >>

---------------------------------------------------------------------------
(* Trees.  The operands of a node are its expressions, in their order;     *)
(* high is how many levels a tree has, and binds the variables that its    *)
(* statements name, those of the functions defined in it left out.         *)

ExprOp == {"lit", "var", "unary", "bin", "index", "list", "call"}
StmtOp == {"let", "assign", "set", "print", "discard", "repeat", "while", "if", "fn", "return"}

Arity(op) == CASE op \in {"lit", "var", "fn", "program"} -> {0}
               [] op \in {"bin", "index", "set"} -> {2}
               [] op = "return" -> {0, 1}
               [] op \in {"list", "call", "print"} -> Nat
               [] OTHER -> {1}

\* Operands are expressions, a block is of statements, and every tree ends.
WellFormed(t) ==
  /\ t.op = "lit" => t.name \in DOMAIN Numeral \cup DOMAIN Literal
  /\ t.op \in {"let", "assign", "set"} => t.name \in t.binds
  /\ Len(t.es) \in Arity(t.op)
  /\ \A u \in ToSet(t.es) : u.op \in ExprOp /\ u.high < t.high
  /\ \A u \in ToSet(t.body) \cup ToSet(t.other) :
       u.op \in StmtOp /\ u.high < t.high /\ (t.op # "fn" => u.binds \subseteq t.binds)

ASSUME TreeAssumption ==
  \A t \in Tree :
    /\ t \in [op : ExprOp \cup StmtOp \cup {"program"}, name : STRING, params : Seq(STRING),
              es : Seq(Tree), body : Seq(Tree), other : Seq(Tree),
              high : Nat \ {0}, binds : SUBSET STRING]
    /\ WellFormed(t)

\* A text is of tokens; an expression has no more levels than tokens, and round
\* it come at most a statement of no token (the bare `x`) and the program.
ASSUME ProgramAssumption ==
  \A t \in DOMAIN Program :
    LET p == Program[t]
    IN /\ t \in Seq(STRING)
       /\ p.ok => /\ p.root \in Tree /\ p.root.op = "program" /\ p.root.high <= Len(t) + 2
                  /\ \A name \in DOMAIN p.fns :
                       p.fns[name] \in Tree /\ p.fns[name].op = "fn"
                       /\ p.fns[name].high < p.root.high

Root == Program[text].root
Fns == Program[text].fns

---------------------------------------------------------------------------
(* The stack.  An activation has the values of the operands so far and, if *)
(* its body is open, the statements left to do in it.  As a ghost it keeps *)
(* the frames as they were when it began.                                  *)

Fresh(t) == [node |-> t, vals |-> << >>, open |-> FALSE, todo |-> << >>, kept |-> frames]
Opened(a, body) == [a EXCEPT !.open = TRUE, !.todo = body]

Top == Last(stack)
Rest == Front(stack)
With(a) == [stack EXCEPT ![Len(stack)] = a]
\* The innermost expression is done: its value is the next operand around it.
Handed(x) == [Rest EXCEPT ![Len(stack) - 1].vals = Append(@, x)]

Frame == Last(frames)
InFrame(f) == [frames EXCEPT ![Len(frames)] = f]

\* mutant: the right side of && and || is always evaluated
WantsBoth(a) ==
  /\ Len(a.vals) < Len(a.node.es)
  /\ a.node.op = "print" => Len(Line(a.vals)) <= OutCap

\* Whether another operand is evaluated: && and || leave the right one alone
\* when the left one decides, print those behind the one that filled the line.
Wants(a) ==
  /\ Len(a.vals) < Len(a.node.es)
  /\ (a.node.op = "bin" /\ a.node.name \in {"&&", "||"} /\ Len(a.vals) = 1) =>
       Truthy(a.vals[1]) # (a.node.name = "||")
  /\ a.node.op = "print" => Len(Line(a.vals)) <= OutCap

\* Refused before the next operand is looked at.
Refused(a) == \/ a.node.op = "list" /\ Len(a.node.es) > MaxList
              \/ a.node.op = "set" /\ Len(a.vals) = 1 /\ a.vals[1].kind # "int"

Running == pc = "run" /\ flow = "on"
\* All operands are there, and the node is one of these.
Ready(ops) == Running /\ Top.node.op \in ops /\ ~Top.open /\ ~Wants(Top)
\* The body has run.
Over(op) == Running /\ Top.node.op = op /\ Top.open /\ Top.todo = << >>

Stop == flow' = "stop" /\ UNCHANGED << stack, frames, depth, out, steps, val >>
\* The stack becomes s, if there is a step left to spend on it.
Spend(s) ==
  /\ steps' = steps + 1
  /\ IF steps < StepBudget THEN stack' = s /\ flow' = flow ELSE flow' = "stop" /\ stack' = stack
  /\ UNCHANGED << frames, depth, out, val >>
Become(s) == stack' = s /\ UNCHANGED << frames, depth, out, steps, flow, val >>
Result(o) == IF o = Error THEN Stop ELSE Become(Handed(o[1]))

---------------------------------------------------------------------------
(* The steps.                                                              *)

Init ==
  /\ text \in DOMAIN Program
  /\ pc = "parse" /\ stack = << >> /\ frames = << << >> >>
  /\ steps = 0 /\ depth = 0 /\ out = << >> /\ flow = "on" /\ val = Num(0)

\* A text that does not parse, or holds no statement, is refused.
Begin ==
  /\ pc = "parse"
  /\ IF Program[text].ok
     THEN pc' = "run" /\ stack' = << Opened(Fresh(Root), Root.body) >>
     ELSE pc' = "refused" /\ UNCHANGED stack
  /\ UNCHANGED << text, frames, steps, depth, out, flow, val >>

Operand ==
  /\ Running /\ ~Top.open /\ Wants(Top)
  /\ IF Refused(Top) THEN Stop
     ELSE Spend(Append(stack, Fresh(Top.node.es[Len(Top.vals) + 1])))

Statement ==
  /\ Running /\ Top.open /\ Top.todo # << >>
  /\ Spend(Append(With([Top EXCEPT !.todo = Tail(@)]), Fresh(Head(Top.todo))))

Value(a) ==
  LET e == a.node
      v == a.vals
  IN CASE e.op = "lit" -> << Lit(e.name) >>
       [] e.op = "var" -> IF Bound(Frame, e.name) THEN << Get(Frame, e.name) >> ELSE Error
       [] e.op = "unary" -> Unop(e.name, v[1])
       [] e.op = "bin" /\ e.name \in {"&&", "||"} -> << Truth(Truthy(v[Len(v)])) >>
       [] e.op = "bin" /\ e.name \notin {"&&", "||"} -> Binop(e.name, v[1], v[2])
       [] e.op = "index" -> Item(v[1], v[2])
       [] e.op = "list" -> << List(v) >>
       [] e.op = "call" -> Builtin(e.name, v)

Evaluate ==
  /\ Ready(ExprOp) /\ (Top.node.op = "call" => Top.node.name \in Builtins)
  /\ Result(Value(Top))

Callable(name, args) == name \in DOMAIN Fns /\ Len(Fns[name].params) = Len(args)

\* mutant: a call is not counted against the depth
EnterUncounted ==
  /\ Ready({"call"}) /\ Top.node.name \notin Builtins
  /\ IF Callable(Top.node.name, Top.vals)
     THEN /\ frames' = Append(frames, Arguments(Fns[Top.node.name], Top.vals))
          /\ stack' = With(Opened(Top, Fns[Top.node.name].body))
          /\ UNCHANGED << depth, out, steps, flow, val >>
     ELSE Stop

\* mutant: the parameters are put into the caller's frame
EnterInside ==
  /\ Ready({"call"}) /\ Top.node.name \notin Builtins
  /\ IF Callable(Top.node.name, Top.vals) /\ depth < MaxDepth
     THEN /\ frames' = Append(InFrame(Frame \o Arguments(Fns[Top.node.name], Top.vals)), << >>)
          /\ depth' = depth + 1
          /\ stack' = With(Opened(Top, Fns[Top.node.name].body))
          /\ UNCHANGED << out, steps, flow, val >>
     ELSE Stop

\* A call of a function opens a frame of its own.
Enter ==
  /\ Ready({"call"}) /\ Top.node.name \notin Builtins
  /\ IF Callable(Top.node.name, Top.vals) /\ depth < MaxDepth
     THEN /\ frames' = Append(frames, Arguments(Fns[Top.node.name], Top.vals))
          /\ depth' = depth + 1
          /\ stack' = With(Opened(Top, Fns[Top.node.name].body))
          /\ UNCHANGED << out, steps, flow, val >>
     ELSE Stop

Store(f) == frames' = InFrame(f) /\ stack' = Rest /\ UNCHANGED << depth, out, steps, flow, val >>

Let ==
  /\ Ready({"let", "assign"})
  /\ IF Top.node.op = "assign" /\ ~Bound(Frame, Top.node.name) THEN Stop
     ELSE Store(SetVar(Frame, Top.node.name, Top.vals[1]))

\* xs[i] = e: the index and the value are there; the list is as it is now.
SetIndex ==
  /\ Ready({"set"})
  /\ LET name == Top.node.name
         old == Get(Frame, name)
         u == IndexOf(Top.vals[1].n, Len(old.l))
     IN IF Bound(Frame, name) /\ old.kind = "list" /\ u # 0
        THEN Store(SetVar(Frame, name, List([old.l EXCEPT ![u] = Top.vals[2]])))
        ELSE Stop

PrintLine ==
  /\ Ready({"print"})
  /\ out' = Emit(out, Line(Top.vals)) /\ stack' = Rest
  /\ UNCHANGED << frames, depth, steps, flow, val >>

\* Functions have been collected before, and a value that nobody takes is gone.
Discard == Ready({"fn", "discard"}) /\ Become(Rest)

If == /\ Ready({"if"})
      /\ Become(With(Opened(Top, IF Truthy(Top.vals[1]) THEN Top.node.body ELSE Top.node.other)))

Again(n) == [Opened(Top, Top.node.body) EXCEPT !.vals = << Num(n) >>]
Repeat ==
  /\ Ready({"repeat"})
  /\ LET n == Top.vals[1]
     IN IF n.kind # "int" THEN Stop
        ELSE IF n.n <= 0 THEN Become(Rest)
        ELSE Become(With(Again(IF n.n < RepeatMax THEN n.n ELSE RepeatMax)))

\* Each pass of a while spends a step.
While ==
  /\ Ready({"while"})
  /\ IF Truthy(Top.vals[1]) THEN Spend(With(Opened(Top, Top.node.body))) ELSE Become(Rest)

Return ==
  /\ Ready({"return"})
  /\ flow' = "return" /\ val' = IF Top.vals = << >> THEN Num(0) ELSE Top.vals[1]
  /\ UNCHANGED << stack, frames, depth, out, steps >>

CloseFrame == frames' = Front(frames) /\ depth' = depth - 1

EndCall == /\ Over("call") /\ CloseFrame
           /\ stack' = Handed(Num(0)) /\ UNCHANGED << out, steps, flow, val >>

\* mutant: the rounds of an empty body are not counted
EndRoundUncounted ==
  /\ Over("repeat")
  /\ IF Top.vals[1].n > 1
     THEN Become(With(Again(IF Top.node.body = << >> THEN Top.vals[1].n ELSE Top.vals[1].n - 1)))
     ELSE Become(Rest)
EndRound ==
  /\ Over("repeat")
  /\ IF Top.vals[1].n > 1 THEN Become(With(Again(Top.vals[1].n - 1))) ELSE Become(Rest)

EndPass == Over("while") /\ Become(With([Top EXCEPT !.open = FALSE, !.vals = << >>]))
EndBranch == Over("if") /\ Become(Rest)

\* A return goes up to the call it is in, an error to the end; a call that is
\* left on the way closes its frame.
Unwind ==
  /\ pc = "run" /\ flow # "on" /\ Len(stack) > 1
  /\ IF Top.node.op = "call" /\ Top.open
     THEN /\ CloseFrame
          /\ IF flow = "return" THEN stack' = Handed(val) /\ flow' = "on"
             ELSE stack' = Rest /\ flow' = flow
     ELSE stack' = Rest /\ UNCHANGED << frames, depth, flow >>
  /\ UNCHANGED << out, steps, val >>

Step == /\ \/ Operand \/ Statement \/ Evaluate \/ Enter \/ Let \/ SetIndex \/ PrintLine \/ Discard
           \/ If \/ Repeat \/ While \/ Return \/ EndCall \/ EndRound \/ EndPass \/ EndBranch
           \/ Unwind
        /\ UNCHANGED << text, pc >>

\* The digest: of the output, or of the error that stopped the program.
End ==
  /\ \/ Over("program")
     \/ pc = "run" /\ flow # "on" /\ Len(stack) = 1
  /\ pc' = IF flow = "stop" THEN "failed" ELSE "ran"
  /\ stack' = << >>
  /\ UNCHANGED << text, frames, steps, depth, out, flow, val >>

Next == Begin \/ Step \/ End

Spec == Init /\ [][Next]_vars /\ WF_vars(Next)

---------------------------------------------------------------------------
(* Properties.                                                             *)

\* Depth counts the open frames, a step is never spent beyond the first that
\* is too many, and every value kept fits: integers in their 64 bits, lists
\* within MaxList at every level.
TypeOK ==
  /\ pc \in {"parse", "run", "refused", "ran", "failed"}
  /\ flow \in {"on", "return", "stop"}
  /\ depth \in 0..MaxDepth /\ Len(frames) = depth + 1
  /\ steps \in 0..(StepBudget + 1) /\ (steps > StepBudget => flow = "stop")
  /\ \A f \in ToSet(frames) : \A b \in ToSet(f) : b.value.fits
  /\ \A a \in ToSet(stack) : \A x \in ToSet(a.vals) : x.fits
  /\ pc \in {"ran", "failed"} => depth = 0

\* However much is printed, in whatever order of calls and loops, the digest
\* stays within its cap and the separator that may cross it.
OutputFits == Len(out) <= OutCap + 2

\* How deep eval and exec nest: in each of the calls MAX_DEPTH allows, no deeper
\* than the text is long, whatever the program does; no loop, return or error
\* leaves anything on the stack, however many steps are spent.  This bounds the
\* nesting of the two, not the firmware's stack: it grows with the text, and the
\* parser's own recursion and that of a value's show, clone, drop and == come on
\* top.
StackBounded == Len(stack) <= (MaxDepth + 1) * (Len(text) + 2)

\* What became of a frame while a statement ran that names the variables
\* in names: no other variable changed or came.
OnlyThese(names, before, after) ==
  /\ Len(before) <= Len(after)
  /\ \A i \in 1..Len(after) :
       after[i].name \notin names => i <= Len(before) /\ after[i] = before[i]

\* Evaluating an expression leaves every variable there is as it was, and a
\* statement changes only those it names itself: what they call works in frames
\* of its own, which are gone when it is over, also after an error or a return
\* from inside nested loops.
LocalsStayLocal ==
  \A a \in ToSet(stack) :
    /\ Len(a.kept) <= Len(frames)
    /\ \A i \in 1..Len(a.kept) :
         \/ frames[i] = a.kept[i]
         \/ i = Len(a.kept) /\ a.node.op \notin ExprOp
            /\ OnlyThese(a.node.binds, a.kept[i], frames[i])

\* "Never a hang": every program ends, within its budgets.
ProgramEnds == <>(pc \in {"refused", "ran", "failed"})
===============================================================================
