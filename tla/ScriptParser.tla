----------------------------- MODULE ScriptParser -----------------------------
(***************************************************************************)
(* The parser of mind/src/script.rs: recursive descent over tokens.  Its   *)
(* position is an argument, and its result the position after what it read *)
(* and the tree, or Fail.  A token is a string: an operator, a numeral, a  *)
(* literal in its quotes, or a name.                                       *)
(***************************************************************************)
EXTENDS ScriptValues, SequencesExt

Op == {"+", "-", "*", "/", "%", "==", "!=", "<", ">", "<=", ">=", "&&", "||", "!",
       "(", ")", "[", "]", "{", "}", "=", ",", ";"}

At(t, i) == IF i <= Len(t) THEN t[i] ELSE "end of text"
IsName(tok) == tok \notin Op \cup DOMAIN Numeral \cup DOMAIN Literal \cup {"end of text"}

\* A node over its expressions, blocks and, of a function, parameters.
Node(op, name, params, es, body, other) ==
  LET blocks == ToSet(body) \cup ToSet(other)
  IN [op |-> op, name |-> name, params |-> params, es |-> es, body |-> body, other |-> other,
      high |-> 1 + Max({0} \cup {t.high : t \in ToSet(es) \cup blocks}),
      binds |-> CASE op \in {"let", "assign", "set"} -> {name}
                  [] op = "fn" -> {}
                  [] OTHER -> UNION {t.binds : t \in blocks}]
Plain(op, name, es) == Node(op, name, << >>, es, << >>, << >>)

Fail == [ok |-> FALSE, i |-> 0, tree |-> << >>]
Read(i, tree) == [ok |-> TRUE, i |-> i, tree |-> tree]
Then(r, F(_)) == IF r.ok THEN F(r) ELSE Fail

\* The binary operators, loosest binding first.
Levels == << {"||"}, {"&&"}, {"==", "!="}, {"<", ">", "<=", ">="},
             {"+", "-"}, {"*", "/", "%"} >>
Bin(op, l, r) == Plain("bin", op, << l, r >>)

RECURSIVE Binary(_, _, _), Operands(_, _, _), Unary(_, _), Postfix(_, _), Primary(_, _),
          Exprs(_, _, _), Block(_, _, _), Stmt(_, _), Params(_, _, _)

Expr(t, i) == Binary(t, i, 1)

Binary(t, i, level) ==
  IF level > Len(Levels) THEN Unary(t, i)
  ELSE Operands(t, Binary(t, i, level + 1), level)

\* mutant: what follows the operator is parsed at its own level again
OperandsToTheRight(t, left, level) ==
  IF left.ok /\ At(t, left.i) \in Levels[level]
  THEN Then(Binary(t, left.i + 1, level),
            LAMBDA r : Read(r.i, Bin(At(t, left.i), left.tree, r.tree)))
  ELSE left

\* The loop of one level: operators of the level join to the left.
Operands(t, left, level) ==
  IF left.ok /\ At(t, left.i) \in Levels[level]
  THEN Operands(t, Then(Binary(t, left.i + 1, level + 1),
                        LAMBDA r : Read(r.i, Bin(At(t, left.i), left.tree, r.tree))), level)
  ELSE left

Unary(t, i) ==
  IF At(t, i) \in {"-", "!"}
  THEN Then(Unary(t, i + 1),
            LAMBDA r : Read(r.i, Plain("unary", At(t, i), << r.tree >>)))
  ELSE Postfix(t, Primary(t, i))

Expect(t, r, tok) == Then(r, LAMBDA s : IF At(t, s.i) = tok THEN Read(s.i + 1, s.tree) ELSE Fail)

Postfix(t, base) ==
  IF base.ok /\ At(t, base.i) = "["
  THEN Postfix(t, Then(Expect(t, Expr(t, base.i + 1), "]"),
                       LAMBDA r : Read(r.i, Plain("index", "", << base.tree, r.tree >>))))
  ELSE base

\* One or more expressions with commas between them, and a list up to its end.
Exprs(t, i, sofar) ==
  Then(Expr(t, i),
       LAMBDA r : IF At(t, r.i) = "," THEN Exprs(t, r.i + 1, Append(sofar, r.tree))
                  ELSE Read(r.i, Append(sofar, r.tree)))
Listed(t, i, close) ==
  IF At(t, i) = close THEN Read(i + 1, << >>) ELSE Expect(t, Exprs(t, i, << >>), close)

Primary(t, i) ==
  LET tok == At(t, i)
  IN IF tok \in DOMAIN Numeral \cup DOMAIN Literal
     THEN Read(i + 1, Plain("lit", tok, << >>))
     ELSE IF tok = "(" THEN Expect(t, Expr(t, i + 1), ")")
     ELSE IF tok = "["
     THEN Then(Listed(t, i + 1, "]"), LAMBDA r : Read(r.i, Plain("list", "", r.tree)))
     ELSE IF ~IsName(tok) THEN Fail
     ELSE IF At(t, i + 1) = "("
     THEN Then(Listed(t, i + 2, ")"),
               LAMBDA r : Read(r.i, Plain("call", tok, r.tree)))
     ELSE Read(i + 1, Plain("var", tok, << >>))

Braced(t, i) == IF At(t, i) = "{" THEN Expect(t, Block(t, i + 1, << >>), "}") ELSE Fail

Block(t, i, sofar) ==
  IF At(t, i) = ";" THEN Block(t, i + 1, sofar)
  ELSE IF At(t, i) \in {"}", "end of text"} THEN Read(i, sofar)
  ELSE Then(Stmt(t, i), LAMBDA r : Block(t, r.i, Append(sofar, r.tree)))

\* let, and an assignment, from the name on.
Binding(t, i, op) ==
  IF IsName(At(t, i)) /\ At(t, i + 1) = "="
  THEN Then(Expr(t, i + 2), LAMBDA r : Read(r.i, Plain(op, At(t, i), << r.tree >>)))
  ELSE Fail

Loop(t, i) ==
  Then(Expr(t, i + 1),
       LAMBDA c : Then(Braced(t, c.i),
                       LAMBDA r : Read(r.i, Node(At(t, i), "", << >>, << c.tree >>, r.tree, << >>))))

Otherwise(t, i) ==
  IF At(t, i) # "else" THEN Read(i, << >>)
  ELSE IF At(t, i + 1) = "if" THEN Then(Stmt(t, i + 1), LAMBDA r : Read(r.i, << r.tree >>))
  ELSE Braced(t, i + 1)

IfStmt(t, i) ==
  Then(Expr(t, i + 1),
       LAMBDA c : Then(Braced(t, c.i),
         LAMBDA b : Then(Otherwise(t, b.i),
           LAMBDA r : Read(r.i, Node("if", "", << >>, << c.tree >>, b.tree, r.tree)))))

\* The names of the parameters, up to the closing parenthesis.
Params(t, i, sofar) ==
  IF ~IsName(At(t, i)) THEN Fail
  ELSE IF At(t, i + 1) = "," THEN Params(t, i + 2, Append(sofar, At(t, i)))
  ELSE Expect(t, Read(i + 1, Append(sofar, At(t, i))), ")")

FnStmt(t, i) ==
  IF ~(IsName(At(t, i + 1)) /\ At(t, i + 2) = "(") THEN Fail
  ELSE Then(IF At(t, i + 3) = ")" THEN Read(i + 4, << >>) ELSE Params(t, i + 3, << >>),
            LAMBDA p : Then(Braced(t, p.i),
                            LAMBDA r : Read(r.i, Node("fn", At(t, i + 1), p.tree, << >>, r.tree, << >>))))

ReturnStmt(t, i) ==
  IF At(t, i + 1) \in {";", "}", "end of text"} THEN Read(i + 1, Plain("return", "", << >>))
  ELSE Then(Expr(t, i + 1), LAMBDA r : Read(r.i, Plain("return", "", << r.tree >>)))

\* An assignment, an indexed write, or an expression for its own sake.  If what
\* looks like an indexed write is none, it is parsed again as an expression.
Bare(t, i) ==
  LET at == Expect(t, Expr(t, i + 2), "]")
  IN IF At(t, i + 1) = "=" THEN Binding(t, i, "assign")
     ELSE IF At(t, i + 1) = "[" /\ at.ok /\ At(t, at.i) = "="
     THEN Then(Expr(t, at.i + 1),
               LAMBDA r : Read(r.i, Plain("set", At(t, i), << at.tree, r.tree >>)))
     ELSE Then(Expr(t, i), LAMBDA r : Read(r.i, Plain("discard", "", << r.tree >>)))

Stmt(t, i) ==
  LET kw == At(t, i)
  IN CASE ~IsName(kw) -> Fail
       [] kw = "let" -> Binding(t, i + 1, "let")
       [] kw = "print" ->
            Then(Exprs(t, i + 1, << >>), LAMBDA r : Read(r.i, Plain("print", "", r.tree)))
       [] kw \in {"repeat", "while"} -> Loop(t, i)
       [] kw = "if" -> IfStmt(t, i)
       [] kw = "fn" -> FnStmt(t, i)
       [] kw = "return" -> ReturnStmt(t, i)
       [] OTHER -> Bare(t, i)

\* A program is a block up to the end of the text.
Parse(t) ==
  Then(Block(t, 1, << >>), LAMBDA r : IF At(t, r.i) = "end of text" THEN r ELSE Fail)

RECURSIVE Hoist(_, _)
\* mutant: functions are collected only up to the first other statement
HoistLeading(fns, body) ==
  LET Leading(i) == \A j \in 1..i : body[j].op = "fn"
      Add(acc, i) == IF Leading(i) THEN (body[i].name :> body[i]) @@ acc ELSE acc
  IN FoldLeftDomain(Add, fns, body)
\* The functions of a body, those inside functions first; a later one of the
\* same name takes the place of an earlier one.
Hoist(fns, body) ==
  FoldLeft(LAMBDA acc, s : IF s.op = "fn" THEN (s.name :> s) @@ Hoist(acc, s.body) ELSE acc,
           fns, body)

\* What a text is made into before it runs; one without a statement is refused.
Load(t) ==
  LET block == Parse(t)
  IN [ok |-> block.ok /\ block.tree # << >>,
      root |-> Node("program", "", << >>, << >>, block.tree, << >>),
      fns |-> Hoist(<< >>, block.tree)]
===============================================================================
