------------------------------- MODULE MCScript -------------------------------
(* Programs of up to three of the snippets below, and chains of operators.   *)
EXTENDS ScriptReference

Numerals == [n \in {"0", "1", "2", "9"} |->
                 CASE n = "0" -> 0 [] n = "1" -> 1 [] n = "2" -> 2 [] OTHER -> 9]
Literals == ("'ab'" :> << 97, 98 >>) @@ ("'A'" :> << 65 >>)

Snippets == {
  << "let", "x", "=", "1" >>,
  << "let", "x", "=", "[", "1", ",", "'ab'", "]" >>,
  << "let", "x", "=", "push", "(", "x", ",", "x", ")" >>,
  << "let", "x", "=", "x", "+", "x" >>,
  << "let", "x", "=", "-", "x", "-", "9" >>,
  << "x", "[", "-", "1", "]", "=", "x" >>,
  << "print", "x", ",", "str", "(", "x", ")" >>,
  << "repeat", "2", "{", "x", "=", "x", "*", "2", ";", "print", "x", "}" >>,
  << "while", "x", "<", "9", "{", "x", "=", "x", "+", "2", "+", "2", "}" >>,
  << "if", "x", "==", "1", "{", "print", "f", "(", "x", ")", "}", "else", "{", "print", "'ab'", "}" >>,
  << "fn", "f", "(", "x", ")", "{", "let", "y", "=", "x", "-", "1", ";",
     "if", "x", "<=", "1", "{", "return", "y", "}", "return", "f", "(", "y", ")", "}" >>,
  << "x", "=", "f", "(", "x", ")" >>,
  << "fn", "g", "(", ")", "{", "return", "g", "(", ")", "}" >>,
  << "g", "(", ")" >>,
  << "fn", "h", "(", ")", "{", "repeat", "2", "{", "while", "1", "{",
     "let", "x", "=", "9", ";", "return", "x", "}", "}", "}" >>,
  << "print", "upper", "(", "x", ")", ",", "len", "(", "'ab'", ")" >>,
  << "if", "contains", "(", "x", ",", "'A'", ")", "||", "h", "(", ")", "{", "return", "}" >>,
  << "let", "y", "=", "lower", "(", "'A'", ")", "+", "h", "(", ")" >>,
  << "print", "9", "/", "-", "2", ",", "!", "x", "!=", "9", "%", "2" >>,
  << "x", "[", "0", "]", "[", "1", "]" >>,
  << "let", "y", "=", "x", "[", "1", "]" >>,
  << "repeat", "2", "{", "}" >> }

Operators == {"||", "&&", "==", "<", "+", "-", "*", "%"}

Lets == {s \in Snippets : s[1] = "let" /\ s[2] = "x"}
Texts ==
  {a \o << ";" >> \o b : a \in Snippets, b \in Snippets}
  \cup {a \o << ";" >> \o b \o << ";" >> \o c : a \in Lets, b \in Snippets, c \in Snippets}
  \cup {<< "print", "1", p, "2", q, "9", r, "1" >> : p \in Operators, q \in Operators, r \in Operators}
  \cup {<< >>, << "let" >>, << "}" >>, << "x" >>, << "return" >>}

Loaded == [t \in Texts |-> Load(t)]

RECURSIVE Under(_)
Under(t) == {t} \cup UNION {Under(u) : u \in ToSet(t.es) \cup ToSet(t.body) \cup ToSet(t.other)}
Trees ==
  LET roots == {p.root : p \in {q \in {Load(t) : t \in Texts} : q.ok}}
  IN roots \cup UNION {Under(s) : s \in UNION {ToSet(root.body) : root \in roots}}

\* TLC evaluates Numerals, Loaded and the like once, what a .cfg names each time.
NumeralDef == Numerals
LiteralDef == Literals
ProgramDef == Loaded
TreeDef == Trees
===============================================================================
