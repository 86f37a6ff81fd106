----------------------------- MODULE ConsoleProofs -----------------------------
(***************************************************************************)
(* Theorems about module Console, for every size of the screen, every      *)
(* length of a line and any sequence of keys, speech and status lines.     *)
(***************************************************************************)
EXTENDS Console, SelectionProofs

Column == 0..(Cols - 1)
Row == 0..(Rows - 1)
Glyph == Char \cup {" ", "p", "t", "s"}
Code == Glyph \cup {"newline", "return"}
Screen == [Row -> [Column -> Glyph]]
Display == [screen : Screen, at : [col : Column, row : Row]]

\* A line is edited at the prompt, and its row stands as the editor left it.
AtPrompt == active => startCol = Prompt

\* The inductive invariant.
IInv == TypeOK /\ AtPrompt /\ CaretVisible /\ RowShowsLine
--------------------------------------------------------------------------------
(***************************************************************************)
(* The sizes, and the window of a line at the prompt: all but the last     *)
(* column behind it.                                                       *)
(***************************************************************************)
LEMMA Sizes ==
  /\ Cols \in Nat \ {0} /\ Rows \in Nat \ {0} /\ MinWindow \in Nat \ {0} /\ MaxLen \in Nat \ {0}
  /\ Prompt \in Column /\ MaxSaid \in Nat /\ Prompt + 1 + MinWindow <= Cols
  BY ConsoleAssumption DEF Column

\* The greater and the smaller of two numbers.
LEMMA MaxMin ==
  ASSUME NEW a \in Int, NEW b \in Int
  PROVE  /\ Max({a, b}) = IF a >= b THEN a ELSE b
         /\ Min({a, b}) = IF a <= b THEN a ELSE b
<1>1. Max({a, b}) \in {a, b} /\ \A y \in {a, b} : Max({a, b}) >= y
  <2>1. \E x \in {a, b} : \A y \in {a, b} : x >= y
    OBVIOUS
  <2> QED BY <2>1, Zenon DEF Max
<1>2. Min({a, b}) \in {a, b} /\ \A y \in {a, b} : Min({a, b}) <= y
  <2>1. \E x \in {a, b} : \A y \in {a, b} : x <= y
    OBVIOUS
  <2> QED BY <2>1, Zenon DEF Min
<1> QED BY <1>1, <1>2

\* The window is never its minimum there.
LEMMA WindowAtPrompt ==
  /\ Window(Prompt) = Cols - Prompt - 1 /\ Window(Prompt) \in Nat \ {0}
<1>1. Cols - (Prompt + 1) >= MinWindow /\ Cols - (Prompt + 1) \in Int /\ MinWindow \in Int
  BY Sizes DEF Column
<1>2. Window(Prompt) = Cols - (Prompt + 1)
  BY <1>1, MaxMin DEF Window
<1> QED BY <1>1, <1>2, Sizes DEF Column

(***************************************************************************)
(* The window ends up where the caret is in it.                            *)
(***************************************************************************)
LEMMA CaretInWindow ==
  ASSUME NEW c \in Nat, NEW o \in Nat, NEW w \in Nat \ {0}
  PROVE  /\ Rescroll(c, o, w) \in 0..c /\ c < Rescroll(c, o, w) + w
  BY DEF Rescroll

--------------------------------------------------------------------------------
(***************************************************************************)
(* What is written to a display is a display.                              *)
(***************************************************************************)
LEMMA NewLineType ==
  ASSUME NEW d \in [screen : Screen, at : [col : 0..Cols, row : Row]]
  PROVE  NewLine(d) \in Display
<1>1. d.screen \in Screen /\ d.at.row \in Row
  OBVIOUS
<1>2. CASE d.at.row + 1 < Rows
  <2>1. d.at.row + 1 \in Row /\ 0 \in Column
    BY <1>1, <1>2, Sizes DEF Row, Column
  <2>2. NewLine(d) = [d EXCEPT !.at = [col |-> 0, row |-> d.at.row + 1]]
    BY <1>2 DEF NewLine
  <2> QED BY <1>1, <2>1, <2>2 DEF Display
<1>3. CASE ~(d.at.row + 1 < Rows)
  <2>1. [r \in Row |-> IF r + 1 < Rows THEN d.screen[r + 1] ELSE Blank] \in Screen
    <3>1. ASSUME NEW r \in Row, r + 1 < Rows PROVE d.screen[r + 1] \in [Column -> Glyph]
      <4>1. r + 1 \in Row
        BY <3>1, Sizes DEF Row
      <4> QED BY <1>1, <4>1 DEF Screen
    <3>2. Blank \in [Column -> Glyph]
      BY DEF Blank, Column, Glyph
    <3> QED BY <3>1, <3>2 DEF Screen
  <2>2. 0 \in Column
    BY Sizes DEF Column
  <2>3. NewLine(d) = [screen |-> [r \in Row |-> IF r + 1 < Rows THEN d.screen[r + 1] ELSE Blank],
                      at |-> [col |-> 0, row |-> d.at.row]]
    BY <1>3 DEF NewLine, Row
  <2> QED BY <1>1, <2>1, <2>2, <2>3 DEF Display
<1> QED BY <1>2, <1>3

\* A glyph changes the place of the cursor, which moves on.
IsShown(h, d, c) ==
  /\ h \in [screen : Screen, at : [col : 0..Cols, row : Row]]
  /\ h.at = [col |-> d.at.col + 1, row |-> d.at.row]
  /\ \A r \in Row : r # d.at.row => h.screen[r] = d.screen[r]
  /\ \A k \in Column : h.screen[d.at.row][k] = IF k = d.at.col THEN c ELSE d.screen[d.at.row][k]

\* So does Shown.
LEMMA ShownType ==
  ASSUME NEW d \in Display, NEW c \in Glyph
  PROVE  IsShown(Shown(d, c), d, c)
<1>1. d.screen \in Screen /\ d.at \in [col : Column, row : Row]
  BY DEF Display
<1>2. d.at.col + 1 \in 0..Cols
  BY <1>1, Sizes DEF Column
<1>3. Shown(d, c).screen = [d.screen EXCEPT ![d.at.row][d.at.col] = c]
  BY DEF Shown, Display
<1>4. Shown(d, c).at = [d.at EXCEPT !.col = @ + 1]
  BY DEF Shown, Display
<1>5. Shown(d, c).screen \in Screen
  BY <1>1, <1>3 DEF Screen
<1>6. Shown(d, c).at = [col |-> d.at.col + 1, row |-> d.at.row]
  BY <1>1, <1>4
<1>7. Shown(d, c) = [screen |-> Shown(d, c).screen, at |-> Shown(d, c).at]
  BY DEF Shown
<1> QED BY <1>1, <1>2, <1>3, <1>5, <1>6, <1>7 DEF Screen, IsShown

\* What is put on a display leaves a display; a new line moves on, and a
\* glyph before the last column is shown.
LEMMA PutType ==
  ASSUME NEW d \in Display, NEW c \in Code
  PROVE  /\ Put(d, c) \in Display
         /\ c = "newline" => Put(d, c) = NewLine(d)
         /\ c \in Glyph /\ d.at.col + 1 < Cols => Put(d, c) = Shown(d, c)
<1>1. CASE c = "newline"
  <2>1. Put(d, c) = NewLine(d) /\ c \notin Glyph
    BY <1>1, ConsoleAssumption DEF Put, Glyph
  <2>2. d \in [screen : Screen, at : [col : 0..Cols, row : Row]]
    BY Sizes DEF Display, Column
  <2> QED BY <2>1, <2>2, NewLineType
<1>2. CASE c = "return"
  <2>1. Put(d, c) = [d EXCEPT !.at.col = 0] /\ c \notin Glyph
    BY <1>2, ConsoleAssumption DEF Put, Glyph
  <2>2. 0 \in Column
    BY Sizes DEF Column
  <2> QED BY <1>2, <2>1, <2>2 DEF Display
<1>3. CASE c \in Glyph
  <2>1. c # "newline" /\ c # "return"
    BY <1>3, ConsoleAssumption DEF Glyph
  <2>2. Put(d, c) = IF d.at.col + 1 < Cols THEN Shown(d, c) ELSE NewLine(Shown(d, c))
    BY <2>1 DEF Put
  <2>3. CASE d.at.col + 1 < Cols
    <3>1. d.at.col + 1 \in Column
      BY <2>3, Sizes DEF Display, Column
    <3>2. PICK e : e = Shown(d, c)
      OBVIOUS
    <3>3. /\ e \in [screen : Screen, at : [col : 0..Cols, row : Row]]
          /\ e.at = [col |-> d.at.col + 1, row |-> d.at.row]
      BY <1>3, <3>2, ShownType DEF IsShown
    <3>4. e \in Display
      BY <3>1, <3>3 DEF Display
    <3> QED BY <2>1, <2>2, <2>3, <3>2, <3>4
  <2>4. CASE ~(d.at.col + 1 < Cols)
    <3>1. NewLine(Shown(d, c)) \in Display
      BY <1>3, ShownType, NewLineType DEF IsShown
    <3> QED BY <2>1, <2>2, <2>4, <3>1
  <2> QED BY <2>3, <2>4
<1> QED BY <1>1, <1>2, <1>3 DEF Code
--------------------------------------------------------------------------------
(***************************************************************************)
(* Writing nothing leaves the display, and one more character is put after *)
(* the others.                                                             *)
(***************************************************************************)
Writes(d, text, f) == f[0] = d /\ \A i \in 1..Len(text) : f[i] = Put(f[i - 1], text[i])

\* Write is what a function with that recursion has at the length of the text.
LEMMA WriteRecursion ==
  ASSUME NEW d \in Display, NEW text \in Seq(Code)
  PROVE  \E f \in [0..Len(text) -> Display] : Writes(d, text, f) /\ Write(d, text) = f[Len(text)]
<1>1. PICK n \in Nat : n = Len(text)
  BY LenProperties
<1>2. \A i \in 1..n : text[i] \in Code
  BY <1>1, ElementOfSeq
<1> DEFINE step == [i \in 1..n |-> [e \in Display |-> Put(e, text[i])]]
<1>3. /\ step \in [1..n -> [Display -> Display]]
      /\ \A i \in 1..n, e \in Display : step[i][e] = Put(e, text[i])
  BY <1>2, PutType
<1> HIDE DEF step
<1>4. PICK f \in [0..n -> Display] : f[0] = d /\ \A i \in 1..n : f[i] = step[i][f[i - 1]]
  <2>1. \E f \in [0..n -> Display] : Obeys(f, n, d, step)
    BY <1>1, <1>3, Recursion
  <2> QED BY <2>1 DEF Obeys
<1> DEFINE E(g, i) == IF i = 0 THEN d ELSE Put(g[i - 1], text[i])
           F(g) == [i \in 0..n |-> E(g, i)]
           after == CHOOSE g : g = F(g)
<1>5. f = F(f)
  <2>1. ASSUME NEW i \in 0..n PROVE f[i] = E(f, i)
    <3>1. CASE i = 0
      BY <1>4, <3>1
    <3>2. CASE i # 0
      <4>1. i \in 1..n /\ f[i - 1] \in Display
        BY <1>1, <1>4, <3>2
      <4> QED BY <1>3, <1>4, <3>2, <4>1
    <3> QED BY <3>1, <3>2
  <2> HIDE DEF E
  <2> QED BY <1>4, <2>1
<1>6. after = F(after)
  <2> HIDE DEF F
  <2> QED BY <1>5, Zenon
<1>7. Write(d, text) = after[n]
  BY <1>1, Zenon DEF Write
<1> HIDE DEF after
<1>8. \A i \in 0..n : after[i] = E(after, i)
  <2> HIDE DEF E
  <2> QED BY <1>6, Zenon
<1>9. after[0] = d /\ \A i \in 1..n : after[i] = Put(after[i - 1], text[i])
  <2>1. \A i \in 1..n : i \in 0..n /\ i # 0
    OBVIOUS
  <2> QED BY <1>1, <1>8, <2>1
<1>10. after \in [0..n -> Display]
  <2>1. after = [i \in 0..n |-> after[i]]
    <3> HIDE DEF E
    <3> QED BY <1>6, <1>8
  <2> DEFINE G == {i \in 0..n : after[i] \in Display}
  <2>2. 0 \in G /\ \A i \in 1..n : i - 1 \in G => i \in G
    BY <1>1, <1>2, <1>9, PutType
  <2>3. 0..n \subseteq G
    <3> HIDE DEF G
    <3> QED BY <1>1, <2>2, UpTo
  <2> QED BY <2>1, <2>3
<1> QED BY <1>1, <1>7, <1>9, <1>10 DEF Writes

\* Whatever is written leaves a display.
LEMMA WriteType ==
  ASSUME NEW d \in Display, NEW text \in Seq(Code) PROVE Write(d, text) \in Display
<1>1. PICK f \in [0..Len(text) -> Display] : Writes(d, text, f) /\ Write(d, text) = f[Len(text)]
  BY WriteRecursion
<1> QED BY <1>1, LenProperties

\* Nothing written changes nothing.
LEMMA WriteEmpty == ASSUME NEW d \in Display PROVE Write(d, <<>>) = d
<1>1. <<>> \in Seq(Code) /\ Len(<<>>) = 0
  BY EmptySeq
<1>2. PICK f \in [0..Len(<<>>) -> Display] : Writes(d, <<>>, f) /\ Write(d, <<>>) = f[Len(<<>>)]
  BY <1>1, WriteRecursion
<1> QED BY <1>1, <1>2 DEF Writes

\* One more character is put after the others.
LEMMA WriteAppend ==
  ASSUME NEW d \in Display, NEW text \in Seq(Code), NEW c \in Code
  PROVE  Write(d, Append(text, c)) = Put(Write(d, text), c)
<1>1. PICK n \in Nat : n = Len(text)
  BY LenProperties
<1>2. /\ Append(text, c) \in Seq(Code) /\ Len(Append(text, c)) = n + 1
      /\ Append(text, c)[n + 1] = c /\ \A i \in 1..n : Append(text, c)[i] = text[i]
  BY <1>1, AppendProperties
<1>3. PICK f \in [0..n -> Display] : Writes(d, text, f) /\ Write(d, text) = f[n]
  BY <1>1, WriteRecursion
<1>4. PICK g \in [0..(n + 1) -> Display] :
        Writes(d, Append(text, c), g) /\ Write(d, Append(text, c)) = g[n + 1]
  BY <1>2, WriteRecursion
<1>5. f[0] = d /\ \A i \in 1..n : f[i] = Put(f[i - 1], text[i])
  BY <1>1, <1>3 DEF Writes
<1>6. g[0] = d /\ \A i \in 1..(n + 1) : g[i] = Put(g[i - 1], Append(text, c)[i])
  BY <1>2, <1>4 DEF Writes
<1> DEFINE G == {i \in 0..n : f[i] = g[i]}
<1>7. 0 \in G /\ \A i \in 1..n : i - 1 \in G => i \in G
  <2>1. ASSUME NEW i \in 1..n, i - 1 \in G PROVE i \in G
    <3>1. i \in 1..(n + 1) /\ f[i - 1] = g[i - 1]
      BY <2>1
    <3> QED BY <1>2, <1>5, <1>6, <3>1
  <2> QED BY <1>5, <1>6, <2>1
<1>8. 0..n \subseteq G
  <2> HIDE DEF G
  <2> QED BY <1>1, <1>7, UpTo
<1>9. f[n] = g[n]
  BY <1>1, <1>8
<1>10. n + 1 \in 1..(n + 1) /\ n + 1 - 1 = n
  BY <1>1
<1>11. g[n + 1] = Put(g[n], c)
  BY <1>2, <1>6, <1>10
<1> QED BY <1>3, <1>4, <1>9, <1>11

(***************************************************************************)
(* Glyphs that stay on the cursor's row stand there one after the other,   *)
(* the cursor is behind them, and nothing else has changed.                *)
(***************************************************************************)
Written(e, d, text) ==
  /\ e \in Display
  /\ e.at = [col |-> d.at.col + Len(text), row |-> d.at.row]
  /\ \A r \in Row : r # d.at.row => e.screen[r] = d.screen[r]
  /\ \A k \in Column : e.screen[d.at.row][k] =
       IF k \in d.at.col..(d.at.col + Len(text) - 1) THEN text[k - d.at.col + 1]
       ELSE d.screen[d.at.row][k]

\* What Write leaves on a row that the text does not fill.
LEMMA WriteRow ==
  ASSUME NEW d \in Display, NEW text \in Seq(Glyph), d.at.col + Len(text) < Cols
  PROVE  Written(Write(d, text), d, text)
<1>1. PICK a \in Column, q \in Row : a = d.at.col /\ q = d.at.row
  BY DEF Display
<1>2. a \in Nat /\ a < Cols /\ Cols \in Nat /\ Column = 0..(Cols - 1)
  BY <1>1, Sizes DEF Column
<1> DEFINE G == {t \in Seq(Glyph) : a + Len(t) < Cols => Written(Write(d, t), d, t)}
<1>3. <<>> \in G
  <2>1. Write(d, <<>>) = d /\ Len(<<>>) = 0 /\ <<>> \in Seq(Glyph)
    BY WriteEmpty, EmptySeq
  <2>2. d.at = [col |-> a + 0, row |-> q] /\ \A k \in Column : k \notin a..(a + 0 - 1)
    <3>1. a + 0 = a /\ \A k \in Column : k \notin a..(a + 0 - 1)
      BY <1>2
    <3>2. d.at = [col |-> a, row |-> q]
      BY <1>1 DEF Display
    <3> QED BY <3>1, <3>2
  <2>3. Written(d, d, <<>>)
    BY <1>1, <2>1, <2>2 DEF Written
  <2> QED BY <2>1, <2>3
<1>4. ASSUME NEW t \in Seq(Glyph), NEW c \in Glyph, t \in G PROVE Append(t, c) \in G
  <2>1. PICK n \in Nat : n = Len(t)
    BY LenProperties
  <2>2. PICK tc \in Seq(Glyph) :
          /\ tc = Append(t, c) /\ Len(tc) = n + 1 /\ tc[n + 1] = c
          /\ \A i \in 1..n : tc[i] = t[i]
    <3>1. PICK tc : tc = Append(t, c)
      OBVIOUS
    <3>2. /\ tc \in Seq(Glyph) /\ Len(tc) = n + 1 /\ tc[n + 1] = c
          /\ \A i \in 1..n : tc[i] = t[i]
      BY <2>1, <3>1, AppendProperties
    <3> QED BY <3>1, <3>2
  <2>3. SUFFICES ASSUME a + (n + 1) < Cols PROVE Written(Write(d, tc), d, tc)
    BY <2>2
  <2>4. a + n < Cols /\ a + n + 1 < Cols /\ a + n \in Column
    BY <1>2, <2>1, <2>3
  <2>5. PICK e : e = Write(d, t) /\ Written(e, d, t)
    BY <1>1, <1>4, <2>1, <2>4
  <2>6. /\ e \in Display /\ e.at = [col |-> a + n, row |-> q]
        /\ \A r \in Row : r # q => e.screen[r] = d.screen[r]
        /\ \A k \in Column : e.screen[q][k] =
             IF k \in a..(a + n - 1) THEN t[k - a + 1] ELSE d.screen[q][k]
    BY <1>1, <2>1, <2>5 DEF Written
  <2>7. t \in Seq(Code) /\ c \in Code
    BY SeqMonotonic DEF Code
  <2>8. Write(d, tc) = Put(e, c)
    BY <2>2, <2>5, <2>7, WriteAppend
  <2>9. PICK h : h = Shown(e, c) /\ h = Put(e, c) /\ h \in Display
    BY <2>4, <2>6, <2>7, PutType
  <2>10. /\ h.at = [col |-> a + n + 1, row |-> q]
         /\ \A r \in Row : r # q => h.screen[r] = e.screen[r]
         /\ \A k \in Column : h.screen[q][k] = IF k = a + n THEN c ELSE e.screen[q][k]
    <3>1. e.at.col = a + n /\ e.at.row = q /\ a + n \in Int
      BY <1>1, <2>1, <2>6, Sizes DEF Column
    <3>2. IsShown(h, e, c)
      BY <2>6, <2>9, ShownType
    <3> QED BY <3>1, <3>2 DEF IsShown
  <2>11. ASSUME NEW k \in Column
         PROVE  h.screen[q][k] = IF k \in a..(a + (n + 1) - 1) THEN tc[k - a + 1] ELSE d.screen[q][k]
    <3>1. CASE k = a + n
      <4>1. k \in a..(a + (n + 1) - 1) /\ k - a + 1 = n + 1
        BY <1>2, <2>1, <3>1
      <4> QED BY <2>2, <2>10, <3>1, <4>1
    <3>2. CASE k \in a..(a + n - 1)
      <4>1. k # a + n /\ k \in a..(a + (n + 1) - 1) /\ k - a + 1 \in 1..n
        BY <1>2, <2>1, <3>2
      <4> QED BY <2>2, <2>6, <2>10, <3>2, <4>1
    <3>3. CASE k # a + n /\ k \notin a..(a + n - 1)
      <4>1. k \notin a..(a + (n + 1) - 1)
        <5>1. PICK j \in Nat, last \in Int : j = k /\ last = a + n
          BY <1>2, <2>1
        <5>2. a + (n + 1) - 1 = last /\ a + n - 1 = last - 1
          BY <1>2, <2>1, <5>1
        <5>3. j # last /\ ~(a <= j /\ j <= last - 1)
          BY <1>2, <3>3, <5>1, <5>2
        <5>4. ~(a <= j /\ j <= last)
          BY <5>1, <5>3
        <5> QED BY <5>1, <5>2, <5>4
      <4> QED BY <2>6, <2>10, <3>3, <4>1
    <3> QED BY <3>1, <3>2, <3>3
  <2>12. h.at = [col |-> a + (n + 1), row |-> q]
    <3>1. a + n + 1 = a + (n + 1)
      <4>1. a \in Nat /\ n \in Nat
        BY <1>1, <2>1, Sizes DEF Column
      <4> QED BY <4>1
    <3> QED BY <2>10, <3>1
  <2>13. \A r \in Row : r # q => h.screen[r] = d.screen[r]
    BY <2>6, <2>10
  <2>14. Written(h, d, tc)
    BY <1>1, <2>2, <2>9, <2>11, <2>12, <2>13 DEF Written
  <2> QED BY <2>8, <2>9, <2>14
<1>5. Seq(Glyph) \subseteq G
  <2> HIDE DEF G
  <2> QED BY <1>3, <1>4, SequencesByAppending
<1> QED BY <1>1, <1>5
--------------------------------------------------------------------------------
(***************************************************************************)
(* What is redrawn: as many glyphs as the window has columns, the line     *)
(* from its offset on and then blanks.                                     *)
(***************************************************************************)
Fills(text, b, o, w) ==
  /\ text \in Seq(Glyph) /\ Len(text) = w
  /\ \A i \in 0..(w - 1) : text[i + 1] = IF o + i < Len(b) THEN b[o + i + 1] ELSE " "

Filling(b, o, w) ==
  SubSeq(b, o + 1, Min({o + w, Len(b)}))
    \o Repeat(" ", w - Len(SubSeq(b, o + 1, Min({o + w, Len(b)}))))

\* A glyph repeated, as the prompt and the blanks behind a line are.
LEMMA Repeated ==
  ASSUME NEW g \in Glyph, NEW n \in Nat
  PROVE  /\ Repeat(g, n) \in Seq(Glyph) /\ Len(Repeat(g, n)) = n
         /\ \A i \in 1..n : Repeat(g, n)[i] = g
<1>1. Repeat(g, n) = [i \in 1..n |-> g]
  BY DEF Repeat
<1>2. PICK f \in [1..n -> Glyph] : f = [i \in 1..n |-> g]
  OBVIOUS
<1>3. f \in Seq(Glyph) /\ Len(f) = n
  <2>1. f = [i \in 1..n |-> f[i]] /\ \A i \in 1..n : f[i] \in Glyph
    BY <1>2
  <2> QED BY <2>1, IsASeq
<1> QED BY <1>1, <1>2, <1>3

\* The visible part of the line and the blanks behind it fill the window.
LEMMA FillingFills ==
  ASSUME NEW b \in Seq(Char), NEW o \in Nat, o <= Len(b), NEW w \in Nat
  PROVE  Fills(Filling(b, o, w), b, o, w)
<1>1. PICK n \in Nat : n = Len(b)
  BY LenProperties
<1>2. PICK e \in o..n : e = Min({o + w, Len(b)}) /\ e <= o + w /\ (e = n \/ e = o + w)
  <2>1. PICK m \in Int : m = o + w
    OBVIOUS
  <2>2. Min({m, n}) = IF m <= n THEN m ELSE n
    <3>1. n \in Int /\ m \in Int
      BY <1>1, <2>1
    <3> QED BY <3>1, MaxMin
  <2>3. o <= n /\ o <= m
    BY <1>1, <2>1
  <2> QED BY <1>1, <2>1, <2>2, <2>3
<1>3. PICK v : v = SubSeq(b, o + 1, e)
  OBVIOUS
<1>4. v \in Seq(Char) /\ Len(v) = e - o /\ \A i \in 1..(e - o) : v[i] = b[o + i]
  <2>1. \A i \in (o + 1)..e : b[i] \in Char
    BY <1>1, <1>2, ElementOfSeq
  <2>2. /\ v \in Seq(Char) /\ Len(v) = (IF o + 1 <= e THEN e - (o + 1) + 1 ELSE 0)
        /\ \A i \in 1..(e - (o + 1) + 1) : v[i] = b[o + 1 + i - 1]
    <3>1. e \in Int /\ o + 1 \in Int
      BY <1>1, <1>2
    <3> QED BY <1>3, <2>1, <3>1, SubSeqProperties
  <2>3. e \in Nat /\ e - (o + 1) + 1 = e - o /\ (IF o + 1 <= e THEN e - (o + 1) + 1 ELSE 0) = e - o
    BY <1>1, <1>2
  <2>4. \A i \in 1..(e - o) : o + 1 + i - 1 = o + i
    OBVIOUS
  <2> QED BY <2>2, <2>3, <2>4
<1>5. v \in Seq(Glyph)
  BY <1>4, SeqMonotonic DEF Glyph
<1>6. PICK k \in Nat : k = w - (e - o)
  BY <1>1, <1>2
<1>7. PICK pad \in Seq(Glyph) : pad = Repeat(" ", k) /\ Len(pad) = k /\ \A i \in 1..k : pad[i] = " "
  <2>1. " " \in Glyph
    BY DEF Glyph
  <2>2. /\ Repeat(" ", k) \in Seq(Glyph) /\ Len(Repeat(" ", k)) = k
        /\ \A i \in 1..k : Repeat(" ", k)[i] = " "
    BY <1>6, <2>1, Repeated
  <2> QED BY <2>2
<1>8. Filling(b, o, w) = v \o pad
  BY <1>2, <1>3, <1>4, <1>6, <1>7 DEF Filling
<1>9. PICK text : text = v \o pad
  OBVIOUS
<1>10. /\ text \in Seq(Glyph) /\ Len(text) = w
       /\ \A i \in 1..w : text[i] = IF i <= e - o THEN v[i] ELSE pad[i - (e - o)]
  <2>1. PICK m \in Nat : m = e - o
    BY <1>1, <1>2
  <2>2. Len(v) = m /\ Len(pad) = k
    BY <1>4, <1>7, <2>1
  <2>3. /\ text \in Seq(Glyph) /\ Len(text) = Len(v) + Len(pad)
        /\ \A i \in 1..Len(v) + Len(pad) : text[i] = IF i <= Len(v) THEN v[i] ELSE pad[i - Len(v)]
    <3>1. v \in Seq(Glyph) /\ pad \in Seq(Glyph)
      BY <1>5, <1>7
    <3>2. /\ v \o pad \in Seq(Glyph) /\ Len(v \o pad) = Len(v) + Len(pad)
          /\ \A i \in 1..Len(v) + Len(pad) : (v \o pad)[i] = IF i <= Len(v) THEN v[i] ELSE pad[i - Len(v)]
      BY <3>1, ConcatProperties
    <3> QED BY <1>9, <3>2
  <2>4. m + k = w
    BY <1>1, <1>2, <1>6, <2>1
  <2> QED BY <2>1, <2>2, <2>3, <2>4
<1>11. ASSUME NEW i \in 0..(w - 1)
       PROVE  text[i + 1] = IF o + i < Len(b) THEN b[o + i + 1] ELSE " "
  <2>1. i + 1 \in 1..w /\ o + (i + 1) = o + i + 1
    OBVIOUS
  <2>2. CASE i + 1 <= e - o
    <3>1. i + 1 \in 1..(e - o) /\ o + i < n
      BY <1>1, <1>2, <2>2
    <3> QED BY <1>1, <1>4, <1>10, <2>1, <2>2, <3>1
  <2>3. CASE ~(i + 1 <= e - o)
    <3>1. i + 1 - (e - o) \in 1..k /\ ~(o + i < n)
      <4>1. PICK m \in Nat : m = e - o /\ m + k = w
        BY <1>1, <1>2, <1>6
      <4>2. ~(i + 1 <= m) /\ i \in Nat /\ i + 1 <= w
        BY <2>3, <4>1
      <4>3. i + 1 - m \in 1..k
        BY <1>6, <4>1, <4>2
      <4>4. ~(o + i < n)
        <5>1. CASE e = n
          BY <1>1, <4>1, <4>2, <5>1
        <5>2. CASE e = o + w
          BY <4>1, <4>2, <5>2
        <5> QED BY <1>2, <5>1, <5>2
      <4> QED BY <4>1, <4>3, <4>4
    <3>2. text[i + 1] = pad[i + 1 - (e - o)]
      BY <1>10, <2>1, <2>3
    <3> QED BY <1>1, <1>7, <3>1, <3>2
  <2> QED BY <2>2, <2>3
<1> QED BY <1>8, <1>9, <1>10, <1>11 DEF Fills

(***************************************************************************)
(* A redrawn row shows the line in its window, the caret stands on it in   *)
(* its place, and the other rows are as before.                            *)
(***************************************************************************)
Drawn(e, d, b, c, o, r) ==
  /\ e \in Display
  /\ e.at = [col |-> Prompt + (c - o), row |-> r]
  /\ \A q \in Row : q # r => e.screen[q] = d.screen[q]
  /\ \A i \in 0..(Window(Prompt) - 1) :
       e.screen[r][Prompt + i] = IF o + i < Len(b) THEN b[o + i + 1] ELSE " "

\* That is what redraw leaves at the prompt.
LEMMA RedrawRow ==
  ASSUME NEW d \in Display, NEW b \in Seq(Char), NEW c \in 0..Len(b), NEW o \in 0..c,
         c < o + Window(Prompt), NEW r \in Row
  PROVE  Drawn(Redraw(d, b, c, o, Prompt, r), d, b, c, o, r)
<1>1. PICK w \in Nat \ {0} : w = Window(Prompt) /\ w = Cols - Prompt - 1 /\ c < o + w
  BY WindowAtPrompt
<1>2. PICK n \in Nat : n = Len(b)
  BY LenProperties
<1>3. PICK text : text = Filling(b, o, w)
  OBVIOUS
<1>4. Fills(text, b, o, w)
  <2>1. o \in Nat /\ o <= Len(b)
    BY <1>2
  <2> QED BY <1>1, <1>3, <2>1, FillingFills
<1>5. PICK d1 : d1 = SetCursor(d, Prompt, r)
  OBVIOUS
<1>6. d1 \in Display /\ d1.at = [col |-> Prompt, row |-> r] /\ d1.screen = d.screen
  BY <1>5, Sizes DEF SetCursor, Display
<1>7. PICK e : e = Write(d1, text) /\ Written(e, d1, text)
  <2>1. d1.at.col + Len(text) < Cols
    <3>1. d1.at.col = Prompt
      BY <1>6
    <3>2. Len(text) = w
      BY <1>4 DEF Fills
    <3>3. Prompt + w < Cols
      BY <1>1, Sizes DEF Column
    <3> QED BY <3>1, <3>2, <3>3
  <2> QED BY <1>4, <1>6, <2>1, WriteRow DEF Fills
<1>8. /\ e \in Display
      /\ \A q \in Row : q # r => e.screen[q] = d.screen[q]
      /\ \A k \in Column : k \in Prompt..(Prompt + w - 1) => e.screen[r][k] = text[k - Prompt + 1]
  <2>1. d1.at.col = Prompt /\ d1.at.row = r /\ Len(text) = w
    <3>1. d1.at.col = Prompt /\ d1.at.row = r
      BY <1>6
    <3>2. Len(text) = w
      BY <1>4 DEF Fills
    <3> QED BY <3>1, <3>2
  <2>2. /\ e \in Display
        /\ \A q \in Row : q # r => e.screen[q] = d1.screen[q]
        /\ \A k \in Column : e.screen[r][k] =
             IF k \in Prompt..(Prompt + w - 1) THEN text[k - Prompt + 1] ELSE d1.screen[r][k]
    BY <1>7, <2>1 DEF Written
  <2> QED BY <1>6, <2>2
<1>9. PICK col \in Column : col = Prompt + (c - o)
  BY <1>1, <1>2, Sizes DEF Column
<1>10. PICK h : h = SetCursor(e, col, r)
  OBVIOUS
<1>11. h \in Display /\ h.at = [col |-> col, row |-> r] /\ h.screen = e.screen
  BY <1>8, <1>10 DEF SetCursor, Display
<1>12. h = Redraw(d, b, c, o, Prompt, r)
  BY <1>1, <1>3, <1>5, <1>7, <1>9, <1>10 DEF Redraw, Filling
<1>13. ASSUME NEW i \in 0..(w - 1)
       PROVE  h.screen[r][Prompt + i] = IF o + i < Len(b) THEN b[o + i + 1] ELSE " "
  <2>1. /\ Prompt + i \in Column /\ Prompt + i \in Prompt..(Prompt + w - 1)
        /\ Prompt + i - Prompt + 1 = i + 1
    BY <1>1, Sizes DEF Column
  <2>2. h.screen[r][Prompt + i] = text[i + 1]
    <3>1. PICK k \in Column : k = Prompt + i
      BY <2>1
    <3>2. k \in Prompt..(Prompt + w - 1) /\ k - Prompt + 1 = i + 1
      <4>1. Prompt \in Int /\ w \in Int
        BY <1>1, Sizes DEF Column
      <4> QED BY <3>1, <4>1
    <3>3. e.screen[r][k] = text[k - Prompt + 1]
      BY <1>8, <3>1, <3>2
    <3> QED BY <1>11, <3>1, <3>2, <3>3
  <2> QED BY <1>4, <2>2 DEF Fills
<1>14. Drawn(h, d, b, c, o, r)
  BY <1>1, <1>8, <1>9, <1>11, <1>13 DEF Drawn
<1> QED BY <1>12, <1>14

--------------------------------------------------------------------------------
(***************************************************************************)
(* A line with a character more or less.                                   *)
(***************************************************************************)
LEMMA InsertAtType ==
  ASSUME NEW b \in Seq(Char), NEW i \in 1..(Len(b) + 1), NEW c \in Char
  PROVE  InsertAt(b, i, c) \in Seq(Char) /\ Len(InsertAt(b, i, c)) = Len(b) + 1
<1>1. PICK n \in Nat : n = Len(b)
  BY LenProperties
<1>2. PICK u : u = SubSeq(b, 1, i - 1)
  OBVIOUS
<1>3. PICK v : v = SubSeq(b, i, n)
  OBVIOUS
<1>4. u \in Seq(Char) /\ Len(u) = i - 1
  <2>1. 1 \in Int /\ i - 1 \in Int /\ \A k \in 1..(i - 1) : b[k] \in Char
    BY <1>1, ElementOfSeq
  <2>2. u \in Seq(Char) /\ Len(u) = IF 1 <= i - 1 THEN i - 1 - 1 + 1 ELSE 0
    BY <1>2, <2>1, SubSeqProperties
  <2> QED BY <1>1, <2>2
<1>5. v \in Seq(Char) /\ Len(v) = n + 1 - i
  <2>1. n \in Int /\ i \in Int /\ \A k \in i..n : b[k] \in Char
    BY <1>1, ElementOfSeq
  <2>2. v \in Seq(Char) /\ Len(v) = IF i <= n THEN n - i + 1 ELSE 0
    BY <1>3, <2>1, SubSeqProperties
  <2> QED BY <1>1, <2>2
<1>6. PICK m : m = u \o << c >>
  OBVIOUS
<1>7. << c >> \in Seq(Char) /\ Len(<< c >>) = 1
  OBVIOUS
<1>8. m \in Seq(Char) /\ Len(m) = i - 1 + 1
  BY <1>4, <1>6, <1>7, ConcatProperties
<1>9. m \o v \in Seq(Char) /\ Len(m \o v) = (i - 1 + 1) + (n + 1 - i)
  <2>1. m \o v \in Seq(Char) /\ Len(m \o v) = Len(m) + Len(v)
    BY <1>5, <1>8, ConcatProperties
  <2> QED BY <1>5, <1>8, <2>1
<1>10. InsertAt(b, i, c) = m \o v
  BY <1>1, <1>2, <1>3, <1>6 DEF InsertAt
<1> QED BY <1>1, <1>9, <1>10

\* One character less.
LEMMA RemoveAtType ==
  ASSUME NEW b \in Seq(Char), NEW i \in 1..Len(b)
  PROVE  RemoveAt(b, i) \in Seq(Char) /\ Len(RemoveAt(b, i)) = Len(b) - 1
<1>1. PICK n \in Nat : n = Len(b)
  BY LenProperties
<1>2. PICK u : u = SubSeq(b, 1, i - 1)
  OBVIOUS
<1>3. PICK v : v = SubSeq(b, i + 1, n)
  OBVIOUS
<1>4. u \in Seq(Char) /\ Len(u) = i - 1
  <2>1. 1 \in Int /\ i - 1 \in Int /\ \A k \in 1..(i - 1) : b[k] \in Char
    BY <1>1, ElementOfSeq
  <2>2. u \in Seq(Char) /\ Len(u) = IF 1 <= i - 1 THEN i - 1 - 1 + 1 ELSE 0
    BY <1>2, <2>1, SubSeqProperties
  <2> QED BY <1>1, <2>2
<1>5. v \in Seq(Char) /\ Len(v) = n - i
  <2>1. n \in Int /\ i + 1 \in Int /\ \A k \in (i + 1)..n : b[k] \in Char
    BY <1>1, ElementOfSeq
  <2>2. v \in Seq(Char) /\ Len(v) = IF i + 1 <= n THEN n - (i + 1) + 1 ELSE 0
    BY <1>3, <2>1, SubSeqProperties
  <2> QED BY <1>1, <2>2
<1>6. u \o v \in Seq(Char) /\ Len(u \o v) = (i - 1) + (n - i)
  <2>1. u \o v \in Seq(Char) /\ Len(u \o v) = Len(u) + Len(v)
    BY <1>4, <1>5, ConcatProperties
  <2> QED BY <1>4, <1>5, <2>1
<1>7. RemoveAt(b, i) = u \o v
  BY <1>1, <1>2, <1>3 DEF RemoveAt
<1> QED BY <1>1, <1>6, <1>7
--------------------------------------------------------------------------------
(***************************************************************************)
(* The prompt of a new line: text written in two parts, the first of them  *)
(* a new line, leaves the cursor behind the second.                        *)
(***************************************************************************)
LEMMA WriteConcat ==
  ASSUME NEW d \in Display, NEW s \in Seq(Code), NEW t \in Seq(Code)
  PROVE  Write(d, s \o t) = Write(Write(d, s), t)
<1>1. PICK e \in Display : e = Write(d, s)
  BY WriteType
<1> DEFINE G == {u \in Seq(Code) : Write(d, s \o u) = Write(e, u)}
<1>2. <<>> \in G
  <2>1. s \o <<>> = s /\ <<>> \in Seq(Code)
    BY ConcatEmptySeq, EmptySeq
  <2>2. Write(e, <<>>) = e
    BY WriteEmpty
  <2> QED BY <1>1, <2>1, <2>2
<1>3. ASSUME NEW u \in Seq(Code), NEW c \in Code, u \in G PROVE Append(u, c) \in G
  <2>1. PICK su \in Seq(Code) : su = s \o u
    BY ConcatProperties
  <2>2. s \o Append(u, c) = Append(su, c)
    BY <2>1
  <2>3. Append(u, c) \in Seq(Code)
    BY AppendProperties
  <2>4. Write(d, Append(su, c)) = Put(Write(d, su), c) /\ Write(e, Append(u, c)) = Put(Write(e, u), c)
    BY WriteAppend
  <2>5. Write(d, su) = Write(e, u)
    BY <1>3, <2>1
  <2> QED BY <2>2, <2>3, <2>4, <2>5
<1>4. Seq(Code) \subseteq G
  <2> HIDE DEF G
  <2> QED BY <1>2, <1>3, SequencesByAppending
<1> QED BY <1>1, <1>4

\* Writing only a new line is moving to it.
LEMMA WriteNewLine ==
  ASSUME NEW d \in Display
  PROVE  << "newline" >> \in Seq(Code) /\ Write(d, << "newline" >>) = NewLine(d)
<1>1. "newline" \in Code /\ <<>> \in Seq(Code)
  BY EmptySeq DEF Code
<1>2. << "newline" >> = Append(<<>>, "newline") /\ << "newline" >> \in Seq(Code)
  BY <1>1
<1>3. Write(d, Append(<<>>, "newline")) = Put(Write(d, <<>>), "newline")
  BY <1>1, WriteAppend
<1>4. Write(d, <<>>) = d
  BY WriteEmpty
<1>5. Put(d, "newline") = NewLine(d)
  BY <1>1, PutType
<1> QED BY <1>2, <1>3, <1>4, <1>5

\* The cursor stands behind the prompt of a new line.
LEMMA WritePrompt ==
  ASSUME NEW d \in Display
  PROVE  LET e == Write(d, << "newline" >> \o Repeat("p", Prompt))
         IN e \in Display /\ e.at.col = Prompt
<1>1. PICK p \in Seq(Glyph) : p = Repeat("p", Prompt) /\ Len(p) = Prompt
  <2>1. "p" \in Glyph /\ Prompt \in Nat
    BY Sizes DEF Glyph, Column
  <2> QED BY <2>1, Repeated
<1>2. p \in Seq(Code)
  BY <1>1, SeqMonotonic DEF Code
<1>3. PICK n : n = NewLine(d) /\ n \in Display /\ n.at.col = 0
  <2>1. d \in [screen : Screen, at : [col : 0..Cols, row : Row]]
    BY Sizes DEF Display, Column
  <2>2. NewLine(d) \in Display
    BY <2>1, NewLineType
  <2>3. NewLine(d).at.col = 0
    BY DEF NewLine, Display
  <2> QED BY <2>2, <2>3
<1>4. PICK e : e = Write(n, p) /\ Written(e, n, p)
  <2>1. n.at.col + Len(p) < Cols
    BY <1>1, <1>3, Sizes DEF Column
  <2> QED BY <1>1, <1>3, <2>1, WriteRow
<1>5. e \in Display /\ e.at = [col |-> 0 + Prompt, row |-> n.at.row]
  BY <1>1, <1>3, <1>4 DEF Written
<1>6. e = Write(d, << "newline" >> \o p)
  <2>1. << "newline" >> \in Seq(Code) /\ Write(d, << "newline" >>) = n
    BY <1>3, WriteNewLine
  <2>2. Write(d, << "newline" >> \o p) = Write(Write(d, << "newline" >>), p)
    BY <1>2, <2>1, WriteConcat
  <2> QED BY <1>4, <2>1, <2>2
<1>7. e.at.col = Prompt
  BY <1>5, Sizes DEF Column
<1> QED BY <1>1, <1>5, <1>6, <1>7
--------------------------------------------------------------------------------
(***************************************************************************)
(* Whatever redraws an open line at the prompt leaves the invariant, and   *)
(* the rows that are not the line's.                                       *)
(***************************************************************************)
Kept(d, r) == \A q \in Row : q # r => screen'[q] = d.screen[q]

\* Show of the editor keeps the invariant and the other rows.
LEMMA ShowKeeps ==
  ASSUME NEW d \in Display, NEW b \in Seq(Char), Len(b) <= MaxLen, NEW c \in 0..Len(b),
         NEW o \in 0..c, c < o + Window(Prompt), NEW r \in Row,
         Show(d, b, c, o, Prompt, r),
         active' = TRUE, pushed' \in BOOLEAN, said' \in 0..MaxSaid
  PROVE  IInv' /\ Kept(d, r)
<1>1. PICK e : e = Redraw(d, b, c, o, Prompt, r) /\ Drawn(e, d, b, c, o, r)
  BY RedrawRow
<1>2. /\ buf' = b /\ cur' = c /\ off' = o /\ startCol' = Prompt /\ row' = r
      /\ screen' = e.screen /\ at' = e.at
  BY <1>1 DEF Show
<1>3. /\ e \in Display
      /\ e.at = [col |-> Prompt + (c - o), row |-> r]
      /\ \A q \in Row : q # r => e.screen[q] = d.screen[q]
      /\ \A i \in 0..(Window(Prompt) - 1) :
           e.screen[r][Prompt + i] = IF o + i < Len(b) THEN b[o + i + 1] ELSE " "
  BY <1>1 DEF Drawn
<1>4. e.screen \in Screen /\ e.at \in [col : Column, row : Row]
  BY <1>3 DEF Display
<1>5. TypeOK'
  BY <1>2, <1>4 DEF TypeOK, Screen, Row, Column, Glyph
<1>6. AtPrompt'
  BY <1>2 DEF AtPrompt
<1>7. CaretVisible'
  <2>1. at' = [col |-> startCol' + (cur' - off'), row |-> row']
    BY <1>2, <1>3
  <2>2. at'.col < Prompt + Window(Prompt)
    <3>1. at'.col = Prompt + (c - o)
      <4>1. PICK p : p = Prompt + (c - o)
        OBVIOUS
      <4>2. at' = [col |-> p, row |-> r]
        BY <1>2, <1>3, <4>1
      <4> QED BY <4>1, <4>2
    <3>2. PICK w \in Nat : w = Window(Prompt) /\ c < o + w
      BY WindowAtPrompt
    <3>3. Prompt \in Nat /\ c \in Nat /\ o \in Nat
      BY Sizes DEF Column
    <3> QED BY <3>1, <3>2, <3>3
  <2>3. Window(startCol)' = Window(Prompt)
    BY <1>2 DEF Window
  <2> QED BY <1>2, <2>1, <2>2, <2>3 DEF CaretVisible
<1>8. RowShowsLine'
  <2>1. Window(startCol)' = Window(Prompt)
    BY <1>2 DEF Window
  <2> QED BY <1>2, <1>3, <2>1 DEF RowShowsLine
<1>9. Kept(d, r)
  BY <1>2, <1>3 DEF Kept
<1> QED BY <1>5, <1>6, <1>7, <1>8, <1>9 DEF IInv

\* The screen and its cursor are a display.
LEMMA HereType == TypeOK => Here \in Display /\ Here.screen = screen
  BY DEF TypeOK, Here, Display, Screen, Row, Column, Glyph

\* A key that edits an open line.
LEMMA EditKeeps ==
  ASSUME IInv, active, NEW b \in Seq(Char), Len(b) <= MaxLen, NEW c \in 0..Len(b), Edit(b, c)
  PROVE  IInv' /\ \A q \in Row : q # row => screen'[q] = screen[q]
<1>1. startCol = Prompt /\ TypeOK
  BY DEF IInv, AtPrompt
<1>2. off \in Nat /\ row \in Row /\ pushed \in BOOLEAN /\ said \in 0..MaxSaid /\ c \in Nat
  <2>1. cur \in 0..Len(buf) /\ off \in 0..cur
    BY <1>1 DEF TypeOK
  <2>2. row \in Row /\ pushed \in BOOLEAN /\ said \in 0..MaxSaid
    BY <1>1 DEF TypeOK, Row
  <2>3. off \in Nat /\ c \in Nat
    BY <2>1, LenProperties
  <2> QED BY <2>2, <2>3
<1>3. PICK o \in 0..c : o = Rescroll(c, off, Window(Prompt)) /\ c < o + Window(Prompt)
  BY <1>2, WindowAtPrompt, CaretInWindow
<1>4. Show(Here, b, c, o, Prompt, row) /\ UNCHANGED << active, said, pushed >>
  BY <1>1, <1>3 DEF Edit
<1>5. IInv' /\ Kept(Here, row)
  BY <1>1, <1>2, <1>3, <1>4, HereType, ShowKeeps
<1> QED BY <1>1, <1>5, HereType DEF Kept

\* The first key of a line.
LEMMA InsertFirstKeeps ==
  ASSUME IInv, NEW c \in Char, InsertFirst(c) PROVE IInv'
<1>1. TypeOK
  BY DEF IInv
<1>2. PICK d \in Display : d = Write(Here, << "newline" >> \o Repeat("p", Prompt)) /\ d.at.col = Prompt
  BY <1>1, HereType, WritePrompt
<1>3. d.at.row \in Row /\ off \in Nat /\ said \in 0..MaxSaid
  <2>1. cur \in 0..Len(buf) /\ off \in 0..cur /\ said \in 0..MaxSaid
    BY <1>1 DEF TypeOK
  <2> QED BY <2>1 DEF Display
<1>4. PICK o \in 0..1 : o = Rescroll(1, off, Window(Prompt)) /\ 1 < o + Window(Prompt)
  BY <1>3, WindowAtPrompt, CaretInWindow
<1>5. PICK b \in Seq(Char) : b = << c >> /\ Len(b) = 1
  <2>1. << c >> \in Seq(Char) /\ Len(<< c >>) = 1
    OBVIOUS
  <2> QED BY <2>1
<1>6. Show(d, b, 1, o, Prompt, d.at.row) /\ active' = TRUE /\ pushed' = FALSE /\ said' = said
  BY <1>2, <1>4, <1>5, Zenon DEF InsertFirst
<1>7. 1 \in 0..Len(b) /\ Len(b) <= MaxLen
  BY <1>5, Sizes
<1> QED BY <1>3, <1>4, <1>6, <1>7, ShowKeeps

\* What is written beside the editor, while no line is open or by speech.
LEMMA WriteOutType ==
  ASSUME TypeOK, NEW text \in Seq(Code), WriteOut(text)
  PROVE  /\ screen' \in [0..(Rows - 1) -> [0..(Cols - 1) -> Char \cup {" ", "p", "t", "s"}]]
         /\ at' \in [col : 0..(Cols - 1), row : 0..(Rows - 1)]
<1>1. PICK d \in Display : d = Write(Here, text)
  BY HereType, WriteType
<1>2. screen' = d.screen /\ at' = d.at
  BY <1>1 DEF WriteOut
<1> QED BY <1>2 DEF Display, Screen, Row, Column, Glyph

\* The texts that are written so.
LEMMA Texts ==
  /\ << "newline" >> \in Seq(Code) /\ << "t", "newline" >> \in Seq(Code)
  /\ << "newline", "t", "newline" >> \in Seq(Code) /\ << "return", "s" >> \in Seq(Code)
<1>1. {"newline", "return", "t", "s"} \subseteq Code
  BY DEF Code, Glyph
<1> QED BY <1>1

\* Enter closes the line.
LEMMA TakeKeeps == ASSUME IInv, Take PROVE IInv'
<1>1. /\ active' = FALSE /\ buf' = <<>> /\ cur' = 0 /\ off' = 0 /\ WriteOut(<< "newline" >>)
      /\ startCol' = startCol /\ row' = row /\ said' = said /\ pushed' = pushed
  BY DEF Take
<1>2. TypeOK
  BY DEF IInv
<1>3. TypeOK'
  <2>1. /\ screen' \in [0..(Rows - 1) -> [0..(Cols - 1) -> Char \cup {" ", "p", "t", "s"}]]
        /\ at' \in [col : 0..(Cols - 1), row : 0..(Rows - 1)]
    BY <1>1, <1>2, Texts, WriteOutType
  <2>2. buf' \in Seq(Char) /\ Len(buf') = 0
    BY <1>1
  <2>3. Len(buf') <= MaxLen /\ cur' \in 0..Len(buf') /\ off' \in 0..cur'
    BY <1>1, <2>2, Sizes
  <2>4. /\ startCol' \in {0, Prompt} /\ row' \in 0..(Rows - 1) /\ said' \in 0..MaxSaid
        /\ {active', pushed'} \subseteq BOOLEAN
    BY <1>1, <1>2 DEF TypeOK
  <2> QED BY <1>1, <2>1, <2>2, <2>3, <2>4 DEF TypeOK
<1> QED BY <1>1, <1>3 DEF IInv, AtPrompt, CaretVisible, RowShowsLine

\* Text beside an open line only comes as speech, which the ghost notes.
LEMMA BesideKeeps ==
  ASSUME IInv, NEW text \in Seq(Code), WriteOut(text), UNCHANGED editor,
         said' \in 0..MaxSaid, pushed' \in BOOLEAN, active => pushed'
  PROVE  IInv'
<1>1. /\ buf' = buf /\ cur' = cur /\ off' = off /\ startCol' = startCol /\ row' = row
      /\ active' = active
  BY DEF editor
<1>2. TypeOK /\ AtPrompt
  BY DEF IInv
<1>3. TypeOK'
  <2>1. /\ screen' \in [0..(Rows - 1) -> [0..(Cols - 1) -> Char \cup {" ", "p", "t", "s"}]]
        /\ at' \in [col : 0..(Cols - 1), row : 0..(Rows - 1)]
    BY <1>2, WriteOutType
  <2> QED BY <1>1, <1>2, <2>1 DEF TypeOK
<1> QED BY <1>1, <1>2, <1>3 DEF IInv, AtPrompt, CaretVisible, RowShowsLine
--------------------------------------------------------------------------------
(***************************************************************************)
(* The invariant holds at first, and every step keeps it.                  *)
(***************************************************************************)
LEMMA InitIInv == Init => IInv
<1> SUFFICES ASSUME Init PROVE IInv
  OBVIOUS
<1>1. Blank \in [0..(Cols - 1) -> Char \cup {" ", "p", "t", "s"}]
  BY DEF Blank
<1>2. 0 \in 0..(Cols - 1) /\ 0 \in 0..(Rows - 1) /\ 0 \in 0..MaxSaid /\ 0 <= MaxLen
  BY Sizes
<1>3. buf \in Seq(Char) /\ Len(buf) = 0
  BY DEF Init
<1>4. TypeOK
  <2>1. /\ screen \in [0..(Rows - 1) -> [0..(Cols - 1) -> Char \cup {" ", "p", "t", "s"}]]
        /\ at \in [col : 0..(Cols - 1), row : 0..(Rows - 1)]
    BY <1>1, <1>2 DEF Init
  <2>2. Len(buf) <= MaxLen /\ cur \in 0..Len(buf) /\ off \in 0..cur
    BY <1>2, <1>3 DEF Init
  <2>3. /\ startCol \in {0, Prompt} /\ row \in 0..(Rows - 1) /\ said \in 0..MaxSaid
        /\ {active, pushed} \subseteq BOOLEAN /\ (~active => buf = <<>>)
    BY <1>2 DEF Init
  <2> QED BY <1>3, <2>1, <2>2, <2>3 DEF TypeOK
<1> QED BY <1>4 DEF Init, IInv, AtPrompt, CaretVisible, RowShowsLine

\* What a step keeps: the invariant, and the transcript beside an open line.
Keeps ==
  /\ IInv'
  /\ active /\ active' /\ said' = said /\ ~pushed =>
       \A r \in 0..(Rows - 1) : r # row => screen'[r] = screen[r]

\* Every key of the editor.
LEMMA KeyKeeps == ASSUME IInv, Key PROVE Keeps
<1>1. PICK n \in Nat : n = Len(buf) /\ n <= MaxLen
  BY LenProperties DEF IInv, TypeOK
<1>2. buf \in Seq(Char) /\ cur \in 0..n
  BY <1>1 DEF IInv, TypeOK
<1>3. ASSUME NEW b \in Seq(Char), Len(b) <= MaxLen, NEW c \in 0..Len(b), active, Edit(b, c)
      PROVE  Keeps
  BY <1>3, EditKeeps DEF Keeps, Row
<1>4. ASSUME NEW c \in Char, InsertFirst(c) PROVE Keeps
  <2>1. ~active
    BY <1>4 DEF InsertFirst
  <2> QED BY <1>4, <2>1, InsertFirstKeeps DEF Keeps
<1>5. ASSUME NEW c \in Char, Insert(c) PROVE Keeps
  <2>1. active /\ n < MaxLen /\ Edit(InsertAt(buf, cur + 1, c), cur + 1)
    BY <1>1, <1>5 DEF Insert
  <2>2. cur + 1 \in 1..(Len(buf) + 1)
    BY <1>1, <1>2
  <2>3. PICK b \in Seq(Char) : b = InsertAt(buf, cur + 1, c) /\ Len(b) = n + 1
    BY <1>1, <1>2, <2>2, InsertAtType
  <2>4. Len(b) <= MaxLen /\ cur + 1 \in 0..Len(b)
    BY <1>1, <1>2, <2>1, <2>3, Sizes
  <2> QED BY <1>3, <2>1, <2>3, <2>4
<1>6. ASSUME Backspace PROVE Keeps
  <2>1. active /\ cur > 0 /\ Edit(RemoveAt(buf, cur), cur - 1)
    BY <1>6 DEF Backspace
  <2>2. cur \in 1..Len(buf)
    BY <1>1, <1>2, <2>1
  <2>3. PICK b \in Seq(Char) : b = RemoveAt(buf, cur) /\ Len(b) = n - 1
    BY <1>1, <1>2, <2>2, RemoveAtType
  <2>4. Len(b) <= MaxLen /\ cur - 1 \in 0..Len(b)
    BY <1>1, <1>2, <2>2, <2>3, Sizes
  <2> QED BY <1>3, <2>1, <2>3, <2>4
<1>7. ASSUME Delete PROVE Keeps
  <2>1. active /\ cur < n /\ Edit(RemoveAt(buf, cur + 1), cur)
    BY <1>1, <1>7 DEF Delete
  <2>2. cur + 1 \in 1..Len(buf)
    BY <1>1, <1>2, <2>1
  <2>3. PICK b \in Seq(Char) : b = RemoveAt(buf, cur + 1) /\ Len(b) = n - 1
    BY <1>1, <1>2, <2>2, RemoveAtType
  <2>4. Len(b) <= MaxLen /\ cur \in 0..Len(b)
    BY <1>1, <1>2, <2>1, <2>3, Sizes
  <2> QED BY <1>3, <2>1, <2>3, <2>4
<1>8. ASSUME Left PROVE Keeps
  <2>1. active /\ cur > 0 /\ Edit(buf, cur - 1)
    BY <1>8 DEF Left
  <2>2. cur - 1 \in 0..Len(buf) /\ Len(buf) <= MaxLen
    BY <1>1, <1>2, <2>1
  <2> QED BY <1>2, <1>3, <2>1, <2>2
<1>9. ASSUME Right PROVE Keeps
  <2>1. active /\ cur < n /\ Edit(buf, cur + 1)
    BY <1>1, <1>9 DEF Right
  <2>2. cur + 1 \in 0..Len(buf) /\ Len(buf) <= MaxLen
    BY <1>1, <1>2, <2>1
  <2> QED BY <1>2, <1>3, <2>1, <2>2
<1>10. ASSUME Home PROVE Keeps
  <2>1. active /\ Edit(buf, 0) /\ 0 \in 0..Len(buf) /\ Len(buf) <= MaxLen
    BY <1>1, <1>10 DEF Home
  <2> QED BY <1>2, <1>3, <2>1
<1>11. ASSUME End PROVE Keeps
  <2>1. active /\ Edit(buf, Len(buf)) /\ Len(buf) \in 0..Len(buf) /\ Len(buf) <= MaxLen
    BY <1>1, <1>11 DEF End
  <2> QED BY <1>2, <1>3, <2>1
<1>12. ASSUME Clear PROVE Keeps
  <2>1. active /\ Show(Here, <<>>, 0, 0, startCol, row) /\ UNCHANGED << active, said, pushed >>
    BY <1>12 DEF Clear
  <2>2. TypeOK /\ startCol = Prompt
    BY <2>1 DEF IInv, AtPrompt
  <2>3. row \in Row /\ pushed' \in BOOLEAN /\ said' \in 0..MaxSaid /\ active' = TRUE
    BY <2>1, <2>2 DEF TypeOK, Row
  <2>4. PICK b \in Seq(Char) : b = <<>> /\ Len(b) = 0
    BY EmptySeq
  <2>5. 0 < 0 + Window(Prompt) /\ Len(b) <= MaxLen /\ 0 \in 0..Len(b) /\ 0 \in 0..0
    <3>1. PICK w \in Nat \ {0} : w = Window(Prompt)
      BY WindowAtPrompt
    <3>2. 0 < 0 + w /\ 0 <= MaxLen
      BY <3>1, Sizes
    <3> QED BY <2>4, <3>1, <3>2
  <2>6. Show(Here, b, 0, 0, Prompt, row)
    BY <2>1, <2>2, <2>4
  <2>7. IInv' /\ Kept(Here, row)
    BY <2>2, <2>3, <2>5, <2>6, HereType, ShowKeeps
  <2> QED BY <2>2, <2>7, HereType DEF Keeps, Kept, Row
<1>13. ASSUME Take PROVE Keeps
  <2>1. active' = FALSE
    BY <1>13 DEF Take
  <2> QED BY <1>13, <2>1, TakeKeeps DEF Keeps
<1> QED BY <1>4, <1>5, <1>6, <1>7, <1>8, <1>9, <1>10, <1>11, <1>12, <1>13 DEF Key

\* Every step, and those that leave all as it is.
LEMMA StepKeeps == IInv /\ [Next]_vars => Keeps
<1> SUFFICES ASSUME IInv, [Next]_vars PROVE Keeps
  OBVIOUS
<1>1. said \in 0..MaxSaid /\ pushed \in BOOLEAN /\ active \in BOOLEAN
  BY DEF IInv, TypeOK
<1>2. CASE Key
  BY <1>2, KeyKeeps
<1>3. CASE Say
  <2>1. /\ said < MaxSaid /\ said' = said + 1 /\ pushed' = (pushed \/ active) /\ UNCHANGED editor
        /\ \E text \in {<< "t", "newline" >>, << "newline", "t", "newline" >>} : WriteOut(text)
    BY <1>3 DEF Say
  <2>2. PICK text \in Seq(Code) : WriteOut(text)
    BY <2>1, Texts
  <2>3. said' \in 0..MaxSaid /\ said' # said
    BY <1>1, <2>1, Sizes
  <2>4. pushed' \in BOOLEAN /\ (active => pushed')
    BY <1>1, <2>1
  <2>5. IInv'
    BY <2>1, <2>2, <2>3, <2>4, BesideKeeps
  <2> QED BY <2>3, <2>5 DEF Keeps
<1>4. CASE Status
  <2>1. ~active /\ WriteOut(<< "return", "s" >>) /\ UNCHANGED editor /\ said' = said /\ pushed' = pushed
    BY <1>4 DEF Status
  <2>2. IInv'
    BY <1>1, <2>1, Texts, BesideKeeps
  <2> QED BY <2>1, <2>2 DEF Keeps
<1>5. CASE UNCHANGED vars
  <2>1. /\ screen' = screen /\ at' = at /\ said' = said /\ pushed' = pushed
        /\ buf' = buf /\ cur' = cur /\ off' = off /\ startCol' = startCol /\ row' = row
        /\ active' = active
    BY <1>5 DEF vars, editor
  <2>2. TypeOK' /\ AtPrompt' /\ CaretVisible'
    BY <2>1 DEF IInv, TypeOK, AtPrompt, CaretVisible, Window
  <2>3. RowShowsLine'
    BY <2>1 DEF IInv, RowShowsLine, Window
  <2> QED BY <2>1, <2>2, <2>3 DEF IInv, Keeps
<1> QED BY <1>2, <1>3, <1>4, <1>5 DEF Next

\* The inductive invariant: a line opens at the prompt and is redrawn there.
THEOREM Invariant == Spec => []IInv
<1>1. IInv /\ [Next]_vars => IInv'
  BY StepKeeps DEF Keeps
<1> QED BY <1>1, InitIInv, PTL DEF Spec

\* The values of the editor and of the screen, in every reachable state.
THEOREM TypeCorrect == Spec => []TypeOK
<1>1. IInv => TypeOK
  BY DEF IInv
<1> QED BY <1>1, Invariant, PTL

\* Whatever keys are typed, the caret stands on the line's row at its place
\* in the line, in front of the last column (Rescroll, Redraw of editor.rs).
THEOREM CaretStaysVisible == Spec => []CaretVisible
<1>1. IInv => CaretVisible
  BY DEF IInv
<1> QED BY <1>1, Invariant, PTL

\* The row shows the window's part of the line and blanks behind it: nothing
\* that stood there before is left over (redraw of editor.rs).
THEOREM RowIsTheLine == Spec => []RowShowsLine
<1>1. IInv => RowShowsLine
  BY DEF IInv
<1> QED BY <1>1, Invariant, PTL

\* A key that edits an open line changes no row but its own, as long as
\* nothing was said since it was opened.
THEOREM TranscriptIsKept == Spec => TranscriptStays
<1>1. IInv /\ [Next]_vars =>
        [active /\ active' /\ said' = said /\ ~pushed =>
           \A r \in 0..(Rows - 1) : r # row => screen'[r] = screen[r]]_vars
  BY StepKeeps DEF Keeps
<1> QED BY <1>1, Invariant, PTL DEF Spec, TranscriptStays

================================================================================
