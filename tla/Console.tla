------------------------------- MODULE Console --------------------------------
(***************************************************************************)
(* The line editor (core/src/editor.rs) on the text screen of the          *)
(* firmware (Ctx in core/src/console.rs): one line of input, edited in     *)
(* place on one row and scrolled sideways inside a window of it, while     *)
(* what the entity says, hears and sees scrolls the same screen.           *)
(***************************************************************************)
EXTENDS Integers, SequencesExt

CONSTANTS Char,       \* what can be typed
          Cols, Rows, \* the size of the screen
          Prompt,     \* the columns "  you: " takes
          MinWindow,  \* the narrowest window of a line (8)
          MaxLen,     \* the longest line (200)
          MaxSaid     \* bound: things said by the entity

ASSUME ConsoleAssumption ==
  /\ {Cols, Rows, MinWindow, MaxLen} \subseteq Nat \ {0} /\ {Prompt, MaxSaid} \subseteq Nat
  /\ Prompt + 1 + MinWindow <= Cols    \* no screen is narrower
  /\ {"newline", "return"} \cap Char = {}    \* only 0x20 .. 0x7e reaches insert

VARIABLES screen,   \* what stands in each row
          at,       \* the firmware's cursor: [col, row]
          buf, cur, off, startCol, row, active,   \* LineEditor
          said,     \* how much the entity has said
          pushed    \* ghost: said while a line was open

editor == << buf, cur, off, startCol, row, active >>
vars == << screen, at, editor, said, pushed >>

---------------------------------------------------------------------------
(* The firmware's console: a display is a screen and a cursor.             *)

Blank == [c \in 0..(Cols - 1) |-> " "]

\* The next row; at the bottom all rows move up by one.
NewLine(d) ==
  IF d.at.row + 1 < Rows THEN [d EXCEPT !.at = [col |-> 0, row |-> d.at.row + 1]]
  ELSE [screen |-> [r \in 0..(Rows - 1) |-> IF r + 1 < Rows THEN d.screen[r + 1] ELSE Blank],
        at |-> [col |-> 0, row |-> d.at.row]]

\* A character stands where the cursor was, and the cursor behind it.
Shown(d, c) == [screen |-> [d.screen EXCEPT ![d.at.row][d.at.col] = c],
                at |-> [d.at EXCEPT !.col = @ + 1]]

Put(d, c) ==
  CASE c = "newline" -> NewLine(d)
    [] c = "return" -> [d EXCEPT !.at.col = 0]
    [] OTHER -> IF d.at.col + 1 < Cols THEN Shown(d, c) ELSE NewLine(Shown(d, c))

Write(d, text) ==
  LET after[i \in 0..Len(text)] == IF i = 0 THEN d ELSE Put(after[i - 1], text[i])
  IN after[Len(text)]
SetCursor(d, c, r) == [d EXCEPT !.at = [col |-> c, row |-> r]]
Here == [screen |-> screen, at |-> at]
Repeat(c, n) == [i \in 1..n |-> c]

---------------------------------------------------------------------------
(* The editor.                                                             *)

\* mutant: no column is kept for a caret at the end of the line
WindowWide(start) == Max({Cols - start, MinWindow})

\* Less one column, so that a caret at the end of the line has a place.
Window(start) == Max({Cols - (start + 1), MinWindow})

\* mutant: the caret may stand behind the window
RescrollLate(c, o, w) ==
  IF c < o THEN c ELSE IF c > o + w THEN c + 1 - w ELSE o

\* The window moves no further than to have the caret in it.
Rescroll(c, o, w) ==
  IF c < o THEN c ELSE IF c >= o + w THEN c + 1 - w ELSE o

\* mutant: what a longer line left behind is not erased
RedrawBare(d, b, c, o, start, r) ==
  SetCursor(Write(SetCursor(d, start, r), SubSeq(b, o + 1, Min({o + Window(start), Len(b)}))),
            start + (c - o), r)

\* The visible part of the line, and blanks over the rest of the window.
Redraw(d, b, c, o, start, r) ==
  LET w == Window(start)
      visible == SubSeq(b, o + 1, Min({o + w, Len(b)}))
  IN SetCursor(Write(SetCursor(d, start, r), visible \o Repeat(" ", w - Len(visible))),
               start + (c - o), r)

\* The line as it now is, in the row where the editor believes it stands.
Show(d, b, c, o, start, r) ==
  /\ buf' = b /\ cur' = c /\ off' = o /\ startCol' = start /\ row' = r
  /\ LET shown == Redraw(d, b, c, o, start, r) IN screen' = shown.screen /\ at' = shown.at

Edit(b, c) == /\ Show(Here, b, c, Rescroll(c, off, Window(startCol)), startCol, row)
              /\ UNCHANGED << active, said, pushed >>

\* The first key of a line opens it, on a row of its own.
InsertFirst(c) ==
  /\ ~active
  /\ LET d == Write(Here, << "newline" >> \o Repeat("p", Prompt))
     IN Show(d, << c >>, 1, Rescroll(1, off, Window(d.at.col)), d.at.col, d.at.row)
  /\ active' = TRUE /\ pushed' = FALSE
  /\ UNCHANGED said

Insert(c) ==
  /\ active /\ Len(buf) < MaxLen
  /\ Edit(InsertAt(buf, cur + 1, c), cur + 1)

Backspace == active /\ cur > 0 /\ Edit(RemoveAt(buf, cur), cur - 1)
Delete == active /\ cur < Len(buf) /\ Edit(RemoveAt(buf, cur + 1), cur)
Left == active /\ cur > 0 /\ Edit(buf, cur - 1)
Right == active /\ cur < Len(buf) /\ Edit(buf, cur + 1)
Home == active /\ Edit(buf, 0)
End == active /\ Edit(buf, Len(buf))

\* Ctrl-U.
Clear ==
  /\ active /\ buf # << >>
  /\ Show(Here, << >>, 0, 0, startCol, row)
  /\ UNCHANGED << active, said, pushed >>

\* Writes to the screen that are not the editor's.
WriteOut(text) == LET d == Write(Here, text) IN screen' = d.screen /\ at' = d.at

\* mutant: the caret is left where it was in the line taken
TakeLine ==
  /\ active /\ buf # << >>
  /\ active' = FALSE /\ buf' = << >> /\ UNCHANGED << cur, off >>
  /\ WriteOut(<< "newline" >>)
  /\ UNCHANGED << startCol, row, said, pushed >>

\* Enter: an empty line stays open, any other is handed to cognition.
Take ==
  /\ active /\ buf # << >>
  /\ active' = FALSE /\ buf' = << >> /\ cur' = 0 /\ off' = 0
  /\ WriteOut(<< "newline" >>)
  /\ UNCHANGED << startCol, row, said, pushed >>

\* A reply; or something heard or seen, on a row of its own, which may come
\* while a line is being typed.
Say ==
  /\ said < MaxSaid /\ said' = said + 1
  /\ pushed' = (pushed \/ active)
  /\ \E text \in {<< "t", "newline" >>, << "newline", "t", "newline" >>} : WriteOut(text)
  /\ UNCHANGED editor

\* The status line of an idle second, only while no line is open.
Status ==
  /\ ~active
  /\ WriteOut(<< "return", "s" >>)
  /\ UNCHANGED << editor, said, pushed >>

Init ==
  /\ screen = [r \in 0..(Rows - 1) |-> Blank] /\ at = [col |-> 0, row |-> 0]
  /\ buf = << >> /\ cur = 0 /\ off = 0 /\ startCol = 0 /\ row = 0 /\ active = FALSE
  /\ said = 0 /\ pushed = FALSE

Key == \/ \E c \in Char : InsertFirst(c) \/ Insert(c)
       \/ Backspace \/ Delete \/ Left \/ Right \/ Home \/ End \/ Clear \/ Take
Next == Key \/ Say \/ Status

Spec == Init /\ [][Next]_vars

---------------------------------------------------------------------------
(* Properties.                                                             *)

TypeOK ==
  /\ screen \in [0..(Rows - 1) -> [0..(Cols - 1) -> Char \cup {" ", "p", "t", "s"}]]
  /\ at \in [col : 0..(Cols - 1), row : 0..(Rows - 1)]
  /\ buf \in Seq(Char) /\ Len(buf) <= MaxLen
  /\ cur \in 0..Len(buf) /\ off \in 0..cur
  /\ startCol \in {0, Prompt} /\ row \in 0..(Rows - 1)
  /\ {active, pushed} \subseteq BOOLEAN /\ (~active => buf = << >>)
  /\ said \in 0..MaxSaid

\* Whatever keys were typed, the caret stands on the row at its place in the
\* line, and never in the last column from which the row would wrap.
CaretVisible ==
  active /\ ~pushed => /\ at = [col |-> startCol + (cur - off), row |-> row]
                       /\ at.col < startCol + Window(startCol)

\* The row shows the part of the line that is in the window, and nothing of
\* what stood there before it was edited.
RowShowsLine ==
  active /\ ~pushed =>
    \A i \in 0..(Window(startCol) - 1) :
      screen[row][startCol + i] = IF off + i < Len(buf) THEN buf[off + i + 1] ELSE " "

\* "Without disturbing the transcript": a key that edits an open line changes
\* nothing outside its row, unless something was said since it was opened.
TranscriptStays ==
  [][active /\ active' /\ said' = said /\ ~pushed =>
       \A r \in 0..(Rows - 1) : r # row => screen'[r] = screen[r]]_vars
===============================================================================
