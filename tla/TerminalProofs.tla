--------------------------- MODULE TerminalProofs ---------------------------
(***************************************************************************)
(* Proofs about Terminal, for every screen of at least two rows, every set *)
(* of glyphs and colours and every set of messages.                        *)
(*                                                                         *)
(* ScreenShowsText is not inductive: it says nothing half-way through a    *)
(* string.  Good, which every operator of the driver keeps, is what holds  *)
(* then (TerminalDriverProofs).                                            *)
(***************************************************************************)
EXTENDS Terminal, TerminalDriverProofs

(* The invariant of the specification. *)

IInv ==
  /\ TypeOK
  /\ Good(kernel_terminal)
  /\ ScreenShowsText

LEMMA InitInvariant == Init => IInv
  BY NewGood DEF Init, IInv, TypeOK, ScreenShowsText, Good

LEMMA NextInvariant == IInv /\ [Next]_vars => IInv'
<1> SUFFICES ASSUME IInv, [Next]_vars PROVE IInv'
  OBVIOUS
<1> USE DEF IInv
<1> DEFINE t == kernel_terminal
<1>0. t \in Terminals /\ Good(t) /\ TypeOK
  BY DEF Good
<1> SUFFICES /\ Good(kernel_terminal')
             /\ msg' \in Seq(Chars) /\ pc' \in {"idle", "put"}
             /\ pc' = "idle" => kernel_terminal'.video = Picture(kernel_terminal')
  BY DEF TypeOK, Good, ScreenShowsText, Picture, Shown
<1>1. CASE CallTputs
  BY <1>1, MessagesAssumption DEF CallTputs, tputs
<1>2. CASE PutNext
  <2>1. Head(msg) \in Chars /\ Tail(msg) \in Seq(Chars)
    BY <1>2, <1>0 DEF PutNext, TypeOK
  <2> QED BY <1>2, <2>1, <1>0, PutCharGood DEF PutNext
<1>3. CASE EndTputs
  BY <1>3, <1>0, RefreshShows DEF EndTputs, TypeOK
<1>4. CASE ClearTerminal
  BY <1>4, <1>0, ClearGood DEF ClearTerminal, Call, TypeOK
<1>5. CASE Redraw
  BY <1>5, <1>0, RefreshShows DEF Redraw, Call, TypeOK
<1>6. CASE Blink
  BY <1>6, <1>0, RefreshShows, ShowCursorGood DEF Blink, Call, TypeOK
<1>7. CASE FinishLine
  <2>1. <<NewLine>> \in Seq(Chars)
    BY DEF Chars
  <2> QED BY <1>7, <1>0, <2>1, ShowCursorGood DEF FinishLine, tputs
<1>8. CASE set_colour_terminal
  <2>1. PICK k \in Colours : Call([t EXCEPT !.colour = k])
    BY <1>8 DEF set_colour_terminal
  <2> DEFINE u == [t EXCEPT !.colour = k]
  <2>2. u \in Terminals
    BY <1>0 DEF Terminals
  <2>3. /\ u.cursor_y = t.cursor_y /\ u.cursor_x = t.cursor_x
        /\ u.screen = t.screen /\ u.video = t.video /\ u.area = t.area
        /\ u.area_x = t.area_x /\ u.area_y = t.area_y
        /\ u.show_cursor = t.show_cursor
    BY <1>0 DEF Terminals
  <2>4. kernel_terminal' = u /\ pc = "idle" /\ msg' = msg /\ pc' = pc
    BY <2>1 DEF Call
  <2> HIDE DEF u
  <2>5. Good(u)
    BY <1>0, <2>2, <2>3, AdvanceGood DEF Good, CursorOn
  <2>6. Picture(u) = Picture(t)
    BY <2>3 DEF Picture, Shown
  <2> QED BY <1>0, <2>3, <2>4, <2>5, <2>6 DEF ScreenShowsText, TypeOK
<1>9. CASE UNCHANGED vars
  BY <1>9, <1>0 DEF vars, ScreenShowsText, TypeOK
<1> QED BY <1>1, <1>2, <1>3, <1>4, <1>5, <1>6, <1>7, <1>8, <1>9 DEF Next

THEOREM Invariant == Spec => []IInv
  BY InitInvariant, NextInvariant, PTL DEF Spec

\* Every terminal the driver can produce is of the type Terminals: in
\* particular no cell is written off the screen.
THEOREM TypeCorrect == Spec => []TypeOK
<1>1. IInv => TypeOK
  BY DEF IInv
<1> QED BY <1>1, Invariant, PTL

\* The cursor is where tputs expects it, after any sequence of calls.
THEOREM CursorStaysReachable == Spec => []CursorReachable
<1>1. IInv => CursorReachable
  BY DEF IInv, Good, CursorReachable
<1> QED BY <1>1, Invariant, PTL

\* tputs only ever writes a glyph into a blank cell.
THEOREM BlankStaysAhead == Spec => []BlankAhead
<1>1. IInv => BlankAhead
  BY DEF IInv, Good, BlankAhead
<1> QED BY <1>1, Invariant, PTL

\* Between calls the screen shows exactly the text and the cursor.
THEOREM ScreenAlwaysShowsText == Spec => []ScreenShowsText
<1>1. IInv => ScreenShowsText
  BY DEF IInv
<1> QED BY <1>1, Invariant, PTL

-----------------------------------------------------------------------------
(* The text before the cursor. *)

\* Moving the cursor without touching the text keeps it in place.
LEMMA SameScreenKept ==
  ASSUME NEW t, NEW u, u.screen = t.screen PROVE Kept(t, u, 0)
  BY SizeFacts DEF Kept

\* Scrolling moves the text up by exactly one row.
LEMMA ScrollKept ==
  ASSUME NEW t, t \in Terminals, NEW r \in Rows, NEW c \in Columns, r - 1 \in Rows
  PROVE  terminal_scroll(t).screen[r - 1][c] = t.screen[r][c]
<1>1. terminal_scroll(t).screen =
        [i \in Rows |-> IF i = rows - 1 THEN [j \in Columns |-> {}] ELSE t.screen[i + 1]]
  BY DEF terminal_scroll, draw_background, Terminals
<1>2. r - 1 # rows - 1 /\ (r - 1) + 1 = r
  BY SizeFacts DEF Rows
<1> QED BY <1>1, <1>2

\* A character that is printed lands outside what is kept: on the cursor's cell,
\* or on the row the wrap or the scroll has opened.
LEMMA PutCharKept ==
  ASSUME NEW t, Good(t), NEW k \in Chars, k # BackSpace
  PROVE  \E n \in 0 .. 1 : Kept(t, PutChar(t, k), n)
<1> DEFINE w == WrapIfFull(t)
<1>1. t \in Terminals /\ Good(w) /\ w.cursor_y \in 0 .. rows /\ w.cursor_x \in Columns
  BY WrapGood DEF Good
<1>2. w.screen = t.screen
  BY <1>1 DEF WrapIfFull, Terminals
<1>3. ASSUME NEW r \in Rows, NEW c \in Columns,
             NoLater(w.cursor_y, w.cursor_x, r, c)
      PROVE  NoLater(t.cursor_y, t.cursor_x, r, c)
  <2>1. CASE t.cursor_x > columns - 1
    <3>1. t.cursor_y \in Rows
      BY <2>1, SizeFacts DEF Good, CursorOn
    <3>2. w.cursor_y = t.cursor_y + 1
      BY <1>1, <2>1 DEF WrapIfFull, Terminals
    <3> QED BY <1>3, <3>1, <3>2, NoLaterRow
  <2>2. CASE ~(t.cursor_x > columns - 1)
    BY <1>3, <2>2 DEF WrapIfFull
  <2> QED BY <2>1, <2>2
<1> HIDE DEF w
<1>4. CASE k \in Colours
  <2>1. PutChar(t, k).screen = t.screen
    <3>1. k # NewLine
      BY <1>4, CharsAssumption
    <3>2. PutChar(t, k) = [t EXCEPT !.colour = k]
      BY <1>4, <3>1 DEF PutChar
    <3> QED BY <1>1, <3>2 DEF Terminals
  <2> QED BY <2>1, SameScreenKept
<1>5. CASE k \notin Colours /\ k = NewLine
  <2> DEFINE u == [w EXCEPT !.cursor_y = @ + 1, !.cursor_x = 0]
  <2>1. PutChar(t, k) = IF u.cursor_y > rows - 1 THEN terminal_scroll(u) ELSE u
    BY <1>5 DEF PutChar, PutNewLine, ScrollIfBelow, w
  <2>2. w.cursor_y + 1 \in 0 .. rows + 1 /\ 0 \in 0 .. columns
    BY <1>1, SizeFacts
  <2>3. u \in Terminals /\ u.screen = t.screen
    BY <1>1, <1>2, <2>2 DEF Good, Terminals
  <2> HIDE DEF u
  <2>4. Kept(t, terminal_scroll(u), 1)
    BY <2>3, ScrollKept DEF Kept
  <2> QED BY <2>1, <2>3, <2>4, SameScreenKept
<1>6. CASE k \notin Colours /\ k # NewLine
  <2> DEFINE v == ScrollIfBelow(w)
             u == WriteCell(v, k)
  <2>1. PutChar(t, k) = u
    BY <1>6 DEF PutChar, w
  <2>2. Good(v) /\ v.cursor_y \in Rows /\ v.cursor_x \in Columns
    BY <1>1, ScrollIfBelowGood
  <2>3. ASSUME NEW r \in Rows, NEW c \in Columns, ~(r = v.cursor_y /\ c = v.cursor_x)
        PROVE  u.screen[r][c] = v.screen[r][c]
    BY <2>2, <2>3 DEF WriteCell, Good, Terminals
  <2>4. CASE w.cursor_y > rows - 1
    <3>1. v = terminal_scroll(w) /\ w \in Terminals
      BY <1>1, <2>4 DEF ScrollIfBelow, Good
    <3>2. v.cursor_y = rows - 1
      BY <1>1, <2>4, <3>1, SizeFacts DEF terminal_scroll, draw_background, Terminals
    <3>3. ASSUME NEW r \in Rows, NEW c \in Columns, r - 1 \in Rows
          PROVE  u.screen[r - 1][c] = t.screen[r][c]
      <4>1. r - 1 # rows - 1
        BY SizeFacts DEF Rows
      <4>2. v.screen[r - 1][c] = w.screen[r][c]
        BY <3>1, <3>3, ScrollKept
      <4> QED BY <1>2, <2>3, <3>2, <3>3, <4>1, <4>2
    <3>4. Kept(t, u, 1)
      BY <3>3 DEF Kept
    <3> QED BY <2>1, <3>4
  <2>5. CASE ~(w.cursor_y > rows - 1)
    <3>1. v = w
      BY <2>5 DEF ScrollIfBelow
    <3>2. ASSUME NEW r \in Rows, NEW c \in Columns,
                 ~NoLater(t.cursor_y, t.cursor_x, r, c)
          PROVE  u.screen[r][c] = t.screen[r][c]
      <4>1. ~(r = v.cursor_y /\ c = v.cursor_x)
        BY <1>3, <3>1, <3>2, NoLaterReflexive
      <4> QED BY <1>2, <2>3, <3>1, <4>1
    <3>3. Kept(t, u, 0)
      BY <3>2, SizeFacts DEF Kept
    <3> QED BY <2>1, <3>3
  <2> QED BY <2>4, <2>5
<1> QED BY <1>4, <1>5, <1>6

\* Printing never loses or reorders the text before the cursor: it stays where
\* it is or moves up by one row.
THEOREM TextIsKept == Spec => TextKept
<1>1. IInv /\ [Next]_vars => [TextKeptStep]_vars
  <2> SUFFICES ASSUME IInv, PutNext, Head(msg) # BackSpace
               PROVE  \E k \in 0 .. 1 : Kept(kernel_terminal, kernel_terminal', k)
    BY DEF TextKeptStep
  <2>1. Head(msg) \in Chars
    BY DEF IInv, TypeOK, PutNext
  <2> QED BY <2>1, PutCharKept DEF IInv, PutNext
<1> QED BY <1>1, Invariant, PTL DEF TextKept, Spec

=============================================================================
