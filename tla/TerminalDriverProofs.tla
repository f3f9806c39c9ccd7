------------------------ MODULE TerminalDriverProofs ------------------------
(***************************************************************************)
(* Lemmas about the operators of TerminalDriver, for every screen of at    *)
(* least two rows, every set of glyphs and of colours: what each leaves of *)
(* a terminal in order.                                                    *)
(*                                                                         *)
(* That the screen shows the text is not kept by every operator: half-way  *)
(* through a string the picture lags behind the text.  Layers is what      *)
(* holds then: a cell shows nothing yet, or its own glyph, or the cursor   *)
(* block if it is the saved cell and the cursor has not moved back before  *)
(* it, and the saved pixels are bare background.  It needs BlankFrom (the  *)
(* cell saved under the cursor is blank), which needs CursorOn.            *)
(***************************************************************************)
EXTENDS TerminalDriver, TLAPS

CellOk(t, r, c) ==
  \/ t.video[r][c] = {}
  \/ t.video[r][c] = t.screen[r][c]
  \/ /\ r = t.area_y /\ c = t.area_x
     /\ t.video[r][c] = {Cursor}
     /\ NoLater(r, c, t.cursor_y, t.cursor_x)

Layers(t) ==
  /\ t.area = {}
  /\ t.area_x = NoArea <=> t.area_y = NoArea
  /\ \A r \in Rows, c \in Columns : CellOk(t, r, c)

Good(t) ==
  /\ t \in Terminals
  /\ CursorOn(t)
  /\ BlankFrom(t)
  /\ Layers(t)

-----------------------------------------------------------------------------
(* The shape of the grids. *)

LEMMA SizeFacts ==
  /\ rows \in Nat /\ rows >= 2 /\ columns \in Nat /\ columns >= 1
  /\ Rows \subseteq Int /\ Columns \subseteq Int
  /\ NoArea \notin Rows /\ NoArea \notin Columns
  BY SizeAssumption DEF Rows, Columns, NoArea

LEMMA NoLaterReflexive ==
  ASSUME NEW r \in Rows, NEW c \in Columns PROVE NoLater(r, c, r, c)
  BY SizeFacts DEF NoLater

LEMMA NoLaterNext ==
  ASSUME NEW y \in Rows, NEW x \in Columns, NEW r \in Rows, NEW c \in Columns
  PROVE  /\ NoLater(y, x + 1, r, c) => NoLater(y, x, r, c) /\ ~(r = y /\ c = x)
         /\ NoLater(r, c, y, x) => NoLater(r, c, y, x + 1)
  BY SizeFacts DEF NoLater

LEMMA NoLaterRow ==
  ASSUME NEW y \in Rows, NEW x0, NEW x, NEW r \in Rows, NEW c \in Columns,
         NoLater(y + 1, x0, r, c)
  PROVE  NoLater(y, x, r, c)
  BY SizeFacts DEF NoLater

LEMMA BlankBitmap == {} \in Bitmaps
  BY DEF Bitmaps

LEMMA BitmapPixels == ASSUME NEW b \in Bitmaps PROVE b \in SUBSET Pixels
  BY DEF Bitmaps, Pixels

LEMMA BitmapType ==
  ASSUME NEW c \in Chars, NEW k \in Colours PROVE bitmap(c, k) \in Bitmaps
  BY DEF bitmap, Bitmaps

\* Clearing the video memory keeps the type, and any text agrees with it.
LEMMA BackgroundType ==
  ASSUME NEW t \in Terminals
  PROVE  /\ draw_background(t) \in Terminals
         /\ \A r \in Rows, c \in Columns : draw_background(t).video[r][c] = {}
  BY DEF draw_background, Terminals, Grid

\* Painting keeps the type of a terminal.
LEMMA PaintType ==
  ASSUME NEW t \in Terminals PROVE Paint(t) \in Terminals
<1>1. ASSUME NEW r \in Rows, NEW c \in Columns
      PROVE  /\ t.video[r][c] \in SUBSET Pixels
             /\ t.screen[r][c] \in SUBSET Pixels
  BY BitmapPixels DEF Terminals
<1>2. t.area \in SUBSET Pixels /\ {Cursor} \in SUBSET Pixels
  BY DEF Terminals, Pixels
<1>3. ASSUME NEW r \in Rows, NEW c \in Columns
      PROVE  Under(t, r, c) \in SUBSET Pixels
  BY <1>1, <1>2 DEF Under
<1> DEFINE v == [r \in Rows |-> [c \in Columns |->
                  IF Shown(t) /\ r = t.cursor_y /\ c = t.cursor_x
                    THEN {Cursor}
                    ELSE Under(t, r, c) \cup t.screen[r][c]]]
<1>4. ASSUME NEW r \in Rows, NEW c \in Columns
      PROVE  (IF Shown(t) /\ r = t.cursor_y /\ c = t.cursor_x
                THEN {Cursor}
                ELSE Under(t, r, c) \cup t.screen[r][c]) \in SUBSET Pixels
  BY <1>1, <1>2, <1>3
<1>5. v \in [Rows -> [Columns -> SUBSET Pixels]]
  BY <1>4
<1>6. Shown(t) => Under(t, t.cursor_y, t.cursor_x) \in SUBSET Pixels
  BY <1>3 DEF Shown
<1>7. Shown(t) => t.cursor_x \in Columns /\ t.cursor_y \in Rows
  BY DEF Shown
<1> HIDE DEF v
<1>8. Paint(t) = [t EXCEPT
                   !.video = v,
                   !.area_x = IF Shown(t) THEN t.cursor_x ELSE @,
                   !.area_y = IF Shown(t) THEN t.cursor_y ELSE @,
                   !.area = IF Shown(t) THEN Under(t, t.cursor_y, t.cursor_x) ELSE @]
  BY DEF Paint, v
<1> QED BY <1>5, <1>6, <1>7, <1>8 DEF Terminals

-----------------------------------------------------------------------------
(* What refresh_terminal shows. *)

\* After one pass every cell shows its own glyph or the block, and what is
\* saved under the block is bare background.
LEMMA PaintShows ==
  ASSUME NEW t, Good(t)
  PROVE  Good(Paint(t)) /\ Paint(t).video = Picture(Paint(t))
<1> DEFINE u == Paint(t)
<1>1. u \in Terminals
  BY PaintType DEF Good
<1>2. /\ u.cursor_x = t.cursor_x /\ u.cursor_y = t.cursor_y
      /\ u.show_cursor = t.show_cursor /\ u.screen = t.screen
      /\ u.area_x = IF Shown(t) THEN t.cursor_x ELSE t.area_x
      /\ u.area_y = IF Shown(t) THEN t.cursor_y ELSE t.area_y
      /\ u.area = IF Shown(t) THEN Under(t, t.cursor_y, t.cursor_x) ELSE t.area
      /\ u.video = [r \in Rows |-> [c \in Columns |->
                      IF Shown(t) /\ r = t.cursor_y /\ c = t.cursor_x
                        THEN {Cursor}
                        ELSE Under(t, r, c) \cup t.screen[r][c]]]
  BY DEF Paint, Good, Terminals
<1> HIDE DEF u
<1>3. Shown(u) <=> Shown(t)
  BY <1>2 DEF Shown
<1>4. ASSUME NEW r \in Rows, NEW c \in Columns,
             Shown(t) => NoLater(r, c, t.cursor_y, t.cursor_x),
             t.video[r][c] = {Cursor}, r = t.area_y, c = t.area_x
      PROVE  Under(t, r, c) = {}
  BY <1>4, SizeFacts DEF Good, Layers, Under, Restored
<1>5. ASSUME NEW r \in Rows, NEW c \in Columns
      PROVE  Under(t, r, c) \cup t.screen[r][c] = t.screen[r][c]
  <2>1. CellOk(t, r, c)
    BY DEF Good, Layers
  <2>2. CASE t.video[r][c] = {} \/ t.video[r][c] = t.screen[r][c]
    BY <2>2 DEF Good, Layers, Under
  <2>3. CASE /\ r = t.area_y /\ c = t.area_x
             /\ t.video[r][c] = {Cursor}
             /\ NoLater(r, c, t.cursor_y, t.cursor_x)
    BY <2>3, <1>4
  <2> QED BY <2>1, <2>2, <2>3 DEF CellOk
<1>6. Shown(t) => Under(t, t.cursor_y, t.cursor_x) = {}
  <2> SUFFICES ASSUME Shown(t) PROVE Under(t, t.cursor_y, t.cursor_x) = {}
    OBVIOUS
  <2>1. t.cursor_y \in Rows /\ t.cursor_x \in Columns
    BY DEF Shown
  <2>2. NoLater(t.cursor_y, t.cursor_x, t.cursor_y, t.cursor_x)
    BY <2>1, NoLaterReflexive
  <2>3. t.screen[t.cursor_y][t.cursor_x] = {}
    BY <2>1, <2>2 DEF Good, BlankFrom
  <2>4. CellOk(t, t.cursor_y, t.cursor_x)
    BY <2>1 DEF Good, Layers
  <2>5. t.video[t.cursor_y][t.cursor_x] = {} => Under(t, t.cursor_y, t.cursor_x) = {}
    BY DEF Under, Good, Layers
  <2> QED BY <2>1, <2>2, <2>3, <2>4, <2>5, <1>4 DEF CellOk
<1>7. u.video = Picture(u)
  <2>1. ASSUME NEW r \in Rows
        PROVE  [c \in Columns |->
                  IF Shown(t) /\ r = t.cursor_y /\ c = t.cursor_x
                    THEN {Cursor}
                    ELSE Under(t, r, c) \cup t.screen[r][c]]
               = [c \in Columns |->
                    IF Shown(t) /\ r = t.cursor_y /\ c = t.cursor_x
                      THEN {Cursor}
                      ELSE t.screen[r][c]]
    BY <1>5
  <2>2. u.video = [r \in Rows |-> [c \in Columns |->
                     IF Shown(t) /\ r = t.cursor_y /\ c = t.cursor_x
                       THEN {Cursor}
                       ELSE t.screen[r][c]]]
    BY <2>1, <1>2
  <2> QED BY <2>2, <1>2, <1>3 DEF Picture
<1>8. Layers(u)
  <2>1. u.area = {}
    BY <1>2, <1>6 DEF Good, Layers
  <2>2. u.area_x = NoArea <=> u.area_y = NoArea
    BY <1>2, SizeFacts DEF Good, Layers, Shown
  <2>3. ASSUME NEW r \in Rows, NEW c \in Columns PROVE CellOk(u, r, c)
    <3>1. CASE Shown(t) /\ r = t.cursor_y /\ c = t.cursor_x
      <4>1. NoLater(r, c, r, c)
        BY NoLaterReflexive
      <4>2. u.video[r][c] = {Cursor}
        BY <1>2, <3>1
      <4>3. u.area_y = r /\ u.area_x = c /\ u.cursor_y = r /\ u.cursor_x = c
        BY <1>2, <3>1
      <4> QED BY <4>1, <4>2, <4>3 DEF CellOk
    <3>2. CASE ~(Shown(t) /\ r = t.cursor_y /\ c = t.cursor_x)
      <4>1. u.video[r][c] = Under(t, r, c) \cup t.screen[r][c]
        BY <1>2, <3>2
      <4>2. u.video[r][c] = u.screen[r][c]
        BY <4>1, <1>2, <1>5
      <4> QED BY <4>2 DEF CellOk
    <3> QED BY <3>1, <3>2
  <2> QED BY <2>1, <2>2, <2>3 DEF Layers
<1>9. CursorOn(u) /\ BlankFrom(u)
  BY <1>2 DEF Good, CursorOn, BlankFrom
<1> QED BY <1>1, <1>7, <1>8, <1>9 DEF Good, u

\* Redrawing the background first needs nothing of what was on the screen.
LEMMA BackgroundGood ==
  ASSUME NEW t, t \in Terminals, CursorOn(t), BlankFrom(t), t.area = {},
         t.area_x = NoArea <=> t.area_y = NoArea
  PROVE  Good(draw_background(t))
<1> DEFINE u == draw_background(t)
<1>1. u \in Terminals /\ \A r \in Rows, c \in Columns : u.video[r][c] = {}
  BY BackgroundType
<1>2. /\ u.cursor_x = t.cursor_x /\ u.cursor_y = t.cursor_y
      /\ u.screen = t.screen /\ u.area = t.area
      /\ u.area_x = t.area_x /\ u.area_y = t.area_y
  BY DEF draw_background, Terminals
<1> HIDE DEF u
<1> QED BY <1>1, <1>2 DEF Good, CursorOn, BlankFrom, Layers, CellOk, u

LEMMA RefreshShows ==
  ASSUME NEW t, Good(t), NEW redraw \in BOOLEAN
  PROVE  /\ Good(refresh_terminal(t, redraw))
         /\ refresh_terminal(t, redraw).video = Picture(refresh_terminal(t, redraw))
<1>1. Good(IF redraw THEN draw_background(t) ELSE t)
  BY BackgroundGood DEF Good, Layers
<1> QED BY <1>1, PaintShows DEF refresh_terminal

-----------------------------------------------------------------------------
(* Each operation of the driver keeps a terminal good. *)

\* Scrolling is called with the cursor one or two rows below the last row that
\* exists, at the start of the row.
LEMMA ScrollGood ==
  ASSUME NEW t, t \in Terminals, t.cursor_y \in {rows, rows + 1}, t.cursor_x = 0,
         t.area = {}, t.area_x = NoArea <=> t.area_y = NoArea
  PROVE  Good(terminal_scroll(t))
<1> DEFINE s == [r \in Rows |-> IF r = rows - 1
                                  THEN [c \in Columns |-> {}]
                                  ELSE t.screen[r + 1]]
           u == [t EXCEPT !.cursor_y = @ - 1, !.screen = s]
<1>1. s \in [Rows -> [Columns -> Bitmaps]]
  <2>1. ASSUME NEW r \in Rows, r # rows - 1 PROVE r + 1 \in Rows
    BY <2>1, SizeFacts DEF Rows
  <2>2. [c \in Columns |-> {}] \in [Columns -> Bitmaps]
    BY BlankBitmap
  <2>3. t.screen \in [Rows -> [Columns -> Bitmaps]]
    BY DEF Terminals
  <2> QED BY <2>1, <2>2, <2>3
<1>2. \A c \in Columns : s[rows - 1][c] = {}
  <2>1. rows - 1 \in Rows
    BY SizeFacts DEF Rows
  <2>2. s[rows - 1] = [c \in Columns |-> {}]
    BY <2>1
  <2> QED BY <2>2
<1> HIDE DEF s
<1>3. t.cursor_y - 1 \in 0 .. rows + 1 /\ t.cursor_y - 1 \in {rows - 1, rows}
  BY SizeFacts
<1>4. u \in Terminals
  BY <1>1, <1>3 DEF Terminals
<1>5. /\ u.cursor_y = t.cursor_y - 1 /\ u.cursor_x = 0 /\ u.screen = s
      /\ u.area = {} /\ (u.area_x = NoArea <=> u.area_y = NoArea)
  BY DEF Terminals
<1>6. terminal_scroll(t) = draw_background(u)
  BY DEF terminal_scroll, s
<1> HIDE DEF u
<1>7. CursorOn(u)
  BY <1>3, <1>5, SizeFacts DEF CursorOn, Rows
<1>8. BlankFrom(u)
  <2> SUFFICES ASSUME NEW r \in Rows, NEW c \in Columns,
                      NoLater(u.cursor_y, u.cursor_x, r, c)
               PROVE  u.screen[r][c] = {}
    BY DEF BlankFrom
  <2>1. r = rows - 1
    BY <1>3, <1>5, SizeFacts DEF NoLater, Rows
  <2> QED BY <2>1, <1>2, <1>5
<1> QED BY <1>4, <1>5, <1>6, <1>7, <1>8, BackgroundGood

\* The wrap that was put off leaves the cursor at the start of a row, which may
\* be the one below the last.
LEMMA WrapGood ==
  ASSUME NEW t, Good(t)
  PROVE  /\ Good(WrapIfFull(t))
         /\ WrapIfFull(t).cursor_y \in 0 .. rows
         /\ WrapIfFull(t).cursor_x \in Columns
<1>1. t \in Terminals /\ t.cursor_x \in 0 .. columns
  BY DEF Good, Terminals
<1>2. CASE t.cursor_x > columns - 1
  <2> DEFINE u == [t EXCEPT !.cursor_x = 0, !.cursor_y = @ + 1]
  <2>1. t.cursor_x = columns /\ t.cursor_y \in Rows
    BY <1>1, <1>2, SizeFacts DEF Good, CursorOn
  <2>2. t.cursor_y + 1 \in 1 .. rows
    BY <2>1, SizeFacts DEF Rows
  <2>3. u \in Terminals
    <3>1. t.cursor_y + 1 \in 0 .. rows + 1 /\ 0 \in 0 .. columns
      BY <2>2, SizeFacts
    <3> QED BY <1>1, <3>1 DEF Terminals
  <2>4. /\ u.cursor_x = 0 /\ u.cursor_y = t.cursor_y + 1
        /\ u.screen = t.screen /\ u.video = t.video
        /\ u.area = t.area /\ u.area_x = t.area_x /\ u.area_y = t.area_y
    BY <1>1 DEF Terminals
  <2> HIDE DEF u
  <2>5. CursorOn(u)
    BY <2>2, <2>4, SizeFacts DEF CursorOn, Rows
  <2>6. ASSUME NEW r \in Rows, NEW c \in Columns
        PROVE  NoLater(t.cursor_y, t.cursor_x, r, c)
                 <=> NoLater(u.cursor_y, u.cursor_x, r, c)
    BY <2>1, <2>4, SizeFacts DEF NoLater, Rows, Columns
  <2>7. BlankFrom(u)
    BY <2>4, <2>6 DEF Good, BlankFrom
  <2>8. ASSUME NEW r \in Rows, NEW c \in Columns,
               NoLater(r, c, t.cursor_y, t.cursor_x)
        PROVE  NoLater(r, c, u.cursor_y, u.cursor_x)
    BY <2>1, <2>4, <2>8, SizeFacts DEF NoLater, Rows, Columns
  <2>9. Layers(u)
    BY <2>4, <2>8 DEF Good, Layers, CellOk
  <2>10. WrapIfFull(t) = u
    BY <1>2 DEF WrapIfFull, u
  <2> QED BY <2>2, <2>3, <2>4, <2>5, <2>7, <2>9, <2>10, SizeFacts DEF Good, Columns
<1>3. CASE ~(t.cursor_x > columns - 1)
  BY <1>1, <1>3, SizeFacts DEF WrapIfFull, Good, CursorOn, Rows, Columns
<1> QED BY <1>2, <1>3

\* Moving the cursor on, with nothing written, keeps a terminal good.
LEMMA AdvanceGood ==
  ASSUME NEW t, Good(t), NEW u, u \in Terminals, CursorOn(u),
         u.screen = t.screen, u.video = t.video, u.area = t.area,
         u.area_x = t.area_x, u.area_y = t.area_y,
         \A r \in Rows, c \in Columns :
           /\ NoLater(u.cursor_y, u.cursor_x, r, c)
                => NoLater(t.cursor_y, t.cursor_x, r, c)
           /\ NoLater(r, c, t.cursor_y, t.cursor_x)
                => NoLater(r, c, u.cursor_y, u.cursor_x)
  PROVE  Good(u)
<1>1. BlankFrom(u)
  BY DEF Good, BlankFrom
<1>2. Layers(u)
  BY DEF Good, Layers, CellOk
<1> QED BY <1>1, <1>2 DEF Good

LEMMA NewLineGood ==
  ASSUME NEW t, Good(t), t.cursor_y \in 0 .. rows, t.cursor_x \in Columns
  PROVE  Good(PutNewLine(t))
<1> DEFINE u == [t EXCEPT !.cursor_y = @ + 1, !.cursor_x = 0]
<1>1. t \in Terminals
  BY DEF Good
<1>2. t.cursor_y + 1 \in 0 .. rows + 1 /\ 0 \in 0 .. columns
  BY SizeFacts
<1>3. u \in Terminals
  BY <1>1, <1>2 DEF Terminals
<1>4. /\ u.cursor_y = t.cursor_y + 1 /\ u.cursor_x = 0
      /\ u.screen = t.screen /\ u.video = t.video /\ u.area = t.area
      /\ u.area_x = t.area_x /\ u.area_y = t.area_y
  BY <1>1 DEF Terminals
<1>5. PutNewLine(t) = IF u.cursor_y > rows - 1 THEN terminal_scroll(u) ELSE u
  BY DEF PutNewLine, ScrollIfBelow
<1> HIDE DEF u
<1>6. CASE u.cursor_y > rows - 1
  <2>1. u.cursor_y \in {rows, rows + 1}
    BY <1>2, <1>4, <1>6, SizeFacts
  <2>2. u.area = {} /\ (u.area_x = NoArea <=> u.area_y = NoArea)
    BY <1>4 DEF Good, Layers
  <2> QED BY <1>3, <1>4, <1>5, <1>6, <2>1, <2>2, ScrollGood
<1>7. CASE ~(u.cursor_y > rows - 1)
  <2>1. u.cursor_y \in Rows
    BY <1>2, <1>4, <1>7, SizeFacts DEF Rows
  <2>2. CursorOn(u)
    BY <2>1 DEF CursorOn
  <2>3. ASSUME NEW r \in Rows, NEW c \in Columns
        PROVE  /\ NoLater(u.cursor_y, u.cursor_x, r, c)
                    => NoLater(t.cursor_y, t.cursor_x, r, c)
               /\ NoLater(r, c, t.cursor_y, t.cursor_x)
                    => NoLater(r, c, u.cursor_y, u.cursor_x)
    BY <1>4, SizeFacts DEF NoLater
  <2>4. Good(u)
    BY <1>3, <1>4, <2>2, <2>3, AdvanceGood
  <2> QED BY <1>5, <1>7, <2>4
<1> QED BY <1>6, <1>7

\* A character is written over a blank cell, onto which the cursor has just
\* been brought by the wrap and the scroll.
LEMMA ScrollIfBelowGood ==
  ASSUME NEW t, Good(t), t.cursor_y \in 0 .. rows, t.cursor_x \in Columns
  PROVE  LET u == ScrollIfBelow(t)
         IN  Good(u) /\ u.cursor_y \in Rows /\ u.cursor_x \in Columns
<1>1. t \in Terminals
  BY DEF Good
<1>2. CASE t.cursor_y > rows - 1
  <2>1. t.cursor_y = rows /\ t.cursor_x = 0
    BY <1>2, SizeFacts DEF Good, CursorOn, Rows
  <2>2. Good(terminal_scroll(t))
    BY <1>1, <2>1, ScrollGood DEF Good, Layers
  <2>3. /\ terminal_scroll(t).cursor_y = t.cursor_y - 1
        /\ terminal_scroll(t).cursor_x = t.cursor_x
    BY <1>1 DEF terminal_scroll, draw_background, Terminals
  <2>4. rows - 1 \in Rows
    BY SizeFacts DEF Rows
  <2> QED BY <1>2, <2>1, <2>2, <2>3, <2>4 DEF ScrollIfBelow
<1>3. CASE ~(t.cursor_y > rows - 1)
  <2>1. t.cursor_y \in Rows
    BY <1>3, SizeFacts DEF Rows
  <2> QED BY <1>3, <2>1 DEF ScrollIfBelow
<1> QED BY <1>2, <1>3

LEMMA WriteGood ==
  ASSUME NEW t, Good(t), t.cursor_y \in Rows, t.cursor_x \in Columns,
         NEW k \in Chars
  PROVE  Good(WriteCell(t, k))
<1> DEFINE s == [t.screen EXCEPT ![t.cursor_y][t.cursor_x] = bitmap(k, t.colour)]
           u == [t EXCEPT !.screen = s, !.cursor_x = @ + 1]
<1>1. t \in Terminals /\ t.screen \in [Rows -> [Columns -> Bitmaps]]
  BY DEF Good, Terminals
<1>2. bitmap(k, t.colour) \in Bitmaps
  BY <1>1, BitmapType DEF Terminals
<1>3. s \in [Rows -> [Columns -> Bitmaps]]
  BY <1>1, <1>2
<1>4. ASSUME NEW r \in Rows, NEW c \in Columns
      PROVE  s[r][c] = t.screen[r][c] \/ (r = t.cursor_y /\ c = t.cursor_x)
  BY <1>1
<1>5. WriteCell(t, k) = u
  BY <1>1 DEF WriteCell, Terminals
<1> HIDE DEF s
<1>6. t.cursor_x + 1 \in 0 .. columns
  BY SizeFacts DEF Columns
<1>7. u \in Terminals
  BY <1>1, <1>3, <1>6 DEF Terminals
<1>8. /\ u.cursor_y = t.cursor_y /\ u.cursor_x = t.cursor_x + 1
      /\ u.screen = s /\ u.video = t.video /\ u.area = t.area
      /\ u.area_x = t.area_x /\ u.area_y = t.area_y
  BY <1>1 DEF Terminals
<1> HIDE DEF u
<1>9. CursorOn(u)
  BY <1>8 DEF CursorOn
<1>10. ASSUME NEW r \in Rows, NEW c \in Columns,
              NoLater(u.cursor_y, u.cursor_x, r, c)
       PROVE  u.screen[r][c] = {}
  <2>1. /\ NoLater(t.cursor_y, t.cursor_x, r, c)
        /\ ~(r = t.cursor_y /\ c = t.cursor_x)
    BY <1>8, <1>10, NoLaterNext
  <2> QED BY <1>4, <1>8, <2>1 DEF Good, BlankFrom
<1>11. ASSUME NEW r \in Rows, NEW c \in Columns PROVE CellOk(u, r, c)
  <2>1. CellOk(t, r, c)
    BY DEF Good, Layers
  <2>2. NoLater(r, c, t.cursor_y, t.cursor_x)
          => NoLater(r, c, u.cursor_y, u.cursor_x)
    BY <1>8, NoLaterNext
  <2>3. CASE r = t.cursor_y /\ c = t.cursor_x
    <3>1. t.screen[r][c] = {}
      BY <2>3, NoLaterReflexive DEF Good, BlankFrom
    <3> QED BY <1>8, <2>1, <2>2, <3>1 DEF CellOk
  <2>4. CASE ~(r = t.cursor_y /\ c = t.cursor_x)
    <3>1. u.screen[r][c] = t.screen[r][c]
      BY <1>4, <1>8, <2>4
    <3> QED BY <1>8, <2>1, <2>2, <3>1 DEF CellOk
  <2> QED BY <2>3, <2>4
<1> QED BY <1>5, <1>7, <1>8, <1>9, <1>10, <1>11 DEF Good, BlankFrom, Layers

\* A backspace that is not at the top left steps back to a cell of the screen,
\* and blanks it.
LEMMA StepBackErases ==
  ASSUME NEW t, Good(t), t.cursor_x \in Columns, ~(t.cursor_x = 0 /\ t.cursor_y = 0)
  PROVE  LET u == EraseCell(StepBack(t))
         IN  /\ u \in Terminals /\ Good(draw_background(u))
             /\ u.show_cursor = t.show_cursor
             /\ u.cursor_x = IF t.cursor_x = 0 THEN columns - 1 ELSE t.cursor_x - 1
             /\ u.cursor_y = IF t.cursor_x = 0 THEN t.cursor_y - 1 ELSE t.cursor_y
             /\ \A r \in Rows, c \in Columns :
                  u.screen[r][c] = IF r = u.cursor_y /\ c = u.cursor_x
                                     THEN {} ELSE t.screen[r][c]
<1> DEFINE y == IF t.cursor_x = 0 THEN t.cursor_y - 1 ELSE t.cursor_y
           x == IF t.cursor_x = 0 THEN columns - 1 ELSE t.cursor_x - 1
           s == [t.screen EXCEPT ![y][x] = {}]
           u == [t EXCEPT !.cursor_x = x, !.cursor_y = y, !.screen = s]
<1>1. t \in Terminals /\ t.screen \in [Rows -> [Columns -> Bitmaps]]
  BY DEF Good, Terminals
<1>2. t.cursor_y \in 0 .. rows
  BY SizeFacts DEF Good, CursorOn, Rows
<1>3. y \in Rows /\ x \in Columns
  BY <1>2, SizeFacts DEF Good, CursorOn, Rows, Columns
<1>4. ASSUME NEW r \in Rows, NEW c \in Columns, NoLater(y, x, r, c)
      PROVE  NoLater(t.cursor_y, t.cursor_x, r, c) \/ (r = y /\ c = x)
  BY <1>2, <1>4, SizeFacts DEF NoLater, Rows, Columns
<1>5. EraseCell(StepBack(t)) = u
  BY <1>1 DEF EraseCell, StepBack, Terminals
<1>6. /\ x = IF t.cursor_x = 0 THEN columns - 1 ELSE t.cursor_x - 1
      /\ y = IF t.cursor_x = 0 THEN t.cursor_y - 1 ELSE t.cursor_y
  OBVIOUS
<1> HIDE DEF x, y
<1>7. s \in [Rows -> [Columns -> Bitmaps]]
  BY <1>1, <1>3, BlankBitmap
<1>8. ASSUME NEW r \in Rows, NEW c \in Columns
      PROVE  s[r][c] = IF r = y /\ c = x THEN {} ELSE t.screen[r][c]
  BY <1>1, <1>3
<1> HIDE DEF s
<1>9. y \in 0 .. rows + 1 /\ x \in 0 .. columns
  BY <1>3, SizeFacts DEF Rows, Columns
<1>10. u \in Terminals
  BY <1>1, <1>7, <1>9 DEF Terminals
<1>11. /\ u.cursor_y = y /\ u.cursor_x = x /\ u.screen = s
       /\ u.area = t.area /\ u.area_x = t.area_x /\ u.area_y = t.area_y
       /\ u.show_cursor = t.show_cursor
  BY <1>1 DEF Terminals
<1> HIDE DEF u
<1>12. CursorOn(u)
  BY <1>3, <1>11 DEF CursorOn
<1>13. BlankFrom(u)
  BY <1>4, <1>8, <1>11 DEF Good, BlankFrom
<1>14. Good(draw_background(u))
  BY <1>10, <1>11, <1>12, <1>13, BackgroundGood DEF Good, Layers
<1> QED BY <1>5, <1>6, <1>8, <1>10, <1>11, <1>14

\* A backspace redraws everything from the background up.
LEMMA BackSpaceGood ==
  ASSUME NEW t, Good(t), t.cursor_x \in Columns
  PROVE  Good(PutBackSpace(t))
<1>1. CASE t.cursor_x = 0 /\ t.cursor_y = 0
  BY <1>1 DEF PutBackSpace
<1>2. CASE ~(t.cursor_x = 0 /\ t.cursor_y = 0)
  BY <1>2, StepBackErases, PaintShows DEF PutBackSpace, refresh_terminal
<1> QED BY <1>1, <1>2

\* One turn of the loop of tputs.
LEMMA PutCharGood ==
  ASSUME NEW t, Good(t), NEW k \in Chars PROVE Good(PutChar(t, k))
<1>1. NewLine \notin Colours /\ BackSpace \notin Colours /\ NewLine # BackSpace
  BY CharsAssumption DEF NewLine, BackSpace
<1>2. CASE k \in Colours
  <2> DEFINE u == [t EXCEPT !.colour = k]
  <2>1. t \in Terminals
    BY DEF Good
  <2>2. u \in Terminals
    BY <1>2, <2>1 DEF Terminals
  <2>3. /\ u.cursor_y = t.cursor_y /\ u.cursor_x = t.cursor_x
        /\ u.screen = t.screen /\ u.video = t.video /\ u.area = t.area
        /\ u.area_x = t.area_x /\ u.area_y = t.area_y
    BY <2>1 DEF Terminals
  <2>4. PutChar(t, k) = u
    BY <1>1, <1>2 DEF PutChar
  <2> HIDE DEF u
  <2>5. CursorOn(u)
    BY <2>3 DEF Good, CursorOn
  <2> QED BY <2>2, <2>3, <2>4, <2>5, AdvanceGood
<1>3. CASE k = NewLine
  <2>1. PutChar(t, k) = PutNewLine(WrapIfFull(t))
    BY <1>1, <1>3 DEF PutChar
  <2> QED BY <2>1, WrapGood, NewLineGood
<1>4. CASE k = BackSpace
  <2>1. PutChar(t, k) = PutBackSpace(WrapIfFull(t))
    BY <1>1, <1>4 DEF PutChar
  <2> QED BY <2>1, WrapGood, BackSpaceGood
<1>5. CASE k \notin Colours /\ k # NewLine /\ k # BackSpace
  <2>1. PutChar(t, k) = WriteCell(ScrollIfBelow(WrapIfFull(t)), k)
    BY <1>5 DEF PutChar
  <2> QED BY <2>1, WrapGood, ScrollIfBelowGood, WriteGood
<1> QED BY <1>2, <1>3, <1>4, <1>5

LEMMA ClearGood ==
  ASSUME NEW t, Good(t)
  PROVE  Good(clear_terminal(t)) /\ clear_terminal(t).video = Picture(clear_terminal(t))
<1> DEFINE u == [t EXCEPT !.screen = Grid({}), !.cursor_x = 0, !.cursor_y = 0]
<1>1. t \in Terminals
  BY DEF Good
<1>2. Grid({}) \in [Rows -> [Columns -> Bitmaps]]
  BY BlankBitmap DEF Grid
<1>3. 0 \in 0 .. columns /\ 0 \in 0 .. rows + 1 /\ 0 \in Rows
  BY SizeFacts DEF Rows
<1>4. u \in Terminals
  BY <1>1, <1>2, <1>3 DEF Terminals
<1>5. /\ u.cursor_y = 0 /\ u.screen = Grid({}) /\ u.area = {}
      /\ u.area_x = NoArea <=> u.area_y = NoArea
  BY <1>1 DEF Terminals, Good, Layers
<1>6. clear_terminal(t) = Paint(draw_background(u))
  BY DEF clear_terminal, refresh_terminal
<1> HIDE DEF u
<1>7. CursorOn(u) /\ BlankFrom(u)
  BY <1>3, <1>5 DEF CursorOn, BlankFrom, Grid
<1>8. Good(draw_background(u))
  BY <1>4, <1>5, <1>7, BackgroundGood
<1> QED BY <1>6, <1>8, PaintShows

LEMMA ShowCursorGood ==
  ASSUME NEW t, Good(t), NEW b \in BOOLEAN
  PROVE  Good([t EXCEPT !.show_cursor = b])
<1> DEFINE u == [t EXCEPT !.show_cursor = b]
<1>1. t \in Terminals
  BY DEF Good
<1>2. u \in Terminals
  BY <1>1 DEF Terminals
<1>3. /\ u.cursor_y = t.cursor_y /\ u.cursor_x = t.cursor_x
      /\ u.screen = t.screen /\ u.video = t.video /\ u.area = t.area
      /\ u.area_x = t.area_x /\ u.area_y = t.area_y
  BY <1>1 DEF Terminals
<1> HIDE DEF u
<1>4. CursorOn(u)
  BY <1>3 DEF Good, CursorOn
<1>5. Good(u)
  BY <1>2, <1>3, <1>4, AdvanceGood
<1> QED BY <1>5 DEF u

\* The terminal that init_terminal makes.
LEMMA NewGood == Good(init_terminal) /\ init_terminal.video = Picture(init_terminal)
<1> DEFINE t == init_terminal
<1>1. Grid({}) \in [Rows -> [Columns -> Bitmaps]]
  BY BlankBitmap DEF Grid
<1>2. Grid({}) \in [Rows -> [Columns -> SUBSET Pixels]]
  BY DEF Grid
<1>3. 0 \in 0 .. columns /\ 0 \in 0 .. rows + 1 /\ 0 \in Rows
  BY SizeFacts DEF Rows
<1>4. /\ t.cursor_x = 0 /\ t.cursor_y = 0 /\ t.show_cursor = FALSE
      /\ t.screen = Grid({}) /\ t.video = Grid({}) /\ t.area = {}
      /\ t.area_x = NoArea /\ t.area_y = NoArea
  BY DEF init_terminal
<1>5. t \in Terminals
  BY <1>1, <1>2, <1>3, CharsAssumption DEF init_terminal, Terminals
<1>6. CursorOn(t) /\ BlankFrom(t) /\ Layers(t)
  BY <1>3, <1>4 DEF CursorOn, BlankFrom, Layers, CellOk, Grid
<1>7. t.video = Picture(t)
  BY <1>4 DEF Picture, Grid, Shown
<1> QED BY <1>5, <1>6, <1>7 DEF Good

=============================================================================
