--------------------------- MODULE TerminalDriver ---------------------------
(***************************************************************************)
(* The terminal driver (src/src/terminal.c) with the part of the graphics  *)
(* driver it paints through (src/src/graphics.c).                          *)
(*                                                                         *)
(* The operators take and return a terminal as a record, the way the C     *)
(* functions take a "struct terminal *"; the record also carries the       *)
(* globals area, area_x and area_y and the video memory, which no other    *)
(* part of the kernel writes once the terminal exists.                     *)
(*                                                                         *)
(* A bitmap is abstracted to the set of the pixels it sets: {} for a byte  *)
(* without a shape in default_font (and for a zeroed cell), one element    *)
(* for a glyph in a colour, {Cursor} for the solid block.  Video memory    *)
(* holds, per character cell, what has been painted over the background    *)
(* picture; two elements in one cell are two shapes printed over each      *)
(* other.                                                                  *)
(***************************************************************************)
EXTENDS ControlCharacters, Integers, Sequences

CONSTANTS
  rows,      \* KERNEL_TERMINAL_ROWS, 16
  columns,   \* KERNEL_TERMINAL_COLUMNS, 32
  Glyphs,    \* characters to which default_font gives a shape
  Colours    \* the colours of the codes 0xF0 .. 0xFF; "black" is the first

Space == "space"      \* any character whose default_font entry is 0

\* A colour code 0xF0 | colour is named by its colour.
Chars == Glyphs \cup Colours \cup {NewLine, BackSpace, Space}

ASSUME SizeAssumption ==
  /\ rows \in Nat /\ rows >= 2
  /\ columns \in Nat /\ columns >= 1
ASSUME CharsAssumption ==
  /\ "black" \in Colours
  /\ Glyphs \cap Colours = {}
  /\ (Glyphs \cup Colours) \cap {NewLine, BackSpace, Space} = {}
  /\ "cursor" \notin Glyphs

Rows == 0 .. rows - 1
Columns == 0 .. columns - 1

Cursor == <<"cursor", "black">>                \* the 25 set bits of the block
Bitmaps == {{}} \cup {{<<g, k>>} : g \in Glyphs, k \in Colours}
Pixels == (Glyphs \X Colours) \cup {Cursor}

NoArea == -1      \* 65535, the initial area_x and area_y

Terminals ==
  [cursor_x    : 0 .. columns,
   cursor_y    : 0 .. rows + 1,   \* two rows below the last, inside PutNewLine
   show_cursor : BOOLEAN,
   colour      : Colours,
   screen      : [Rows -> [Columns -> Bitmaps]],
   video       : [Rows -> [Columns -> SUBSET Pixels]],
   area_x      : Columns \cup {NoArea},
   area_y      : Rows \cup {NoArea},
   area        : SUBSET Pixels]

Grid(cell) == [r \in Rows |-> [c \in Columns |-> cell]]

-----------------------------------------------------------------------------
(* Graphics. *)

draw_background(t) == [t EXCEPT !.video = Grid({})]

\* The loops of refresh_terminal visit cell <<r1, c1>> no later than <<r2, c2>>.
NoLater(r1, c1, r2, c2) == r1 < r2 \/ (r1 = r2 /\ c1 <= c2)

\* The cursor block is painted: it is enabled and on a cell the loops visit.
Shown(t) == t.show_cursor /\ t.cursor_y \in Rows /\ t.cursor_x \in Columns

\* Mutant: restore_area is never called.
Restored_Never(t) == FALSE

\* The loops meet the saved cell before save_area moves it elsewhere.
Restored(t) ==
  /\ t.area_x # NoArea
  /\ Shown(t) => NoLater(t.area_y, t.area_x, t.cursor_y, t.cursor_x)

\* What is on cell <<r, c>> when refresh_terminal comes to paint it.
Under(t, r, c) ==
  IF Restored(t) /\ r = t.area_y /\ c = t.area_x THEN t.area ELSE t.video[r][c]

\* One pass over the cells in row order: restore_area on the saved cell,
\* save_area and the block on the cursor's, display_bitmap on the others.
\* display_bitmap sets pixels and never clears one.
Paint(t) ==
  [t EXCEPT
    !.video = [r \in Rows |-> [c \in Columns |->
                 IF Shown(t) /\ r = t.cursor_y /\ c = t.cursor_x
                   THEN {Cursor}
                   ELSE Under(t, r, c) \cup t.screen[r][c]]],
    !.area_x = IF Shown(t) THEN t.cursor_x ELSE @,
    !.area_y = IF Shown(t) THEN t.cursor_y ELSE @,
    !.area = IF Shown(t) THEN Under(t, t.cursor_y, t.cursor_x) ELSE @]

refresh_terminal(t, redraw) == Paint(IF redraw THEN draw_background(t) ELSE t)

-----------------------------------------------------------------------------
(* The terminal driver. *)

init_terminal ==
  [cursor_x |-> 0, cursor_y |-> 0, show_cursor |-> FALSE, colour |-> "black",
   screen |-> Grid({}), video |-> Grid({}),
   area_x |-> NoArea, area_y |-> NoArea, area |-> {}]

\* Mutant: the list is not rotated, only its last row cleared.
terminal_scroll_NoRotation(t) ==
  draw_background(
    [t EXCEPT
      !.cursor_y = @ - 1,
      !.screen[rows - 1] = [c \in Columns |-> {}]])

\* The first row of the list is cleared and becomes its last.
terminal_scroll(t) ==
  draw_background(
    [t EXCEPT
      !.cursor_y = @ - 1,
      !.screen = [r \in Rows |-> IF r = rows - 1
                                   THEN [c \in Columns |-> {}]
                                   ELSE t.screen[r + 1]]])

\* Mutant: the test is one row late.
ScrollIfBelow_Late(t) == IF t.cursor_y > rows THEN terminal_scroll(t) ELSE t

ScrollIfBelow(t) == IF t.cursor_y > rows - 1 THEN terminal_scroll(t) ELSE t

\* Mutant: the test is one column late.
WrapIfFull_Late(t) ==
  IF t.cursor_x > columns
    THEN [t EXCEPT !.cursor_x = 0, !.cursor_y = @ + 1]
    ELSE t

\* The wrap of a full row happens when the next character arrives.
WrapIfFull(t) ==
  IF t.cursor_x > columns - 1
    THEN [t EXCEPT !.cursor_x = 0, !.cursor_y = @ + 1]
    ELSE t

PutNewLine(t) ==
  ScrollIfBelow([t EXCEPT !.cursor_y = @ + 1, !.cursor_x = 0])

\* Mutant: the row above is not reached.
StepBack_SameRow(t) ==
  [t EXCEPT !.cursor_x = IF @ = 0 THEN columns - 1 ELSE @ - 1]

\* cursor_x is a uint16_t: below 0 it is 0xFFFF, the end of the row above.
StepBack(t) ==
  IF t.cursor_x = 0
    THEN [t EXCEPT !.cursor_x = columns - 1, !.cursor_y = @ - 1]
    ELSE [t EXCEPT !.cursor_x = @ - 1]

\* Mutant: the cell keeps its glyph.
EraseCell_Kept(t) == t

EraseCell(t) == [t EXCEPT !.screen[t.cursor_y][t.cursor_x] = {}]

PutBackSpace(t) ==
  IF t.cursor_x = 0 /\ t.cursor_y = 0
    THEN t
    ELSE refresh_terminal(EraseCell(StepBack(t)), TRUE)

bitmap(c, colour) == IF c \in Glyphs THEN {<<c, colour>>} ELSE {}

WriteCell(t, c) ==
  [t EXCEPT !.screen[t.cursor_y][t.cursor_x] = bitmap(c, t.colour),
            !.cursor_x = @ + 1]

\* One turn of the loop of tputs.
PutChar(t, c) ==
  CASE c \in Colours   -> [t EXCEPT !.colour = c]
    [] c = NewLine     -> PutNewLine(WrapIfFull(t))
    [] c = BackSpace   -> PutBackSpace(WrapIfFull(t))
    [] OTHER           -> WriteCell(ScrollIfBelow(WrapIfFull(t)), c)

clear_terminal(t) ==
  refresh_terminal([t EXCEPT !.screen = Grid({}), !.cursor_x = 0, !.cursor_y = 0],
                   TRUE)

-----------------------------------------------------------------------------
(* What the properties of a terminal are stated with. *)

\* The cursor is on a cell, just past the end of a row, or at the start of the
\* row below the last.
CursorOn(t) ==
  \/ t.cursor_y \in Rows
  \/ t.cursor_y = rows /\ t.cursor_x = 0

\* No cell at or after the cursor holds a glyph.
BlankFrom(t) ==
  \A r \in Rows, c \in Columns :
    NoLater(t.cursor_y, t.cursor_x, r, c) => t.screen[r][c] = {}

\* What the screen should show: each cell's own glyph on the background, and
\* the block on the cursor's cell when the cursor is enabled.
Picture(t) ==
  [r \in Rows |-> [c \in Columns |->
     IF Shown(t) /\ r = t.cursor_y /\ c = t.cursor_x
       THEN {Cursor}
       ELSE t.screen[r][c]]]

=============================================================================
