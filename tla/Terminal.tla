------------------------------ MODULE Terminal ------------------------------
(***************************************************************************)
(* The kernel's one terminal, driven by any sequence of calls of the       *)
(* terminal driver (TerminalDriver).  A call of tputs takes a step per     *)
(* character, so that the invariants also speak of the terminal half-way   *)
(* through a string.                                                       *)
(***************************************************************************)
EXTENDS TerminalDriver

CONSTANT Messages   \* the strings the rest of the kernel passes to tputs

ASSUME MessagesAssumption == Messages \subseteq Seq(Chars)

VARIABLES
  kernel_terminal,
  msg,               \* what the running call of tputs still has to print
  pc                 \* "idle", or "put" inside tputs

vars == <<kernel_terminal, msg, pc>>

Init ==
  /\ kernel_terminal = init_terminal
  /\ msg = <<>>
  /\ pc = "idle"

tputs(t, m) ==
  /\ pc = "idle"
  /\ kernel_terminal' = t
  /\ msg' = m
  /\ pc' = "put"

CallTputs == \E m \in Messages : tputs(kernel_terminal, m)

PutNext ==
  /\ pc = "put"
  /\ msg # <<>>
  /\ kernel_terminal' = PutChar(kernel_terminal, Head(msg))
  /\ msg' = Tail(msg)
  /\ UNCHANGED pc

EndTputs ==
  /\ pc = "put"
  /\ msg = <<>>
  /\ kernel_terminal' = refresh_terminal(kernel_terminal, FALSE)
  /\ pc' = "idle"
  /\ UNCHANGED msg

Call(t) ==
  /\ pc = "idle"
  /\ kernel_terminal' = t
  /\ UNCHANGED <<msg, pc>>

ClearTerminal == Call(clear_terminal(kernel_terminal))

\* shell() paints the screen once before it starts.
Redraw == Call(refresh_terminal(kernel_terminal, TRUE))

\* kgetline blinks the cursor while no key is waiting ...
Blink ==
  \E b \in BOOLEAN :
    Call(refresh_terminal([kernel_terminal EXCEPT !.show_cursor = b], FALSE))

\* ... and hides it before it prints the newline that ends the line.
FinishLine == tputs([kernel_terminal EXCEPT !.show_cursor = FALSE], <<NewLine>>)

set_colour_terminal ==
  \E k \in Colours : Call([kernel_terminal EXCEPT !.colour = k])

Next ==
  \/ CallTputs
  \/ PutNext
  \/ EndTputs
  \/ ClearTerminal
  \/ Redraw
  \/ Blink
  \/ FinishLine
  \/ set_colour_terminal

Spec == Init /\ [][Next]_vars

-----------------------------------------------------------------------------
(* Properties. *)

\* The terminal, the pending string and the program counter have their types.
TypeOK ==
  /\ kernel_terminal \in Terminals
  /\ msg \in Seq(Chars)
  /\ pc \in {"idle", "put"}

\* Between two characters the cursor is on a cell, just past the end of a row
\* (the wrap that tputs puts off), or at the start of the row below the last,
\* and nowhere else: so the row walk and the cell tputs writes next, whatever
\* the character, are on the screen.
CursorReachable == CursorOn(kernel_terminal)

\* No cell at or after the cursor holds a glyph.  display_bitmap never clears a
\* pixel, so a glyph written over another would leave both on the screen: tputs
\* relies on always writing into a blank cell.
BlankAhead == BlankFrom(kernel_terminal)

\* Whenever no call is running, the screen shows exactly the text and the
\* cursor: saving, restoring and repainting leave no trace of an old cursor
\* and no overprinted cell, although most refreshes do not redraw the background.
ScreenShowsText ==
  pc = "idle" => kernel_terminal.video = Picture(kernel_terminal)

\* The text of t before its cursor is that of u, k rows higher.
Kept(t, u, k) ==
  \A r \in Rows, c \in Columns :
    (r - k \in Rows /\ ~NoLater(t.cursor_y, t.cursor_x, r, c))
      => u.screen[r - k][c] = t.screen[r][c]

\* A character other than a backspace leaves the text before the cursor as it
\* was, or moves all of it up by one row: never two rows, never a lost cell.
TextKeptStep ==
  PutNext /\ Head(msg) # BackSpace
    => \E k \in 0 .. 1 : Kept(kernel_terminal, kernel_terminal', k)

TextKept == [][TextKeptStep]_vars

=============================================================================
