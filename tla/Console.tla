------------------------------ MODULE Console ------------------------------
(***************************************************************************)
(* The shell's console: Keyboard with the terminal of TerminalDriver.      *)
(* Each step of the kernel's thread does to the terminal what the code     *)
(* does there.  Only that thread touches the terminal, so a call of tputs  *)
(* is one step here.                                                       *)
(***************************************************************************)
EXTENDS Keyboard, TerminalDriver

CONSTANTS
  Prompt,            \* the character '>'
  ClearCommand,      \* the line that clears the screen, "CLEAR"
  Reply              \* what every other command prints

\* A character without a shape is a Space, and the terminator of a string is no
\* character of one.
ASSUME FontAssumption == Printable \cup {Prompt} \subseteq (Glyphs \cup {Space}) \ {Nul}
ASSUME ReplyAssumption == Reply \in Seq(Chars)

\* The longest line with its prompt fits on the screen with a row to spare:
\* 258 characters on 16 rows of 32.
ASSUME LineOnScreen == capacity + 2 <= (rows - 1) * columns

VARIABLE terminal

console_vars == <<vars, terminal>>

\* The loop of tputs: the terminal when a number of characters of m are printed.
Printed(t, m) ==
  LET after[k \in 0 .. Len(m)] == IF k = 0 THEN t ELSE PutChar(after[k - 1], m[k])
  IN  after[Len(m)]

tputs(t, m) == refresh_terminal(Printed(t, m), FALSE)

\* kputc makes a string of one character; of a 0, an empty one.
kputc(t, c) == tputs(t, IF c = Nul THEN <<>> ELSE <<c>>)

SetCursor(t, b) == [t EXCEPT !.show_cursor = b]

\* Mutant: show_cursor is changed and the screen is not.
Refresh_Never(t) == t

Refresh(t) == refresh_terminal(t, FALSE)

\* shell redraws the screen once before its loop.
NewTerminal == refresh_terminal(init_terminal, TRUE)

ConsoleInit == Init /\ terminal = NewTerminal

-----------------------------------------------------------------------------
(* What the thread's steps print. *)

ShowPrompt == PrintPrompt /\ terminal' = kputc(terminal, Prompt)

ShowCursor == ShowWhileEmpty /\ terminal' = Refresh(SetCursor(terminal, TRUE))

HideCursor == HideAfterSleep /\ terminal' = Refresh(SetCursor(terminal, FALSE))

\* A backspace is printed only if there is a character to remove.
EchoBackSpace ==
  /\ TestBackSpace
  /\ terminal' = IF len' < len THEN kputc(terminal, BackSpace) ELSE terminal

EchoCharacter == StoreCharacter /\ terminal' = kputc(terminal, Stored)

\* Mutant: the cursor is left on.
EndLine_CursorOn(t) == kputc(t, NewLine)

EndLine(t) == kputc(SetCursor(t, FALSE), NewLine)

ReturnLine == Return /\ terminal' = EndLine(terminal)

RunCommand ==
  /\ handle_command
  /\ terminal' = CASE Text = SandboxCommand -> terminal
                   [] Text = ClearCommand   -> clear_terminal(terminal)
                   [] OTHER                 -> tputs(terminal, Reply)

SandboxEcho ==
  /\ PrintCharacter
  /\ terminal' = kputc(terminal, Character(scancode_buffer[i]))

Silent ==
  /\ \/ interrupt_keyboard_handler
     \/ ResetBuffer \/ ResetRead \/ ResetWrite
     \/ EndOfSleep \/ KeyWaiting \/ StartScan \/ TestScan \/ TakeSlot
     \/ TestNewLine \/ TestZero \/ TestBit
     \/ Spin \/ StartSandboxScan \/ TestSandboxScan \/ GiveBackSlot
  /\ UNCHANGED terminal

ConsoleNext ==
  \/ ShowPrompt \/ ShowCursor \/ HideCursor
  \/ EchoBackSpace \/ EchoCharacter \/ ReturnLine
  \/ RunCommand \/ SandboxEcho
  \/ Silent

ConsoleSpec == ConsoleInit /\ [][ConsoleNext]_console_vars

-----------------------------------------------------------------------------
(* Properties. *)

\* The screen is a terminal and shows it: no refresh is forgotten between the
\* keyboard driver's own changes to the cursor and the terminal driver's.
ScreenIsCurrent ==
  /\ terminal \in Terminals
  /\ terminal.video = Picture(terminal)

\* The cells are counted along the rows.
Place(r, x) == r * columns + x

\* The cell n cells before the cursor shows c.
ShowsBefore(t, n, c) ==
  \E r \in Rows, x \in Columns :
    /\ Place(r, x) = Place(t.cursor_y, t.cursor_x) - n
    /\ \E k \in Colours : t.screen[r][x] = bitmap(c, k)

\* While a line is read, what the screen shows before the cursor is the prompt
\* and the characters kgetline would return now: echo, wrap, scroll and
\* backspace (also back over the end of a row) keep kgetline's line and the
\* terminal's text the same.
EchoMatchesLine ==
  (pc \in Reading /\ ~overrun) =>
    /\ \A n \in 1 .. len : ShowsBefore(terminal, n, command[len - n])
    /\ ShowsBefore(terminal, len + 1, Prompt)

\* The block is on the screen only while kgetline waits or has just been woken:
\* no command runs with the cursor shown.
CursorHidden ==
  pc \in Sandbox \cup {"prompt", "handle", "memset", "reset_read", "reset_write"} =>
    \A r \in Rows, c \in Columns : Cursor \notin terminal.video[r][c]

=============================================================================
