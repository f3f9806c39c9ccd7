---------------------------- MODULE ConsoleProofs ----------------------------
(***************************************************************************)
(* Proofs about Console, for every ring, buffer, screen and reply: what    *)
(* the keyboard driver does to the terminal between its own steps keeps    *)
(* the screen current and the echo equal to the line.                      *)
(*                                                                         *)
(* A step of Console is a step of Keyboard with what it prints, so the     *)
(* invariant of KeyboardProofs holds here too.  What the terminal adds is  *)
(* that it is Good and shown after every call of tputs, that the cursor    *)
(* is enabled only where kgetline reads, and Echo: from the prompt on, the *)
(* cells before the cursor are the prompt and the line.                    *)
(***************************************************************************)
EXTENDS Console, KeyboardProofs, TerminalDriverProofs, FiniteSetTheorems,
        WellFoundedInduction

\* The terminal between two steps: in order, and the screen shows it.
Current(t) == Good(t) /\ t.video = Picture(t)

CursorOff == terminal.show_cursor => pc \in Reading \cup {"return"}

\* The prompt stands before the cursor until kgetline reads, then the line.
Echo ==
  /\ pc \in {"memset", "reset_read", "reset_write"} => ShowsBefore(terminal, 1, Prompt)
  /\ EchoMatchesLine

ScreenInv == Current(terminal) /\ CursorOff

ConsoleInv == IInv /\ ScreenInv /\ Echo

-----------------------------------------------------------------------------
(* A step of Console is a step of Keyboard.                                *)

LEMMA ThreadStep == ConsoleNext => Next
  BY DEF ConsoleNext, ShowPrompt, ShowCursor, HideCursor, EchoBackSpace, EchoCharacter,
         ReturnLine, RunCommand, SandboxEcho, Silent, Next, KernelThread, kgetline,
         text_sandbox

LEMMA StepKeeps == [ConsoleNext]_console_vars => [Next]_vars
  BY ThreadStep DEF console_vars

\* Whatever is printed, the driver and the shell behave as Keyboard says: the
\* terminal never holds up a step of theirs nor adds one.
THEOREM ConsoleIsKeyboard == ConsoleSpec => Spec
<1>1. ConsoleInit => Init
  BY DEF ConsoleInit
<1> QED BY <1>1, StepKeeps, PTL DEF ConsoleSpec, Spec

-----------------------------------------------------------------------------
(* The loop of tputs. *)

\* A set of places in a string has a first one: 1 .. h is a subset of 1 .. m
\* that shrinks with h.
LEMMA FirstExists ==
  ASSUME NEW m \in Nat, NEW S \in SUBSET (1 .. m), S # {}
  PROVE  \E h \in S : \A g \in S : h <= g
<1> DEFINE Prefixes == {1 .. h : h \in S}
<1>1. IsWellFoundedOn(StrictSubsetOrdering(1 .. m), FiniteSubsetsOf(1 .. m))
  BY FS_StrictSubsetOrderingWellFounded
<1>2. FiniteSubsetsOf(1 .. m) = SUBSET (1 .. m)
  <2>1. IsFiniteSet(1 .. m)
    BY FS_Interval
  <2> QED BY <2>1, FS_FiniteSubsetsOfFinite
<1>3. Prefixes \subseteq SUBSET (1 .. m) /\ Prefixes # {}
  <2>1. \A h \in S : 1 .. h \subseteq 1 .. m
    OBVIOUS
  <2>2. PICK h \in S : TRUE
    OBVIOUS
  <2>3. 1 .. h \in Prefixes
    OBVIOUS
  <2> QED BY <2>1, <2>3
<1>4. PICK x \in Prefixes : \A y \in Prefixes : <<y, x>> \notin StrictSubsetOrdering(1 .. m)
  BY <1>1, <1>2, <1>3, WFMin
<1>5. PICK h \in S : x = 1 .. h
  OBVIOUS
<1>6. ASSUME NEW g \in S, g < h PROVE FALSE
  <2>1. 1 .. g \in Prefixes
    OBVIOUS
  <2>2. 1 .. g \subseteq 1 .. h /\ h \in 1 .. h /\ h \notin 1 .. g
    BY <1>6
  <2>3. <<1 .. g, x>> \in StrictSubsetOrdering(1 .. m)
    BY <1>3, <1>5, <2>1, <2>2 DEF StrictSubsetOrdering
  <2> QED BY <1>4, <2>1, <2>3
<1> QED BY <1>5, <1>6

\* The terminals after 0, 1, .. n characters of m.
Printing(f, t, m, n) ==
  f = [k \in 0 .. n |-> IF k = 0 THEN t ELSE PutChar(f[k - 1], m[k])]

LEMMA PrintingStarts ==
  ASSUME NEW t, NEW m PROVE \E f : Printing(f, t, m, 0)
<1> DEFINE f == [k \in 0 .. 0 |-> t]
<1>1. f = [k \in 0 .. 0 |-> IF k = 0 THEN t ELSE PutChar(f[k - 1], m[k])]
  OBVIOUS
<1> QED BY <1>1 DEF Printing

LEMMA PrintingContinues ==
  ASSUME NEW t, NEW m, NEW n \in Nat, n > 0, NEW f, Printing(f, t, m, n - 1)
  PROVE  \E g : Printing(g, t, m, n)
<1> DEFINE g == [k \in 0 .. n |-> IF k = n THEN PutChar(f[n - 1], m[n]) ELSE f[k]]
<1>1. ASSUME NEW k \in 0 .. n
      PROVE  g[k] = IF k = 0 THEN t ELSE PutChar(g[k - 1], m[k])
  <2>1. CASE k = n
    <3>1. n - 1 \in 0 .. n /\ n - 1 # n
      OBVIOUS
    <3>2. g[n - 1] = f[n - 1]
      BY <3>1
    <3> QED BY <2>1, <3>2
  <2>2. CASE k # n
    <3>1. k \in 0 .. n - 1
      BY <2>2
    <3>2. f[k] = IF k = 0 THEN t ELSE PutChar(f[k - 1], m[k])
      BY <3>1 DEF Printing
    <3>3. k # 0 => k - 1 \in 0 .. n /\ k - 1 # n
      BY <3>1
    <3> QED BY <2>2, <3>2, <3>3
  <2> QED BY <2>1, <2>2
<1>2. g = [k \in 0 .. n |-> g[k]]
  OBVIOUS
<1> HIDE DEF g
<1>3. g = [k \in 0 .. n |-> IF k = 0 THEN t ELSE PutChar(g[k - 1], m[k])]
  BY <1>1, <1>2
<1> QED BY <1>3 DEF Printing

LEMMA PrintingExists ==
  ASSUME NEW t, NEW m, Len(m) \in Nat PROVE \E f : Printing(f, t, m, Len(m))
<1> DEFINE Short == {n \in 1 .. Len(m) : ~\E f : Printing(f, t, m, n)}
<1>1. CASE Len(m) = 0
  BY <1>1, PrintingStarts
<1>2. CASE Short = {} /\ Len(m) # 0
  <2>1. Len(m) \in 1 .. Len(m)
    BY <1>2
  <2> QED BY <1>2, <2>1
<1>3. CASE Short # {}
  <2>1. Short \in SUBSET (1 .. Len(m))
    OBVIOUS
  <2>2. PICK n \in Short : \A k \in Short : n <= k
    <3> HIDE DEF Short
    <3> QED BY <1>3, <2>1, FirstExists
  <2>3. \E f : Printing(f, t, m, n - 1)
    <3>1. CASE n = 1
      BY <3>1, PrintingStarts
    <3>2. CASE n # 1
      <4>1. n - 1 \in 1 .. Len(m) /\ ~(n <= n - 1)
        BY <3>2
      <4> QED BY <2>2, <4>1
    <3> QED BY <3>1, <3>2
  <2>4. PICK f : Printing(f, t, m, n - 1)
    BY <2>3
  <2>5. \E g : Printing(g, t, m, n)
    BY <2>4, PrintingContinues
  <2> QED BY <2>5
<1> QED BY <1>1, <1>2, <1>3

\* What tputs leaves is the last of them.
LEMMA PrintedIs ==
  ASSUME NEW t, NEW m, Len(m) \in Nat
  PROVE  \E f : Printing(f, t, m, Len(m)) /\ Printed(t, m) = f[Len(m)]
<1> DEFINE P(f) == f = [k \in 0 .. Len(m) |->
                          IF k = 0 THEN t ELSE PutChar(f[k - 1], m[k])]
           F == CHOOSE f : P(f)
<1>1. \E f : P(f)
  <2>1. PICK f : Printing(f, t, m, Len(m))
    BY PrintingExists
  <2>2. P(f)
    BY <2>1 DEF Printing
  <2> QED BY <2>2
<1>2. P(F)
  BY <1>1
<1>3. Printed(t, m) = F[Len(m)]
  BY DEF Printed
<1> QED BY <1>2, <1>3 DEF Printing

\* No character changes whether the cursor is shown.
LEMMA PutCharKeepsFlag ==
  ASSUME NEW t, Good(t), NEW k \in Chars
  PROVE  PutChar(t, k).show_cursor = t.show_cursor
<1> DEFINE w == WrapIfFull(t)
<1>1. t \in Terminals /\ Good(w) /\ w \in Terminals /\ w.cursor_x \in Columns
      /\ w.cursor_y \in 0 .. rows
  BY WrapGood DEF Good
<1>2. w.show_cursor = t.show_cursor
  BY <1>1 DEF WrapIfFull, Terminals
<1> HIDE DEF w
<1>3. ASSUME NEW u, u \in Terminals
      PROVE  terminal_scroll(u).show_cursor = u.show_cursor
  BY <1>3 DEF terminal_scroll, draw_background, Terminals
<1>4. PutNewLine(w).show_cursor = w.show_cursor
  <2> DEFINE u == [w EXCEPT !.cursor_y = @ + 1, !.cursor_x = 0]
  <2>1. w.cursor_y + 1 \in 0 .. rows + 1 /\ 0 \in 0 .. columns
    BY <1>1, SizeFacts
  <2>2. u \in Terminals /\ u.show_cursor = w.show_cursor
    BY <1>1, <2>1 DEF Terminals
  <2> HIDE DEF u
  <2>3. PutNewLine(w) = ScrollIfBelow(u)
    BY DEF PutNewLine, u
  <2> QED BY <1>3, <2>2, <2>3 DEF ScrollIfBelow
<1>5. PutBackSpace(w).show_cursor = w.show_cursor
  <2>1. ASSUME NEW u, u \in Terminals
        PROVE  refresh_terminal(u, TRUE).show_cursor = u.show_cursor
    BY <2>1 DEF refresh_terminal, Paint, draw_background, Terminals
  <2>2. CASE w.cursor_x = 0 /\ w.cursor_y = 0
    BY <2>2 DEF PutBackSpace
  <2>3. CASE ~(w.cursor_x = 0 /\ w.cursor_y = 0)
    <3> DEFINE u == EraseCell(StepBack(w))
    <3>1. u \in Terminals /\ u.show_cursor = w.show_cursor
      BY <1>1, <2>3, StepBackErases
    <3>2. PutBackSpace(w) = refresh_terminal(u, TRUE)
      BY <2>3 DEF PutBackSpace
    <3> HIDE DEF u
    <3> QED BY <2>1, <3>1, <3>2
  <2> QED BY <2>2, <2>3
<1>6. WriteCell(ScrollIfBelow(w), k).show_cursor = w.show_cursor
  <2>1. /\ ScrollIfBelow(w) \in Terminals
        /\ ScrollIfBelow(w).show_cursor = w.show_cursor
    BY <1>1, <1>3, ScrollIfBelowGood DEF ScrollIfBelow, Good
  <2> QED BY <2>1 DEF WriteCell, Terminals
<1>7. NewLine \notin Colours /\ BackSpace \notin Colours /\ NewLine # BackSpace
  BY CharsAssumption DEF NewLine, BackSpace
<1>8. CASE k \in Colours
  BY <1>1, <1>7, <1>8 DEF PutChar, Terminals
<1>9. CASE k \notin Colours
  <2>1. PutChar(t, k) \in {PutNewLine(w), PutBackSpace(w), WriteCell(ScrollIfBelow(w), k)}
    BY <1>7, <1>9 DEF PutChar, w
  <2> QED BY <1>2, <1>4, <1>5, <1>6, <2>1
<1> QED BY <1>8, <1>9

\* Any string leaves a terminal good.
LEMMA PrintedGood ==
  ASSUME NEW t, Good(t), NEW m \in Seq(Chars)
  PROVE  Good(Printed(t, m)) /\ Printed(t, m).show_cursor = t.show_cursor
<1>1. Len(m) \in Nat /\ \A k \in 1 .. Len(m) : m[k] \in Chars
  OBVIOUS
<1>2. PICK f : Printing(f, t, m, Len(m)) /\ Printed(t, m) = f[Len(m)]
  BY <1>1, PrintedIs
<1> DEFINE Kept(k) == Good(f[k]) /\ f[k].show_cursor = t.show_cursor
           Lost == {k \in 1 .. Len(m) : ~Kept(k)}
<1>3. Kept(0)
  <2>1. f[0] = t
    BY <1>1, <1>2 DEF Printing
  <2> QED BY <2>1
<1>4. CASE Lost # {}
  <2>1. Lost \in SUBSET (1 .. Len(m))
    OBVIOUS
  <2>2. PICK k \in Lost : \A g \in Lost : k <= g
    <3> HIDE DEF Lost
    <3> QED BY <1>1, <1>4, <2>1, FirstExists
  <2>3. k \in 1 .. Len(m) /\ ~Kept(k)
    OBVIOUS
  <2>4. Kept(k - 1)
    <3>1. CASE k = 1
      BY <1>3, <3>1
    <3>2. CASE k # 1
      <4>1. k - 1 \in 1 .. Len(m) /\ ~(k <= k - 1)
        BY <1>1, <2>3, <3>2
      <4> QED BY <2>2, <4>1
    <3> QED BY <3>1, <3>2
  <2>5. f[k] = PutChar(f[k - 1], m[k]) /\ m[k] \in Chars
    BY <1>1, <1>2, <2>3 DEF Printing
  <2> QED BY <2>3, <2>4, <2>5, PutCharGood, PutCharKeepsFlag
<1>5. CASE Lost = {}
  <2>1. CASE Len(m) = 0
    BY <1>2, <1>3, <2>1
  <2>2. CASE Len(m) # 0
    <3>1. Len(m) \in 1 .. Len(m)
      BY <1>1, <2>2
    <3> QED BY <1>2, <1>5, <3>1
  <2> QED BY <2>1, <2>2
<1> QED BY <1>4, <1>5

LEMMA RefreshKeepsText ==
  ASSUME NEW t, Good(t), NEW redraw \in BOOLEAN
  PROVE  LET u == refresh_terminal(t, redraw)
         IN  /\ u.show_cursor = t.show_cursor /\ u.screen = t.screen
             /\ u.cursor_x = t.cursor_x /\ u.cursor_y = t.cursor_y
  BY DEF refresh_terminal, Paint, draw_background, Good, Terminals

\* A call of tputs leaves a current terminal, and the cursor on or off.
LEMMA TputsCurrent ==
  ASSUME NEW t, Good(t), NEW m \in Seq(Chars)
  PROVE  Current(tputs(t, m)) /\ tputs(t, m).show_cursor = t.show_cursor
  BY PrintedGood, RefreshShows, RefreshKeepsText DEF tputs, Current

LEMMA KputcCurrent ==
  ASSUME NEW t, Good(t), NEW k \in Chars \cup {Nul}
  PROVE  Current(kputc(t, k)) /\ kputc(t, k).show_cursor = t.show_cursor
<1>1. (IF k = Nul THEN <<>> ELSE <<k>>) \in Seq(Chars)
  OBVIOUS
<1> QED BY <1>1, TputsCurrent DEF kputc

LEMMA CursorCurrent ==
  ASSUME NEW t, Good(t), NEW b \in BOOLEAN
  PROVE  /\ Good(SetCursor(t, b)) /\ SetCursor(t, b).show_cursor = b
         /\ Current(Refresh(SetCursor(t, b)))
         /\ Refresh(SetCursor(t, b)).show_cursor = b
<1>1. Good(SetCursor(t, b)) /\ SetCursor(t, b).show_cursor = b
  BY ShowCursorGood DEF SetCursor, Good, Terminals
<1> QED BY <1>1, RefreshShows, RefreshKeepsText DEF Refresh, Current

LEMMA ClearCurrent ==
  ASSUME NEW t, Good(t)
  PROVE  Current(clear_terminal(t)) /\ clear_terminal(t).show_cursor = t.show_cursor
<1>1. clear_terminal(t).show_cursor = t.show_cursor
  BY DEF clear_terminal, refresh_terminal, Paint, draw_background, Good, Terminals
<1> QED BY <1>1, ClearGood DEF Current

\* Every character of the keyboard's tables is one tputs knows, or ends a string.
LEMMA CharactersPrint ==
  /\ Characters \subseteq Chars \cup {Nul}
  /\ Printable \cup {Prompt} \subseteq Glyphs \cup {Space}
  /\ NewLine \in Chars /\ BackSpace \in Chars
  BY FontAssumption DEF Characters, Chars

LEMMA StoredIsCharacter == IInv => Stored \in Characters
  BY TableTypes DEF IInv, TypeOK, Entries, Stored, Key

-----------------------------------------------------------------------------
(* The screen is current and the cursor off outside kgetline.              *)

LEMMA InitScreen == ConsoleInit => ScreenInv
<1>1. Current(NewTerminal)
  BY NewGood, RefreshShows DEF NewTerminal, Current
<1>2. NewTerminal.show_cursor = FALSE
  BY NewGood, RefreshKeepsText DEF NewTerminal, init_terminal
<1> QED BY <1>1, <1>2 DEF ConsoleInit, ScreenInv, CursorOff

LEMMA PrintingScreen ==
  ASSUME IInv, ScreenInv, ShowPrompt \/ EchoBackSpace \/ EchoCharacter \/ SandboxEcho
  PROVE  ScreenInv'
<1>1. Good(terminal)
  BY DEF ScreenInv, Current
<1>2. CASE ShowPrompt
  <2>1. pc = "prompt" /\ pc' = "memset" /\ terminal' = kputc(terminal, Prompt)
    BY <1>2 DEF ShowPrompt, PrintPrompt, Goto
  <2>2. Prompt \in Chars
    BY CharactersPrint DEF Chars
  <2> QED BY <1>1, <2>1, <2>2, KputcCurrent DEF ScreenInv, CursorOff, Reading, Exam
<1>3. CASE EchoBackSpace
  <2>1. pc \in Reading /\ pc' \in Reading
    BY <1>3 DEF EchoBackSpace, TestBackSpace, NextTurn, Reading, Exam
  <2>2. terminal' = kputc(terminal, BackSpace) \/ terminal' = terminal
    BY <1>3 DEF EchoBackSpace
  <2> QED BY <1>1, <2>1, <2>2, CharactersPrint, KputcCurrent DEF ScreenInv, CursorOff
<1>4. CASE EchoCharacter
  <2>1. pc \in Reading /\ pc' \in Reading
    BY <1>4 DEF EchoCharacter, StoreCharacter, NextTurn, Reading, Exam
  <2>2. terminal' = kputc(terminal, Stored) /\ Stored \in Chars \cup {Nul}
    BY <1>4, CharactersPrint, StoredIsCharacter DEF EchoCharacter
  <2> QED BY <1>1, <2>1, <2>2, KputcCurrent DEF ScreenInv, CursorOff
<1>5. CASE SandboxEcho
  <2>1. pc = "print" /\ terminal' = kputc(terminal, Character(scancode_buffer[i]))
    BY <1>5 DEF SandboxEcho, PrintCharacter, Goto
  <2>2. Character(scancode_buffer[i]) \in Chars \cup {Nul}
    BY TableTypes, CharactersPrint DEF IInv, TypeOK, Entries, Character
  <2> QED BY <1>1, <2>1, <2>2, KputcCurrent DEF ScreenInv, CursorOff, Reading, Exam
<1> QED BY <1>2, <1>3, <1>4, <1>5

LEMMA CursorScreen ==
  ASSUME ScreenInv, ShowCursor \/ HideCursor \/ ReturnLine PROVE ScreenInv'
<1>1. Good(terminal)
  BY DEF ScreenInv, Current
<1>2. CASE ShowCursor
  BY <1>1, <1>2, CursorCurrent
     DEF ShowCursor, ShowWhileEmpty, Goto, ScreenInv, CursorOff, Reading
<1>3. CASE HideCursor
  BY <1>1, <1>3, CursorCurrent
     DEF HideCursor, HideAfterSleep, Goto, ScreenInv, CursorOff, Reading
<1>4. CASE ReturnLine
  BY <1>1, <1>4, CursorCurrent, CharactersPrint, KputcCurrent
     DEF ReturnLine, EndLine, ScreenInv, CursorOff
<1> QED BY <1>2, <1>3, <1>4

LEMMA CommandScreen == ASSUME ScreenInv, RunCommand PROVE ScreenInv'
<1>1. Good(terminal) /\ Current(terminal)
  BY DEF ScreenInv, Current
<1>2. pc = "handle" /\ terminal.show_cursor = FALSE
  BY DEF RunCommand, handle_command, ScreenInv, CursorOff, Reading, Exam, Current, Good,
         Terminals
<1>3. Current(terminal') /\ terminal'.show_cursor = terminal.show_cursor
  BY <1>1, ClearCurrent, TputsCurrent, ReplyAssumption DEF RunCommand
<1> QED BY <1>2, <1>3 DEF ScreenInv, CursorOff

LEMMA SilentScreen ==
  ASSUME ScreenInv, Silent \/ UNCHANGED console_vars PROVE ScreenInv'
<1>1. terminal' = terminal
  BY DEF Silent, console_vars
<1>2. pc \in Reading \cup {"return"} => pc' \in Reading \cup {"return"}
  BY DEF Silent, console_vars, vars, ring_vars, interrupt_keyboard_handler, ResetBuffer,
         ResetRead, ResetWrite, EndOfSleep, KeyWaiting, StartScan, TestScan, TakeSlot,
         TestNewLine, TestZero, TestBit, Spin, StartSandboxScan, TestSandboxScan, GiveBackSlot, Goto,
         LeaveScan, NextTurn, Reading, Exam
<1> QED BY <1>1, <1>2 DEF ScreenInv, CursorOff

LEMMA StepScreen ==
  ASSUME IInv, ScreenInv, [ConsoleNext]_console_vars PROVE ScreenInv'
  BY PrintingScreen, CursorScreen, CommandScreen, SilentScreen DEF ConsoleNext

-----------------------------------------------------------------------------
(* What stands before the cursor. *)

LEMMA Products ==
  \A a \in Int, b \in Int :
    /\ a * b \in Int
    /\ (a + 1) * b = a * b + b
    /\ (a - 1) * b = a * b - b
    /\ 0 * b = 0
    /\ a \in Nat /\ b \in Nat => a * b \in Nat
  OBVIOUS

LEMMA PlaceFacts ==
  ASSUME NEW r \in Int, NEW x \in Int
  PROVE  /\ Place(r, x) \in Int
         /\ Place(r + 1, x) = Place(r, x) + columns
         /\ Place(r - 1, x) = Place(r, x) - columns
         /\ Place(r, x + 1) = Place(r, x) + 1
         /\ Place(r, x - 1) = Place(r, x) - 1
         /\ Place(r, columns) = Place(r + 1, 0)
         /\ Place(0, x) = x
         /\ r \in Nat /\ x \in Nat => Place(r, x) \in Nat
<1>1. columns \in Int /\ columns \in Nat
  BY SizeFacts
<1> DEFINE m == r * columns
<1>2. /\ m \in Int /\ (r + 1) * columns = m + columns /\ (r - 1) * columns = m - columns
      /\ 0 * columns = 0 /\ (r \in Nat => m \in Nat)
  BY <1>1, Products
<1>3. Place(r, x) = m + x /\ Place(r, x + 1) = m + (x + 1) /\ Place(r, x - 1) = m + (x - 1)
      /\ Place(r, columns) = m + columns
  BY DEF Place
<1>4. Place(r + 1, x) = m + columns + x /\ Place(r + 1, 0) = m + columns + 0
      /\ Place(r - 1, x) = m - columns + x /\ Place(0, x) = 0 + x
  BY <1>2 DEF Place
<1> HIDE DEF m
<1> QED BY <1>1, <1>2, <1>3, <1>4

LEMMA CursorTypes ==
  ASSUME NEW t, Good(t)
  PROVE  /\ t \in Terminals /\ t.screen \in [Rows -> [Columns -> Bitmaps]]
         /\ t.colour \in Colours
         /\ t.cursor_x \in 0 .. columns /\ t.cursor_x \in Int
         /\ t.cursor_y \in 0 .. rows + 1 /\ t.cursor_y \in Int
         /\ Place(t.cursor_y, t.cursor_x) \in Int
<1>1. /\ t \in Terminals /\ t.screen \in [Rows -> [Columns -> Bitmaps]]
      /\ t.colour \in Colours
      /\ t.cursor_x \in 0 .. columns /\ t.cursor_x \in Int
      /\ t.cursor_y \in 0 .. rows + 1 /\ t.cursor_y \in Int
  BY SizeFacts DEF Good, Terminals
<1> QED BY <1>1, PlaceFacts

\* Two terminals with the same text and cursors at the same place show the same
\* before them.
SamePlace(t, u) ==
  /\ u.screen = t.screen
  /\ Place(u.cursor_y, u.cursor_x) = Place(t.cursor_y, t.cursor_x)

LEMMA SamePlaceShows ==
  ASSUME NEW t, NEW u, SamePlace(t, u), NEW n, NEW k, ShowsBefore(t, n, k)
  PROVE  ShowsBefore(u, n, k)
  BY DEF SamePlace, ShowsBefore

\* The wrap that was put off does not move the cursor along the rows.
LEMMA WrapShows ==
  ASSUME NEW t, Good(t) PROVE SamePlace(t, WrapIfFull(t))
<1>1. CASE t.cursor_x > columns - 1
  <2>1. t.cursor_x = columns
    BY <1>1, CursorTypes, SizeFacts
  <2>2. /\ WrapIfFull(t).screen = t.screen /\ WrapIfFull(t).cursor_x = 0
        /\ WrapIfFull(t).cursor_y = t.cursor_y + 1
    BY <1>1, CursorTypes DEF WrapIfFull, Terminals
  <2>3. Place(t.cursor_y, columns) = Place(t.cursor_y + 1, 0)
    BY CursorTypes, PlaceFacts
  <2> QED BY <2>1, <2>2, <2>3 DEF SamePlace
<1>2. CASE ~(t.cursor_x > columns - 1)
  BY <1>2 DEF WrapIfFull, SamePlace
<1> QED BY <1>1, <1>2

\* Scrolling moves the cursor and the text by a row; only the first row is lost.
LEMMA ScrollShows ==
  ASSUME NEW t, Good(t), t.cursor_y \in 0 .. rows, t.cursor_x \in Columns,
         NEW n \in Nat, n <= (rows - 1) * columns, NEW k, ShowsBefore(t, n, k)
  PROVE  ShowsBefore(ScrollIfBelow(t), n, k)
<1>1. CASE ~(t.cursor_y > rows - 1)
  BY <1>1 DEF ScrollIfBelow
<1>2. CASE t.cursor_y > rows - 1
  <2> DEFINE u == terminal_scroll(t)
  <2>1. t \in Terminals /\ t.cursor_y = rows /\ t.cursor_x = 0 /\ rows \in Int
    BY <1>2, SizeFacts DEF Good, CursorOn, Rows
  <2>2. PICK r \in Rows, x \in Columns :
          /\ Place(r, x) = Place(rows, 0) - n
          /\ \E j \in Colours : t.screen[r][x] = bitmap(k, j)
    BY <2>1 DEF ShowsBefore
  <2>3. /\ Place(rows - 1, 0) \in Int
        /\ Place(rows, 0) = Place(rows - 1, 0) + columns
        /\ n <= Place(rows - 1, 0)
    <3>1. Place(rows - 1, 0) = (rows - 1) * columns
      <4>1. rows - 1 \in Int /\ columns \in Int
        BY <2>1, SizeFacts
      <4>2. (rows - 1) * columns \in Int
        BY <4>1, Products
      <4> QED BY <4>2 DEF Place
    <3>2. Place(rows - 1, 0) = Place(rows, 0) - columns /\ Place(rows, 0) \in Int
      BY <2>1, PlaceFacts
    <3> QED BY <2>1, <3>1, <3>2, SizeFacts
  <2>4. r \in Int /\ x \in Int /\ x < columns /\ Place(r, x) \in Int
    BY PlaceFacts, SizeFacts DEF Columns
  <2>5. r # 0
    <3>1. CASE r = 0
      <4>1. Place(r, x) = x
        BY <3>1, <2>4, PlaceFacts
      <4> QED BY <2>2, <2>3, <2>4, <4>1, SizeFacts
    <3> QED BY <3>1
  <2>6. r - 1 \in Rows /\ r - 1 # rows - 1 /\ r - 1 + 1 = r
    BY <2>5, SizeFacts DEF Rows
  <2>7. /\ u.cursor_y = rows - 1 /\ u.cursor_x = 0
        /\ u.screen = [q \in Rows |-> IF q = rows - 1
                                        THEN [c \in Columns |-> {}]
                                        ELSE t.screen[q + 1]]
    BY <2>1 DEF terminal_scroll, draw_background, Terminals
  <2> HIDE DEF u
  <2>8. u.screen[r - 1] = t.screen[r]
    BY <2>6, <2>7
  <2>9. Place(r - 1, x) = Place(rows - 1, 0) - n
    <3>1. Place(r - 1, x) = Place(r, x) - columns
      BY <2>4, PlaceFacts
    <3> QED BY <2>2, <2>3, <3>1, SizeFacts
  <2>10. ShowsBefore(u, n, k)
    BY <2>2, <2>6, <2>7, <2>8, <2>9 DEF ShowsBefore
  <2> QED BY <1>2, <2>10 DEF ScrollIfBelow, u
<1> QED BY <1>1, <1>2

\* What was before the cursor is one cell further from it, and the character
\* written is the nearest.
LEMMA WriteShows ==
  ASSUME NEW t, Good(t), t.cursor_y \in Rows, t.cursor_x \in Columns, NEW g \in Chars
  PROVE  /\ ShowsBefore(WriteCell(t, g), 1, g)
         /\ \A n \in Nat \ {0} : \A k :
              ShowsBefore(t, n, k) => ShowsBefore(WriteCell(t, g), n + 1, k)
<1> DEFINE u == WriteCell(t, g)
           p == Place(t.cursor_y, t.cursor_x)
<1>1. t \in Terminals /\ t.screen \in [Rows -> [Columns -> Bitmaps]]
      /\ t.colour \in Colours /\ p \in Int
  BY CursorTypes
<1>2. /\ u.cursor_y = t.cursor_y /\ u.cursor_x = t.cursor_x + 1
      /\ u.screen = [t.screen EXCEPT ![t.cursor_y][t.cursor_x] = bitmap(g, t.colour)]
  BY <1>1 DEF WriteCell, Terminals
<1> HIDE DEF u
<1>3. Place(u.cursor_y, u.cursor_x) = p + 1
  <2>1. t.cursor_y \in Int /\ t.cursor_x \in Int
    BY CursorTypes
  <2>2. Place(t.cursor_y, t.cursor_x + 1) = p + 1
    BY <2>1, PlaceFacts
  <2> QED BY <1>2, <2>2
<1>4. ShowsBefore(u, 1, g)
  <2>1. u.screen[t.cursor_y][t.cursor_x] = bitmap(g, t.colour)
    BY <1>1, <1>2
  <2>2. p = Place(u.cursor_y, u.cursor_x) - 1
    BY <1>1, <1>3
  <2> QED BY <1>1, <2>1, <2>2 DEF ShowsBefore
<1>5. ASSUME NEW n \in Nat \ {0}, NEW k, ShowsBefore(t, n, k)
      PROVE  ShowsBefore(u, n + 1, k)
  <2>1. PICK r \in Rows, x \in Columns :
          /\ Place(r, x) = p - n
          /\ \E j \in Colours : t.screen[r][x] = bitmap(k, j)
    BY <1>5 DEF ShowsBefore
  <2> HIDE DEF p
  <2>2. Place(r, x) # p
    BY <1>1, <2>1
  <2>3. ~(r = t.cursor_y /\ x = t.cursor_x)
    BY <2>2 DEF p
  <2>4. u.screen[r][x] = t.screen[r][x]
    BY <1>1, <1>2, <2>3
  <2>5. Place(r, x) = Place(u.cursor_y, u.cursor_x) - (n + 1)
    BY <1>1, <1>3, <2>1
  <2> QED BY <2>1, <2>4, <2>5 DEF ShowsBefore
<1> QED BY <1>4, <1>5 DEF u

\* A character of the line is written behind the text, which may scroll.
LEMMA PutCharShows ==
  ASSUME NEW t, Good(t), NEW g \in Glyphs \cup {Space}
  PROVE  /\ ShowsBefore(PutChar(t, g), 1, g)
         /\ \A n \in Nat \ {0} : \A k :
              n <= (rows - 1) * columns /\ ShowsBefore(t, n, k)
                => ShowsBefore(PutChar(t, g), n + 1, k)
<1> DEFINE w == WrapIfFull(t)
           s == ScrollIfBelow(w)
<1>1. /\ Good(w) /\ w.cursor_y \in 0 .. rows /\ w.cursor_x \in Columns
      /\ SamePlace(t, w)
  BY WrapGood, WrapShows
<1>2. PutChar(t, g) = WriteCell(s, g)
  BY CharsAssumption DEF PutChar, Space, NewLine, BackSpace
<1> HIDE DEF w
<1>3. Good(s) /\ s.cursor_y \in Rows /\ s.cursor_x \in Columns
  BY <1>1, ScrollIfBelowGood
<1>4. ASSUME NEW n \in Nat \ {0}, NEW k, n <= (rows - 1) * columns, ShowsBefore(t, n, k)
      PROVE  ShowsBefore(s, n, k)
  BY <1>1, <1>4, SamePlaceShows, ScrollShows
<1> HIDE DEF s
<1>5. g \in Chars
  BY DEF Chars
<1> QED BY <1>2, <1>3, <1>4, <1>5, WriteShows

\* A backspace takes the cell nearest to the cursor, be it on the row above.
LEMMA BackSpaceShows ==
  ASSUME NEW t, Good(t), NEW n \in Nat \ {0}, NEW k, ShowsBefore(t, n + 1, k)
  PROVE  ShowsBefore(PutChar(t, BackSpace), n, k)
<1> DEFINE w == WrapIfFull(t)
           p == Place(w.cursor_y, w.cursor_x)
           u == EraseCell(StepBack(w))
<1>1. /\ Good(w) /\ w.cursor_y \in 0 .. rows /\ w.cursor_x \in Columns
      /\ ShowsBefore(w, n + 1, k)
  BY WrapGood, WrapShows, SamePlaceShows
<1>2. PutChar(t, BackSpace) = PutBackSpace(w)
  BY CharsAssumption DEF PutChar, NewLine, BackSpace
<1> HIDE DEF w
<1>3. p \in Int /\ w.cursor_x \in Int /\ w.cursor_y \in Int
  BY <1>1, CursorTypes
<1>4. PICK r \in Rows, x \in Columns :
        /\ Place(r, x) = p - (n + 1)
        /\ \E j \in Colours : w.screen[r][x] = bitmap(k, j)
  BY <1>1 DEF ShowsBefore
<1>5. Place(r, x) \in Nat
  <2>1. r \in Nat /\ x \in Nat /\ r \in Int /\ x \in Int
    BY SizeFacts DEF Rows, Columns
  <2> QED BY <2>1, PlaceFacts
<1>6. ~(w.cursor_x = 0 /\ w.cursor_y = 0)
  <2>1. CASE w.cursor_x = 0 /\ w.cursor_y = 0
    <3>1. p = 0
      BY <2>1, PlaceFacts
    <3> HIDE DEF p
    <3> QED BY <1>4, <1>5, <3>1
  <2> QED BY <2>1
<1>7. /\ u \in Terminals /\ Good(draw_background(u))
      /\ u.cursor_x = IF w.cursor_x = 0 THEN columns - 1 ELSE w.cursor_x - 1
      /\ u.cursor_y = IF w.cursor_x = 0 THEN w.cursor_y - 1 ELSE w.cursor_y
      /\ \A q \in Rows, c \in Columns :
           u.screen[q][c] = IF q = u.cursor_y /\ c = u.cursor_x
                              THEN {} ELSE w.screen[q][c]
  BY <1>1, <1>6, StepBackErases
<1> HIDE DEF u
<1>8. Place(u.cursor_y, u.cursor_x) = p - 1
  <2>1. CASE w.cursor_x = 0
    <3>1. w.cursor_y - 1 \in Int /\ columns \in Int /\ w.cursor_y - 1 + 1 = w.cursor_y
      BY <1>3, SizeFacts
    <3>2. Place(w.cursor_y - 1, columns) = p
      <4>1. Place(w.cursor_y - 1, columns) = Place(w.cursor_y - 1 + 1, 0)
        BY <3>1, PlaceFacts
      <4> QED BY <2>1, <3>1, <4>1
    <3>3. Place(w.cursor_y - 1, columns - 1) = Place(w.cursor_y - 1, columns) - 1
      BY <3>1, PlaceFacts
    <3> QED BY <1>7, <2>1, <3>2, <3>3
  <2>2. CASE w.cursor_x # 0
    <3>1. Place(w.cursor_y, w.cursor_x - 1) = p - 1
      BY <1>3, PlaceFacts
    <3> QED BY <1>7, <2>2, <3>1
  <2> QED BY <2>1, <2>2
<1> HIDE DEF p
<1>9. Place(r, x) # p - 1
  BY <1>3, <1>4
<1>10. u.screen[r][x] = w.screen[r][x]
  BY <1>7, <1>8, <1>9
<1>11. Place(r, x) = Place(u.cursor_y, u.cursor_x) - n
  BY <1>3, <1>4, <1>8
<1>12. ShowsBefore(u, n, k)
  BY <1>4, <1>10, <1>11 DEF ShowsBefore
<1>13. /\ PutBackSpace(w).screen = u.screen
       /\ PutBackSpace(w).cursor_x = u.cursor_x /\ PutBackSpace(w).cursor_y = u.cursor_y
  <2>1. PutBackSpace(w) = Paint(draw_background(u))
    BY <1>6 DEF PutBackSpace, refresh_terminal, u
  <2> QED BY <1>7, <2>1 DEF Paint, draw_background, Terminals
<1> QED BY <1>2, <1>12, <1>13 DEF ShowsBefore

LEMMA PrintedOne ==
  ASSUME NEW t, NEW k PROVE Printed(t, <<k>>) = PutChar(t, k)
<1> DEFINE m == <<k>>
<1>1. Len(m) = 1 /\ m[1] = k
  OBVIOUS
<1> HIDE DEF m
<1>2. PICK f : Printing(f, t, m, Len(m)) /\ Printed(t, m) = f[Len(m)]
  BY <1>1, PrintedIs
<1>3. f[0] = t /\ f[1] = PutChar(f[0], m[1])
  BY <1>1, <1>2 DEF Printing
<1> QED BY <1>1, <1>2, <1>3 DEF m

\* kputc of a character, and the refresh it ends with.
LEMMA KputcPlace ==
  ASSUME NEW t, Good(t), NEW k \in Chars, k # Nul
  PROVE  SamePlace(PutChar(t, k), kputc(t, k))
<1> DEFINE u == PutChar(t, k)
<1>1. kputc(t, k) = refresh_terminal(u, FALSE)
  BY PrintedOne DEF kputc, tputs
<1>2. Good(u)
  BY PutCharGood
<1> HIDE DEF u
<1>3. SamePlace(u, refresh_terminal(u, FALSE))
  BY <1>2, RefreshKeepsText DEF SamePlace
<1> QED BY <1>1, <1>3 DEF u

LEMMA KputcShows ==
  ASSUME NEW t, Good(t), NEW g \in Glyphs \cup {Space}, g # Nul
  PROVE  /\ ShowsBefore(kputc(t, g), 1, g)
         /\ \A n \in Nat \ {0} : \A k :
              n <= (rows - 1) * columns /\ ShowsBefore(t, n, k)
                => ShowsBefore(kputc(t, g), n + 1, k)
<1>1. SamePlace(PutChar(t, g), kputc(t, g))
  BY KputcPlace DEF Chars
<1> QED BY <1>1, PutCharShows, SamePlaceShows

LEMMA KputcBackSpaceShows ==
  ASSUME NEW t, Good(t), NEW n \in Nat \ {0}, NEW k, ShowsBefore(t, n + 1, k)
  PROVE  ShowsBefore(kputc(t, BackSpace), n, k)
<1>1. BackSpace \in Chars /\ BackSpace # Nul
  BY DEF Chars, BackSpace, Nul
<1>2. SamePlace(PutChar(t, BackSpace), kputc(t, BackSpace))
  BY <1>1, KputcPlace
<1> QED BY <1>2, BackSpaceShows, SamePlaceShows

-----------------------------------------------------------------------------
(* The echo and the line. *)

LEMMA LineTypes ==
  ASSUME IInv, ScreenInv
  PROVE  /\ Good(terminal) /\ len \in Nat /\ capacity \in Nat
         /\ command \in [Bytes -> Characters] /\ len \in Bytes
  BY CapacityAssumption DEF IInv, TypeOK, Bytes, ScreenInv, Current

LEMMA PromptEcho == ASSUME ScreenInv, ShowPrompt PROVE Echo'
<1>1. pc' = "memset" /\ terminal' = kputc(terminal, Prompt) /\ Good(terminal)
  BY DEF ShowPrompt, PrintPrompt, Goto, ScreenInv, Current
<1>2. ShowsBefore(terminal, 1, Prompt)'
  BY <1>1, FontAssumption, KputcShows
<1> QED BY <1>1, <1>2 DEF Echo, EchoMatchesLine, Reading, Exam

LEMMA BackSpaceEcho == ASSUME IInv, ScreenInv, Echo, EchoBackSpace PROVE Echo'
<1>1. /\ pc = "backspace?" /\ pc' \in Reading /\ pc \in Reading
      /\ command' = command /\ overrun' = overrun
      /\ len' = len \/ (len' = len - 1 /\ len > 0)
      /\ terminal' = IF len' < len THEN kputc(terminal, BackSpace) ELSE terminal
  BY DEF EchoBackSpace, TestBackSpace, NextTurn, Reading, Exam
<1>2. Good(terminal) /\ len \in Nat
  BY LineTypes
<1>3. CASE len' = len
  BY <1>1, <1>2, <1>3 DEF Echo, EchoMatchesLine, Reading, Exam
<1>4. CASE len' = len - 1 /\ len > 0
  <2>1. terminal' = kputc(terminal, BackSpace)
    BY <1>1, <1>2, <1>4
  <2>2. SUFFICES ASSUME ~overrun
                 PROVE  /\ \A n \in 1 .. len' : ShowsBefore(terminal', n, command'[len' - n])
                        /\ ShowsBefore(terminal', len' + 1, Prompt)
    BY <1>1 DEF Echo, EchoMatchesLine, Reading, Exam
  <2>3. /\ \A n \in 1 .. len : ShowsBefore(terminal, n, command[len - n])
        /\ ShowsBefore(terminal, len + 1, Prompt)
    BY <1>1, <2>2 DEF Echo, EchoMatchesLine
  <2>4. ASSUME NEW n \in 1 .. len' PROVE ShowsBefore(terminal', n, command'[len' - n])
    <3>1. n + 1 \in 1 .. len /\ len - (n + 1) = len' - n /\ n \in Nat \ {0}
      BY <1>2, <1>4
    <3>2. ShowsBefore(terminal, n + 1, command[len' - n])
      BY <2>3, <3>1
    <3> QED BY <1>1, <1>2, <2>1, <3>1, <3>2, KputcBackSpaceShows
  <2>5. ShowsBefore(terminal', len' + 1, Prompt)
    <3>1. len' + 1 \in Nat \ {0} /\ len' + 1 + 1 = len + 1
      BY <1>2, <1>4
    <3> QED BY <1>2, <2>1, <2>3, <3>1, KputcBackSpaceShows
  <2> QED BY <2>4, <2>5
<1> QED BY <1>1, <1>3, <1>4

LEMMA CharacterEcho == ASSUME IInv, ScreenInv, Echo, EchoCharacter PROVE Echo'
<1>1. /\ pc \in {"shift_char", "char"} /\ pc' = "for" /\ overrun' = overrun
      /\ command' = [command EXCEPT ![len] = Stored] /\ len' = len + 1
      /\ terminal' = kputc(terminal, Stored)
  BY DEF EchoCharacter, StoreCharacter, NextTurn
<1>2. /\ Good(terminal) /\ len \in Nat /\ command \in [Bytes -> Characters]
      /\ len \in Bytes
  BY LineTypes
<1>3. SUFFICES ASSUME ~overrun
               PROVE  /\ \A n \in 1 .. len' : ShowsBefore(terminal', n, command'[len' - n])
                      /\ ShowsBefore(terminal', len' + 1, Prompt)
  BY <1>1 DEF Echo, EchoMatchesLine, Reading, Exam
<1>4. Stored \in Glyphs \cup {Space} /\ Stored # Nul
  <2>1. Key \in Keys
    BY DEF IInv, TypeOK, Entries, Key
  <2>2. kbdus[Key] \notin {NewLine, BackSpace, Nul}
    BY <1>1, <1>3 DEF IInv, SlotStays, Exam
  <2> QED BY <2>1, <2>2, TestsLeavePrintable, FontAssumption DEF Stored
<1>5. len + 1 <= (rows - 1) * columns
  <2>1. len <= capacity
    BY <1>1 DEF IInv, LengthBound
  <2>2. (rows - 1) * columns \in Int
    BY SizeFacts, Products
  <2> QED BY <1>2, <2>1, <2>2, LineOnScreen, CapacityAssumption
<1>6. /\ \A n \in 1 .. len : ShowsBefore(terminal, n, command[len - n])
      /\ ShowsBefore(terminal, len + 1, Prompt)
  BY <1>1, <1>3 DEF Echo, EchoMatchesLine, Reading, Exam
<1>7. /\ ShowsBefore(terminal', 1, Stored)
      /\ \A n \in Nat \ {0} : \A k :
           n <= (rows - 1) * columns /\ ShowsBefore(terminal, n, k)
             => ShowsBefore(terminal', n + 1, k)
  BY <1>1, <1>2, <1>4, KputcShows
<1>8. ASSUME NEW n \in 1 .. len' PROVE ShowsBefore(terminal', n, command'[len' - n])
  <2>1. CASE n = 1
    <3>1. len' - n = len
      BY <1>1, <1>2, <2>1
    <3> QED BY <1>1, <1>2, <1>7, <2>1, <3>1
  <2>2. CASE n # 1
    <3>1. /\ n - 1 \in 1 .. len /\ n - 1 \in Nat \ {0} /\ n - 1 + 1 = n
          /\ len' - n = len - (n - 1) /\ len - (n - 1) # len
          /\ len - (n - 1) \in Bytes
      BY <1>1, <1>2, <2>2, CapacityAssumption DEF Bytes
    <3>2. n - 1 <= (rows - 1) * columns
      <4>1. (rows - 1) * columns \in Int
        BY SizeFacts, Products
      <4> QED BY <1>2, <1>5, <3>1, <4>1
    <3>3. ShowsBefore(terminal, n - 1, command[len - (n - 1)])
      BY <1>6, <3>1
    <3>4. ShowsBefore(terminal', n - 1 + 1, command[len - (n - 1)])
      BY <1>7, <3>1, <3>2, <3>3
    <3>5. command'[len' - n] = command[len - (n - 1)]
      BY <1>1, <1>2, <3>1
    <3> QED BY <3>1, <3>4, <3>5
  <2> QED BY <2>1, <2>2
<1>9. ShowsBefore(terminal', len' + 1, Prompt)
  BY <1>1, <1>2, <1>5, <1>6, <1>7
<1> QED BY <1>8, <1>9

LEMMA CursorEcho == ASSUME ScreenInv, Echo, ShowCursor \/ HideCursor PROVE Echo'
<1>1. /\ pc \in Reading /\ pc' \in Reading
      /\ len' = len /\ command' = command /\ overrun' = overrun
      /\ \E b \in BOOLEAN : terminal' = Refresh(SetCursor(terminal, b))
  BY DEF ShowCursor, HideCursor, ShowWhileEmpty, HideAfterSleep, Goto, Reading
<1>2. PICK b \in BOOLEAN : terminal' = Refresh(SetCursor(terminal, b))
  BY <1>1
<1>3. SamePlace(terminal, terminal')
  <2> DEFINE t == SetCursor(terminal, b)
  <2>1. /\ Good(t) /\ t.screen = terminal.screen
        /\ t.cursor_x = terminal.cursor_x /\ t.cursor_y = terminal.cursor_y
    BY CursorCurrent DEF SetCursor, ScreenInv, Current, Good, Terminals
  <2> HIDE DEF t
  <2>2. Refresh(t).screen = t.screen /\ Refresh(t).cursor_x = t.cursor_x
        /\ Refresh(t).cursor_y = t.cursor_y
    BY <2>1, RefreshKeepsText DEF Refresh
  <2> QED BY <1>2, <2>1, <2>2 DEF SamePlace, t
<1>4. \A n, k : ShowsBefore(terminal, n, k) => ShowsBefore(terminal', n, k)
  BY <1>3, SamePlaceShows
<1> QED BY <1>1, <1>4 DEF Echo, EchoMatchesLine, Reading, Exam

\* The line is returned and the command runs outside what Echo speaks of.
LEMMA AwayEcho == ASSUME ReturnLine \/ RunCommand \/ SandboxEcho PROVE Echo'
<1>1. pc' \in {"handle", "spin", "prompt", "give_back"}
  BY DEF ReturnLine, Return, RunCommand, handle_command, SandboxEcho, PrintCharacter, Goto
<1> QED BY <1>1 DEF Echo, EchoMatchesLine, Reading, Exam

\* The reset ends with an empty line, and the prompt before the cursor.
LEMMA SilentEcho ==
  ASSUME IInv, Echo, Silent \/ UNCHANGED console_vars PROVE Echo'
<1> DEFINE Resetting == {"memset", "reset_read", "reset_write"}
<1>1. terminal' = terminal
  BY DEF Silent, console_vars
<1>2. pc' \in Resetting => pc \in Resetting
  BY DEF Silent, console_vars, vars, ring_vars, interrupt_keyboard_handler, ResetBuffer,
         ResetRead, ResetWrite, EndOfSleep, KeyWaiting, StartScan, TestScan, TakeSlot,
         TestNewLine, TestZero, TestBit, Spin, StartSandboxScan, TestSandboxScan,
         GiveBackSlot, Goto, LeaveScan, NextTurn
<1>3. \/ pc = "reset_write" /\ len' = len
      \/ pc' \in Reading /\ ~overrun' =>
           pc \in Reading /\ ~overrun /\ len' = len /\ command' = command
  BY DEF Silent, console_vars, vars, ring_vars, interrupt_keyboard_handler,
         process_scancode, set_shift, store_scancode, ResetBuffer,
         ResetRead, ResetWrite, EndOfSleep, KeyWaiting, StartScan, TestScan, TakeSlot,
         TestNewLine, TestZero, TestBit, Spin, StartSandboxScan, TestSandboxScan,
         GiveBackSlot, Goto, LeaveScan, NextTurn, Reading, Exam
<1>4. EchoMatchesLine'
  <2>1. CASE pc = "reset_write" /\ len' = len
    <3>1. len' = 0 /\ ShowsBefore(terminal', 1, Prompt)
      BY <1>1, <2>1 DEF IInv, AtReset, Echo
    <3>2. 1 .. len' = {} /\ len' + 1 = 1
      BY <3>1
    <3> QED BY <3>1, <3>2 DEF EchoMatchesLine
  <2>2. CASE pc' \in Reading /\ ~overrun' =>
               pc \in Reading /\ ~overrun /\ len' = len /\ command' = command
    BY <1>1, <2>2 DEF Echo, EchoMatchesLine
  <2> QED BY <1>3, <2>1, <2>2
<1> QED BY <1>1, <1>2, <1>4 DEF Echo

LEMMA StepEcho ==
  ASSUME IInv, ScreenInv, Echo, [ConsoleNext]_console_vars PROVE Echo'
  BY PromptEcho, BackSpaceEcho, CharacterEcho, CursorEcho, AwayEcho, SilentEcho
     DEF ConsoleNext

LEMMA ConsoleInvariant == ConsoleSpec => []ConsoleInv
<1>1. ConsoleInit => ConsoleInv
  BY InitInvariant, InitScreen
     DEF ConsoleInit, Init, ConsoleInv, Echo, EchoMatchesLine, Reading, Exam
<1>2. ConsoleInv /\ [ConsoleNext]_console_vars => ConsoleInv'
  BY StepKeeps, NextInvariant, StepScreen, StepEcho DEF ConsoleInv
<1> QED BY <1>1, <1>2, PTL DEF ConsoleSpec

-----------------------------------------------------------------------------
(* The properties of Console. *)

\* Every change of the text or of the cursor is followed by the refresh that
\* shows it, whoever made the change.
THEOREM ConsoleShows == ConsoleSpec => []ScreenIsCurrent
<1>1. ConsoleInv => ScreenIsCurrent
  BY DEF ConsoleInv, ScreenInv, Current, Good, ScreenIsCurrent
<1> QED BY <1>1, ConsoleInvariant, PTL

\* The block is off the screen before a command runs.
THEOREM CursorIsHidden == ConsoleSpec => []CursorHidden
<1>1. ASSUME ConsoleInv PROVE CursorHidden
  <2> SUFFICES ASSUME pc \in Sandbox \cup {"prompt", "handle", "memset", "reset_read",
                                          "reset_write"},
                      NEW r \in Rows, NEW c \in Columns
               PROVE  Cursor \notin terminal.video[r][c]
    BY DEF CursorHidden
  <2>1. ~Shown(terminal)
    BY <1>1 DEF ConsoleInv, ScreenInv, CursorOff, Sandbox, Reading, Exam, Shown
  <2>2. terminal.video[r][c] = terminal.screen[r][c]
    BY <1>1, <2>1 DEF ConsoleInv, ScreenInv, Current, Picture
  <2>3. terminal.screen[r][c] \in Bitmaps
    BY <1>1 DEF ConsoleInv, ScreenInv, Current, Good, Terminals
  <2> QED BY <2>2, <2>3, CharsAssumption DEF Bitmaps, Cursor
<1> QED BY <1>1, ConsoleInvariant, PTL

\* What stands between the prompt and the cursor while a line is read is the
\* line kgetline would return: through wraps, scrolls, and backspaces over the
\* end of a row, for every line that fits on the screen.
THEOREM EchoIsLine == ConsoleSpec => []EchoMatchesLine
<1>1. ConsoleInv => EchoMatchesLine
  BY DEF ConsoleInv, Echo
<1> QED BY <1>1, ConsoleInvariant, PTL

=============================================================================
