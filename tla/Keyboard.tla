------------------------------ MODULE Keyboard ------------------------------
(***************************************************************************)
(* The keyboard driver as built without KEYBOARD_POLLING                   *)
(* (src/src/keyboard.c): the interrupt handler that fills scancode_buffer, *)
(* and the kernel's two readers of it, kgetline and the text_sandbox of    *)
(* src/src/kernel.c, with the loop of the shell around them.               *)
(*                                                                         *)
(* Two actors: the kernel's only thread, and the interrupt handler, which  *)
(* runs to its end between any two of the thread's accesses to a shared    *)
(* variable (scancode_buffer, scancode_read and scancode_write are         *)
(* volatile, and interrupts are never masked after init_idt).  So a step   *)
(* of the thread makes at most one such access, and the steps in between   *)
(* are local.                                                              *)
(*                                                                         *)
(* The terminal is the thread's alone, and nothing here depends on it.     *)
(* Console adds it: what these functions print, and when the cursor shows. *)
(***************************************************************************)
EXTENDS Scancodes

CONSTANTS
  CAP,            \* elements of scancode_buffer, 256
  Pressed,        \* the keys that are pressed and released
  capacity,       \* kgetline's parameter: sizeof(command), 256
  SandboxCommand  \* the line that starts text_sandbox, "SANDBOX"

ASSUME CapAssumption == CAP \in Nat /\ CAP >= 2
ASSUME PressedAssumption == Pressed \subseteq Keys \cup {"shift"}
ASSUME CapacityAssumption == capacity \in Nat /\ capacity >= 1

VARIABLES
  scancode_buffer, scancode_read, scancode_write,
  shift,
  pc,
  i, len,         \* locals of the reader
  command,        \* the shell's line, and the two bytes behind it
  overrun         \* ghost: the ring has overflowed during this kgetline

ring_vars == <<scancode_buffer, scancode_read, scancode_write>>
vars == <<ring_vars, shift, pc, i, len, command, overrun>>

Slots == 0 .. CAP - 1
Bytes == 0 .. capacity + 1

\* Mutant: indices wider than uint8_t.
Advance_Wide(x) == (x + 1) % (2 * CAP)

\* The indices are uint8_t and the modulus is sizeof(scancode_buffer), twice
\* the number of elements: the conversion to uint8_t does the wrapping.
Advance(x) == ((x + 1) % (2 * CAP)) % CAP

Init ==
  /\ scancode_buffer = [s \in Slots |-> ZeroEntry]
  /\ scancode_read = 0 /\ scancode_write = 0
  /\ shift = FALSE
  /\ pc = "prompt"
  /\ i = 0 /\ len = 0
  /\ command = [b \in Bytes |-> Nul]
  /\ overrun = FALSE

-----------------------------------------------------------------------------
(* The interrupt handler. *)

\* Program counters of kgetline between the end of its reset and its return,
\* and those of the examination of the element at i.
Exam == {"newline?", "backspace?", "zero?", "bit?", "shift_char", "char"}
Reading == {"wait", "shown", "hidden", "scan", "for", "take"} \cup Exam

\* Mutant: the index is advanced before the element is stored.
store_scancode_Late(k) ==
  /\ scancode_buffer' = [scancode_buffer EXCEPT
                           ![Advance(scancode_write)] = [key |-> k, shift |-> shift]]
  /\ scancode_write' = Advance(scancode_write)
  /\ overrun' = (overrun \/ (pc \in Reading /\ Advance(scancode_write) = scancode_read))
  /\ UNCHANGED <<scancode_read, shift>>

store_scancode(k) ==
  /\ scancode_buffer' = [scancode_buffer EXCEPT
                           ![scancode_write] = [key |-> k, shift |-> shift]]
  /\ scancode_write' = Advance(scancode_write)
  /\ overrun' = (overrun \/ (pc \in Reading /\ Advance(scancode_write) = scancode_read))
  /\ UNCHANGED <<scancode_read, shift>>

set_shift(b) ==
  /\ shift' = b
  /\ UNCHANGED <<ring_vars, overrun>>

\* The scancodes of Ctrl change a bit nobody reads: they are no step here.
process_scancode ==
  \/ "shift" \in Pressed /\ \E b \in BOOLEAN : set_shift(b)
  \/ \E k \in Pressed \ {"shift"} : store_scancode(k)

interrupt_keyboard_handler ==
  /\ process_scancode
  /\ UNCHANGED <<pc, i, len, command>>

-----------------------------------------------------------------------------
(* The shell, up to its call of kgetline. *)

Goto(from, to) == pc = from /\ pc' = to

\* memset(command), which reaches capacity bytes, and the prompt.
PrintPrompt ==
  /\ Goto("prompt", "memset")
  /\ command' = [b \in Bytes |-> IF b < capacity THEN Nul ELSE command[b]]
  /\ UNCHANGED <<ring_vars, shift, i, len, overrun>>

-----------------------------------------------------------------------------
(* kgetline.  The reset of the ring takes three steps.  What an interrupt   *)
(* stores during the memset survives it or not; either way the last of the *)
(* three drops it, so the memset is one step.                              *)

\* Mutant: len keeps the length of the line before.
ResetBuffer_KeepsLen ==
  /\ Goto("memset", "reset_read")
  /\ scancode_buffer' = [s \in Slots |-> ZeroEntry]
  /\ UNCHANGED <<scancode_read, scancode_write, shift, i, len, command, overrun>>

ResetBuffer ==
  /\ Goto("memset", "reset_read")
  /\ len' = 0
  /\ scancode_buffer' = [s \in Slots |-> ZeroEntry]
  /\ UNCHANGED <<scancode_read, scancode_write, shift, i, command, overrun>>

ResetRead ==
  /\ Goto("reset_read", "reset_write")
  /\ scancode_read' = 0
  /\ UNCHANGED <<scancode_buffer, scancode_write, shift, i, len, command, overrun>>

ResetWrite ==
  /\ Goto("reset_write", "wait")
  /\ scancode_write' = 0
  /\ overrun' = FALSE
  /\ UNCHANGED <<scancode_buffer, scancode_read, shift, i, len, command>>

Empty == scancode_read = scancode_write

\* The cursor is shown for a while, then hidden for a while.  Each sleep tests the
\* ring again and again; a key that arrives after its last test is met by the
\* next one, so that test and what follows up to the next are one step.
ShowWhileEmpty ==
  /\ Goto("wait", "shown")
  /\ Empty
  /\ UNCHANGED <<ring_vars, shift, i, len, command, overrun>>

HideAfterSleep ==
  /\ Goto("shown", "hidden")
  /\ Empty
  /\ UNCHANGED <<ring_vars, shift, i, len, command, overrun>>

EndOfSleep ==
  /\ Goto("hidden", "wait")
  /\ Empty
  /\ UNCHANGED <<ring_vars, shift, i, len, command, overrun>>

\* From the loop's condition, or by cursor_sleep's goto read_scancodes.
KeyWaiting ==
  /\ \E p \in {"wait", "shown", "hidden"} : Goto(p, "scan")
  /\ ~Empty
  /\ UNCHANGED <<ring_vars, shift, i, len, command, overrun>>

StartScan ==
  /\ Goto("scan", "for")
  /\ i' = scancode_read
  /\ UNCHANGED <<ring_vars, shift, len, command, overrun>>

\* The life of i ends with its for statement; 0 stands for no value.
LeaveScan(to) == pc' = to /\ i' = 0

\* Mutant: text_sandbox's condition, an order instead of an inequality.
TestScan_Order ==
  /\ pc = "for"
  /\ \/ /\ i < scancode_write
        /\ pc' = "take"
        /\ UNCHANGED i
     \/ /\ i >= scancode_write
        /\ LeaveScan("wait")
  /\ UNCHANGED <<ring_vars, shift, len, command, overrun>>

TestScan ==
  /\ pc = "for"
  /\ \/ /\ i # scancode_write
        /\ pc' = "take"
        /\ UNCHANGED i
     \/ /\ i = scancode_write
        /\ LeaveScan("wait")
  /\ UNCHANGED <<ring_vars, shift, len, command, overrun>>

\* Mutant: everything waiting is given back at once.
TakeSlot_All ==
  /\ Goto("take", "newline?")
  /\ scancode_read' = scancode_write
  /\ UNCHANGED <<scancode_buffer, scancode_write, shift, i, len, command, overrun>>

\* The element is given back to the ring before it has been looked at.
TakeSlot ==
  /\ Goto("take", "newline?")
  /\ scancode_read' = Advance(scancode_read)
  /\ UNCHANGED <<scancode_buffer, scancode_write, shift, i, len, command, overrun>>

Key == scancode_buffer[i].key

TestNewLine ==
  /\ pc = "newline?"
  /\ \/ /\ kbdus[Key] = NewLine
        /\ LeaveScan("return")
     \/ /\ kbdus[Key] # NewLine
        /\ pc' = "backspace?"
        /\ UNCHANGED i
  /\ UNCHANGED <<ring_vars, shift, len, command, overrun>>

\* Mutant: the increment is forgotten.
NextTurn_Same == pc' = "for" /\ i' = i

\* "continue", and the increment of the for statement.
NextTurn == pc' = "for" /\ i' = Advance(i)

TestBackSpace ==
  /\ pc = "backspace?"
  /\ \/ /\ kbdus[Key] = BackSpace
        /\ len' = IF len > 0 THEN len - 1 ELSE len
        /\ NextTurn
     \/ /\ kbdus[Key] # BackSpace
        /\ pc' = "zero?"
        /\ UNCHANGED <<i, len>>
  /\ UNCHANGED <<ring_vars, shift, command, overrun>>

\* Mutant: the length is not tested.
TestZero_NoLimit ==
  /\ pc = "zero?"
  /\ \/ /\ kbdus[Key] # Nul
        /\ pc' = "bit?"
        /\ UNCHANGED i
     \/ /\ kbdus[Key] = Nul
        /\ NextTurn
  /\ UNCHANGED <<ring_vars, shift, len, command, overrun>>

TestZero ==
  /\ pc = "zero?"
  /\ \/ /\ kbdus[Key] # Nul /\ len - 1 # capacity
        /\ pc' = "bit?"
        /\ UNCHANGED i
     \/ /\ kbdus[Key] = Nul \/ len - 1 = capacity
        /\ NextTurn
  /\ UNCHANGED <<ring_vars, shift, len, command, overrun>>

\* Mutant: the tables are swapped.
TestBit_Swapped ==
  /\ Goto("bit?", IF scancode_buffer[i].shift THEN "char" ELSE "shift_char")
  /\ UNCHANGED <<ring_vars, shift, i, len, command, overrun>>

TestBit ==
  /\ Goto("bit?", IF scancode_buffer[i].shift THEN "shift_char" ELSE "char")
  /\ UNCHANGED <<ring_vars, shift, i, len, command, overrun>>

Stored == IF pc = "shift_char" THEN shift_kbdus[Key] ELSE kbdus[Key]

StoreCharacter ==
  /\ pc \in {"shift_char", "char"}
  /\ command' = [command EXCEPT ![len] = Stored]
  /\ len' = len + 1
  /\ NextTurn
  /\ UNCHANGED <<ring_vars, shift, overrun>>

Return ==
  /\ Goto("return", "handle")
  /\ command' = [command EXCEPT ![len] = Nul]
  /\ UNCHANGED <<ring_vars, shift, i, len, overrun>>

kgetline ==
  \/ ResetBuffer \/ ResetRead \/ ResetWrite
  \/ ShowWhileEmpty \/ HideAfterSleep \/ EndOfSleep \/ KeyWaiting
  \/ StartScan \/ TestScan \/ TakeSlot
  \/ TestNewLine \/ TestBackSpace \/ TestZero \/ TestBit \/ StoreCharacter
  \/ Return

-----------------------------------------------------------------------------
(* The command, and text_sandbox, which nothing leaves.                    *)

\* The C string in command.
Text ==
  LET end == CHOOSE b \in Bytes :
               command[b] = Nul /\ \A a \in 0 .. b - 1 : command[a] # Nul
  IN  [b \in 1 .. end |-> command[b - 1]]

handle_command ==
  /\ pc = "handle"
  /\ \/ /\ Text = SandboxCommand
        /\ pc' = "spin"
     \/ /\ Text # SandboxCommand
        /\ pc' = "prompt"
  /\ UNCHANGED <<ring_vars, shift, i, len, command, overrun>>

Spin ==
  /\ Goto("spin", "sandbox_scan")
  /\ ~Empty
  /\ UNCHANGED <<ring_vars, shift, i, len, command, overrun>>

StartSandboxScan ==
  /\ Goto("sandbox_scan", "sandbox_for")
  /\ i' = scancode_read
  /\ UNCHANGED <<ring_vars, shift, len, command, overrun>>

\* The condition is an order, not an inequality.
TestSandboxScan ==
  /\ pc = "sandbox_for"
  /\ \/ /\ i < scancode_write
        /\ pc' = "print"
        /\ UNCHANGED i
     \/ /\ i >= scancode_write
        /\ LeaveScan("spin")
  /\ UNCHANGED <<ring_vars, shift, len, command, overrun>>

PrintCharacter ==
  /\ Goto("print", "give_back")
  /\ i' = (i + 1) % CAP
  /\ UNCHANGED <<ring_vars, shift, len, command, overrun>>

GiveBackSlot ==
  /\ Goto("give_back", "sandbox_for")
  /\ scancode_read' = Advance(scancode_read)
  /\ UNCHANGED <<scancode_buffer, scancode_write, shift, i, len, command, overrun>>

text_sandbox ==
  Spin \/ StartSandboxScan \/ TestSandboxScan \/ PrintCharacter \/ GiveBackSlot

-----------------------------------------------------------------------------
KernelThread == PrintPrompt \/ kgetline \/ handle_command \/ text_sandbox

Next == interrupt_keyboard_handler \/ KernelThread

Spec == Init /\ [][Next]_vars

\* The CPU runs the thread whenever no interrupt is being handled, and handling
\* one takes a bounded time.  Nobody has to press a key.
FairSpec == Spec /\ WF_vars(KernelThread)

-----------------------------------------------------------------------------
(* Properties. *)

Sandbox == {"spin", "sandbox_scan", "sandbox_for", "print", "give_back"}
PCs == Reading \cup Sandbox
         \cup {"prompt", "memset", "reset_read", "reset_write", "return", "handle"}

\* Every variable has its type; len never passes capacity + 1.
TypeOK ==
  /\ scancode_buffer \in [Slots -> Entries]
  /\ scancode_read \in Slots
  /\ scancode_write \in Slots
  /\ shift \in BOOLEAN
  /\ pc \in PCs
  /\ i \in Slots
  /\ len \in Bytes
  /\ command \in [Bytes -> Characters]
  /\ overrun \in BOOLEAN

\* The reader keeps its own index next to scancode_read and advances the two at
\* different points.  They never drift apart: while an element is examined
\* scancode_read is the next one, and otherwise it is the reader's own.
InStep ==
  /\ pc \in {"for", "take", "sandbox_for", "print"} => i = scancode_read
  /\ pc \in Exam => scancode_read = Advance(i)
  /\ pc = "give_back" => i = Advance(scancode_read)

\* kgetline gives a slot back before it reads it, up to five times.  Unless the
\* ring has overflowed, the interrupt handler does not write that slot
\* meanwhile: what a test has seen of the element still holds at the next.
SlotStays ==
  ~overrun =>
    /\ pc \in Exam \ {"newline?"} => kbdus[Key] # NewLine
    /\ pc \in Exam \ {"newline?", "backspace?"} => kbdus[Key] # BackSpace
    /\ pc \in {"bit?", "shift_char", "char"} => kbdus[Key] # Nul
    /\ pc = "shift_char" => scancode_buffer[i].shift
    /\ pc = "char" => ~scancode_buffer[i].shift

\* The line being read and the line returned hold printable characters only,
\* and the line returned ends where kgetline says it does, unless the ring has
\* overflowed: backspaces, torn elements and keys that arrive during the reset
\* leave nothing else in it.
LineText ==
  ~overrun =>
    /\ pc \in Reading \cup {"return"} => \A b \in 0 .. len - 1 : command[b] \in Printable
    /\ pc = "handle" => Len(Text) = len

\* What the code guarantees of the length, overflow or not: a character is
\* stored at capacity at the furthest and the terminator one byte behind it.
LengthBound ==
  /\ len <= capacity + 1
  /\ pc \in {"bit?", "shift_char", "char"} => len <= capacity

\* The refinement of LineReader: the keys waiting are those from scancode_read
\* on, preceded by the one under examination, whose slot is already given back.
Waiting == (scancode_write - scancode_read) % CAP

Queue ==
  (IF pc \in Exam THEN <<scancode_buffer[i]>> ELSE <<>>)
    \o [j \in 1 .. Waiting |-> scancode_buffer[(scancode_read + j - 1) % CAP]]

Status ==
  CASE pc \notin Reading \cup {"return", "handle"} -> "away"
    [] pc \in Reading \cup {"return", "handle"} /\ overrun -> "spoiled"
    [] pc \in Reading /\ ~overrun -> "reading"
    [] pc \in {"return", "handle"} /\ ~overrun -> "returned"

LR == INSTANCE LineReader WITH
        Limit     <- CAP - 1,
        SpoilFrom <- CAP - 1,
        Held      <- 0,
        MaxLine   <- capacity + 1,
        queue     <- IF Status = "reading" THEN Queue ELSE <<>>,
        line      <- IF Status \in {"reading", "returned"}
                     THEN [b \in 1 .. len |-> command[b - 1]] ELSE <<>>,
        status    <- Status

\* kgetline implements LineReader: whatever the interleaving with the interrupt
\* handler, no key is taken twice, skipped or taken out of order, and none is
\* lost while it reads unless CAP - 1 are already waiting.
ReadsLines == LR!Spec

\* kgetline returns once an Enter is in the ring, unless the ring overflows.
EnterWaits == pc \in Reading /\ \E j \in 1 .. Len(Queue) : Queue[j].key = "enter"
EnterReturns == EnterWaits ~> (pc = "return" \/ overrun)

\* keyboard.h:8 calls scancode_buffer a "circular buffer for scancodes": a key
\* in it is one its reader can reach.  So text_sandbox, with a key waiting,
\* goes on to print one.
SandboxPrints ==
  (pc \in Sandbox /\ ~Empty) ~> (pc = "print" \/ Empty)

\* keyboard.h:24 names kgetline's last parameter the capacity of the buffer, and
\* kernel.c:130 passes sizeof(command): the characters and the terminator are
\* written within capacity bytes.
LineFits ==
  /\ pc \in {"shift_char", "char"} => len < capacity
  /\ pc = "return" => len < capacity

=============================================================================
