--------------------------- MODULE KeyboardPolling ---------------------------
(***************************************************************************)
(* The keyboard driver as built with KEYBOARD_POLLING                      *)
(* (src/src/keyboard.c).  kgetline polls the controller and calls          *)
(* process_scancode itself; but init_idt unmasks IRQ 1 in this build as    *)
(* well (src/src/interrupts.c), so where interrupts work there are two     *)
(* readers of port 0x60 and two writers of scancode_buffer.                *)
(*                                                                         *)
(* The actors are those of Keyboard and the controller.  It holds one byte *)
(* at a time, and the keyboard keeps the next until that one has been      *)
(* read.  A read of the port when nothing has arrived since the last one   *)
(* returns the same byte again.  The request for an interrupt is raised    *)
(* with the byte; once the thread has read the byte it may or may not be   *)
(* withdrawn, which differs between machines.                              *)
(***************************************************************************)
EXTENDS Keyboard

VARIABLES
  irqs_work,   \* whether the machine delivers IRQ 1 at all; never changes
  full, data,  \* the controller: bit 0 of port 0x64, and port 0x60
  irq,         \* IRQ 1 is requested
  scancode, bit, index,  \* process_scancode called by the thread: its parameter,
                         \* and the values of shift and scancode_write it has read
  raced        \* ghost: while this kgetline reads, the handler has run between the
               \* thread's poll and its storing, or has read a byte once more

controller_vars == <<irqs_work, full, data, irq>>
local_vars == <<scancode, bit, index>>
poll_vars == <<vars, controller_vars, local_vars, raced>>

\* The bytes the controller sends.
Scancode == (Pressed \ {"shift"})
              \cup IF "shift" \in Pressed THEN {"shift_down", "shift_up"} ELSE {}
ShiftCodes == {"shift_down", "shift_up"}

ASSUME ShiftCodesAssumption == Letters \cap ShiftCodes = {}

PollingInit ==
  /\ Init
  /\ irqs_work \in BOOLEAN
  /\ full = FALSE /\ data = "dead"
  /\ irq = FALSE
  /\ scancode = "dead" /\ bit = FALSE /\ index = 0
  /\ raced = FALSE

-----------------------------------------------------------------------------
(* The controller and the interrupt handler. *)

ByteArrives ==
  /\ ~full
  /\ \E c \in Scancode : data' = c
  /\ full' = TRUE
  /\ irq' = irqs_work
  /\ UNCHANGED <<vars, irqs_work, local_vars, raced>>

\* The thread is between its poll of the controller and the end of
\* process_scancode.
Storing == {"inb", "set_shift", "shift?", "index?", "store", "next?", "advance"}

process(c) ==
  \/ c \in ShiftCodes /\ set_shift(c = "shift_down")
  \/ c \notin ShiftCodes /\ store_scancode(c)

polling_keyboard_handler ==
  /\ irq
  /\ process(data)
  /\ irq' = FALSE
  /\ full' = FALSE
  /\ raced' = (raced \/ pc \in Storing \/ (pc \in Reading /\ ~full))
  /\ UNCHANGED <<pc, i, len, command, irqs_work, data, local_vars>>

-----------------------------------------------------------------------------
(* The polling loop of kgetline, an access to a shared variable or a port   *)
(* at a time.                                                              *)

\* What the polling loop leaves alone in each of its steps.
reader_vars == <<i, len, command>>

ByteWaiting ==
  /\ Goto("wait", "inb")
  /\ full
  /\ UNCHANGED <<ring_vars, shift, reader_vars, overrun,
                 controller_vars, local_vars, raced>>

ShowWhileNoByte ==
  /\ Goto("wait", "shown")
  /\ ~full
  /\ UNCHANGED <<ring_vars, shift, i, len, command, overrun,
                 controller_vars, local_vars, raced>>

\* goto read_scancodes, which only the sleeps do.
KeyDuringSleep ==
  /\ pc \in {"shown", "hidden"}
  /\ KeyWaiting
  /\ UNCHANGED <<controller_vars, local_vars, raced>>

ReadByte ==
  /\ Goto("inb", IF data \in ShiftCodes THEN "set_shift" ELSE "shift?")
  /\ scancode' = data
  /\ full' = FALSE
  /\ irq' \in {irq, FALSE}
  /\ UNCHANGED <<ring_vars, shift, reader_vars, overrun,
                 irqs_work, data, bit, index, raced>>

\* Mutant: a release leaves shift as it is.
SetShift_Stuck ==
  /\ Goto("set_shift", "wait")
  /\ shift' = TRUE
  /\ scancode' = "dead"
  /\ UNCHANGED <<ring_vars, reader_vars, overrun, controller_vars, bit, index, raced>>

\* process_scancode returns 0: the loop goes on.
SetShift ==
  /\ Goto("set_shift", "wait")
  /\ shift' = (scancode = "shift_down")
  /\ scancode' = "dead"
  /\ UNCHANGED <<ring_vars, reader_vars, overrun, controller_vars, bit, index, raced>>

LoadShift ==
  /\ Goto("shift?", "index?")
  /\ bit' = shift
  /\ UNCHANGED <<ring_vars, shift, reader_vars, overrun,
                 controller_vars, scancode, index, raced>>

LoadIndex ==
  /\ Goto("index?", "store")
  /\ index' = scancode_write
  /\ UNCHANGED <<ring_vars, shift, reader_vars, overrun,
                 controller_vars, scancode, bit, raced>>

StoreElement ==
  /\ Goto("store", "next?")
  /\ scancode_buffer' = [scancode_buffer EXCEPT
                           ![index] = [key |-> scancode, shift |-> bit]]
  /\ UNCHANGED <<scancode_read, scancode_write, shift, reader_vars, overrun,
                 controller_vars, local_vars, raced>>

LoadNext ==
  /\ Goto("next?", "advance")
  /\ index' = scancode_write
  /\ UNCHANGED <<ring_vars, shift, reader_vars, overrun,
                 controller_vars, scancode, bit, raced>>

\* Mutant: process_scancode returns 0 for a key as well.
AdvanceWrite_NoBreak ==
  /\ Goto("advance", "wait")
  /\ scancode_write' = Advance(index)
  /\ overrun' = (overrun \/ Advance(index) = scancode_read)
  /\ scancode' = "dead" /\ bit' = FALSE /\ index' = 0
  /\ UNCHANGED <<scancode_buffer, scancode_read, shift, reader_vars,
                 controller_vars, raced>>

\* process_scancode returns 1: the loop ends and the ring is scanned.
AdvanceWrite ==
  /\ Goto("advance", "scan")
  /\ scancode_write' = Advance(index)
  /\ overrun' = (overrun \/ Advance(index) = scancode_read)
  /\ scancode' = "dead" /\ bit' = FALSE /\ index' = 0
  /\ UNCHANGED <<scancode_buffer, scancode_read, shift, reader_vars,
                 controller_vars, raced>>

PollingLoop ==
  \/ ByteWaiting \/ ShowWhileNoByte \/ KeyDuringSleep
  \/ ReadByte \/ SetShift \/ LoadShift \/ LoadIndex
  \/ StoreElement \/ LoadNext \/ AdvanceWrite

\* The rest of kgetline and of the shell is the same in both builds.
PollingReset ==
  /\ ResetWrite
  /\ raced' = FALSE
  /\ UNCHANGED <<controller_vars, local_vars>>

Unpolled ==
  /\ \/ PrintPrompt \/ ResetBuffer \/ ResetRead
     \/ HideAfterSleep \/ EndOfSleep
     \/ StartScan \/ TestScan \/ TakeSlot
     \/ TestNewLine \/ TestBackSpace \/ TestZero \/ TestBit \/ StoreCharacter
     \/ Return \/ handle_command \/ text_sandbox
  /\ UNCHANGED <<controller_vars, local_vars, raced>>

PollingThread == PollingLoop \/ PollingReset \/ Unpolled

PollingNext == ByteArrives \/ polling_keyboard_handler \/ PollingThread

PollingSpec == PollingInit /\ [][PollingNext]_poll_vars

\* As in Keyboard: the CPU runs the thread.  Nobody has to press a key, and a
\* request for an interrupt may be pending for as long as it likes.
FairPollingSpec == PollingSpec /\ WF_poll_vars(PollingThread)

-----------------------------------------------------------------------------
(* Properties. *)

PollingReading == Reading \cup Storing

PollingTypeOK ==
  /\ scancode_buffer \in [Slots -> Entries]
  /\ {scancode_read, scancode_write, i, index} \subseteq Slots
  /\ {shift, overrun, irqs_work, full, irq, bit, raced} \subseteq BOOLEAN
  /\ pc \in PCs \cup Storing
  /\ len \in Bytes
  /\ command \in [Bytes -> Characters]
  /\ {data, scancode} \subseteq Keys \cup ShiftCodes

\* On a machine that delivers no IRQ 1, for which this build is made, polling
\* is safe by itself: the ring never overflows and never holds more than the one
\* key that has just been stored, however fast keys arrive, so no key is lost
\* while a line is read.
PollingAlone ==
  ~irqs_work /\ pc \in PollingReading => ~overrun /\ ~raced /\ Waiting <= 1

\* The shift state as it will be when what the thread has read is processed.
ShiftNow == IF pc = "set_shift" THEN scancode = "shift_down" ELSE shift

InController ==
  IF full /\ data \notin ShiftCodes THEN <<[key |-> data, shift |-> ShiftNow]>>
  ELSE <<>>

\* The key the thread has read and has not stored yet.
InProcess ==
  CASE pc = "shift?" -> <<[key |-> scancode, shift |-> shift]>>
    [] pc \in {"index?", "store", "next?", "advance"} ->
         <<[key |-> scancode, shift |-> bit]>>
    [] OTHER -> <<>>

Pending == Queue \o InProcess \o InController

Spoiled == overrun \/ raced

PollingStatus ==
  CASE pc \notin PollingReading \cup {"return", "handle"} -> "away"
    [] pc \in PollingReading \cup {"return", "handle"} /\ Spoiled -> "spoiled"
    [] pc \in PollingReading /\ ~Spoiled -> "reading"
    [] pc \in {"return", "handle"} /\ ~Spoiled -> "returned"

\* The refinement of LineReader.  A key is pressed when it reaches the controller,
\* which keeps one while no line is read.
PLR == INSTANCE LineReader WITH
         Limit     <- CAP,
         SpoilFrom <- 0,
         Held      <- 1,
         MaxLine   <- capacity + 1,
         queue     <- IF PollingStatus = "reading" THEN Pending ELSE InController,
         line      <- IF PollingStatus \in {"reading", "returned"}
                        THEN [b \in 1 .. len |-> command[b - 1]] ELSE <<>>,
         status    <- PollingStatus

\* The polling build implements LineReader: from the controller to the line no
\* key is lost, taken twice or out of order, or paired with the wrong shift, in
\* every interleaving in which the two readers of the port do not meet.  Between
\* lines the controller keeps a key for the next one.
PollingReadsLines == PLR!Spec

\* An Enter that has reached the controller ends the line, unless the two readers
\* have met.  The loop looks at the ring only while it blinks and after a key it
\* has stored itself; a shift key puts that off, which matters only where the
\* handler can store an Enter meanwhile.
EnterPressed ==
  /\ pc \in PollingReading
  /\ \E j \in 1 .. Len(Pending) : Pending[j].key = "enter"

PollingEnterReturns ==
  EnterPressed ~> (pc = "return" \/ Spoiled \/ (irqs_work /\ pc = "set_shift"))
=============================================================================
