---------------------------- MODULE PollingProofs ----------------------------
(***************************************************************************)
(* Proofs about KeyboardPolling, for a ring of any size, a buffer of any   *)
(* capacity and any set of keys.                                           *)
(*                                                                         *)
(* Outside process_scancode the thread is where it is in the other build,  *)
(* and the lemmas of KeyboardProofs carry over; within it the thread       *)
(* examines no element, and only what the line needs has to be kept.       *)
(***************************************************************************)
EXTENDS KeyboardPolling, KeyboardProofs

LineKept ==
  /\ len <= capacity + 1
  /\ ~overrun => \A b \in 0 .. len - 1 : command[b] \in Printable

\* The thread where it can be in both builds, and where it stores a key.
Apart == IF pc \in Storing THEN LineKept ELSE IInv

\* What the controller hands out is a byte of the keyboard's, and what the thread
\* stores of them is a key.
BytesKnown ==
  /\ irq \/ full \/ pc = "inb" => data \in Scancode
  /\ pc \in {"shift?", "index?", "store", "next?", "advance"} => scancode \in Keys

PollingIInv == PollingTypeOK /\ Apart /\ BytesKnown

-----------------------------------------------------------------------------
LEMMA ScancodeTypes ==
  ASSUME NEW c \in Scancode
  PROVE  /\ c \in Keys \cup ShiftCodes
         /\ c \in ShiftCodes => "shift" \in Pressed
         /\ c \notin ShiftCodes => c \in Pressed \ {"shift"} /\ c \in Keys
<1>1. CASE c \in Pressed \ {"shift"}
  BY <1>1, PressedAssumption, ShiftCodesAssumption DEF ShiftCodes, Keys
<1>2. CASE c \notin Pressed \ {"shift"}
  BY <1>2 DEF Scancode, ShiftCodes
<1> QED BY <1>1, <1>2

LEMMA Disjoint ==
  /\ PCs \cap Storing = {} /\ Reading \cap Storing = {} /\ Exam \cap Storing = {}
  /\ {"wait", "shown", "hidden", "scan"} \subseteq Reading
  BY DEF PCs, Reading, Exam, Sandbox, Storing

\* What this build adds to the variables has its type.
AddedTypes ==
  /\ index \in Slots
  /\ {irqs_work, full, irq, bit, raced} \subseteq BOOLEAN
  /\ {data, scancode} \subseteq Keys \cup ShiftCodes

LEMMA TypesSplit == PollingTypeOK /\ pc \notin Storing <=> TypeOK /\ AddedTypes
  BY Disjoint DEF PollingTypeOK, TypeOK, AddedTypes

\* A step that leaves the thread where it can be in both builds.
LEMMA Back ==
  ASSUME IInv', AddedTypes', BytesKnown' PROVE PollingIInv'
<1>1. TypeOK'
  BY DEF IInv
<1>2. (PollingTypeOK /\ pc \notin Storing)'
  BY <1>1, Disjoint DEF PollingTypeOK, TypeOK, AddedTypes
<1> QED BY <1>2 DEF PollingIInv, Apart

\* process_scancode returns to the loop.
LEMMA LeaveStoring ==
  ASSUME PollingIInv, pc \in Storing, pc' \in {"wait", "scan"},
         scancode_buffer' = scancode_buffer, scancode_read' = scancode_read,
         scancode_write' \in Slots, shift' \in BOOLEAN, overrun' \in BOOLEAN,
         overrun => overrun', UNCHANGED <<i, len, command>>
  PROVE  IInv'
<1>1. PollingTypeOK /\ LineKept
  BY DEF PollingIInv, Apart
<1>2. TypeOK'
  BY <1>1 DEF PollingTypeOK, TypeOK, PCs, Reading
<1>3. (InStep /\ SlotStays /\ AtReset /\ AtHandle)'
  BY DEF InStep, SlotStays, AtReset, AtHandle, Exam
<1>4. LengthBound' /\ LineCharacters'
  BY <1>1 DEF LineKept, LengthBound, LineCharacters, Reading
<1> QED BY <1>2, <1>3, <1>4 DEF IInv

LEMMA InitPolling == PollingInit => PollingIInv
<1> SUFFICES ASSUME PollingInit PROVE PollingIInv
  OBVIOUS
<1>1. IInv /\ 0 \in Slots
  BY InitInvariant, CapAssumption DEF PollingInit, Slots
<1>2. pc = "prompt"
  BY DEF PollingInit, Init
<1>3. AddedTypes
  BY <1>1 DEF PollingInit, AddedTypes, Keys
<1>4. BytesKnown
  BY <1>2 DEF PollingInit, BytesKnown
<1>5. TypeOK /\ pc \notin Storing
  BY <1>1, <1>2 DEF IInv, Storing
<1>6. PollingTypeOK
  BY <1>3, <1>5, TypesSplit
<1> QED BY <1>1, <1>4, <1>5, <1>6 DEF PollingIInv, Apart

LEMMA ByteArrivesStep == ASSUME PollingIInv, ByteArrives PROVE PollingIInv'
<1>1. PICK c \in Scancode : data' = c
  BY DEF ByteArrives
<1>2. c \in Keys \cup ShiftCodes
  BY ScancodeTypes
<1>3. UNCHANGED vars /\ UNCHANGED local_vars /\ UNCHANGED <<irqs_work, raced>>
      /\ full' = TRUE /\ irq' = irqs_work
  BY DEF ByteArrives
<1>4. PollingTypeOK' /\ BytesKnown'
  BY <1>1, <1>2, <1>3
     DEF PollingIInv, PollingTypeOK, BytesKnown, vars, ring_vars, local_vars
<1>5. CASE pc \in Storing
  BY <1>3, <1>4, <1>5 DEF PollingIInv, Apart, LineKept, vars, ring_vars
<1>6. CASE pc \notin Storing
  <2>1. IInv' /\ pc' = pc
    BY <1>3, <1>6, NextInvariant DEF PollingIInv, Apart, vars
  <2> QED BY <1>4, <1>6, <2>1 DEF PollingIInv, Apart
<1> QED BY <1>5, <1>6

LEMMA HandlerStep == ASSUME PollingIInv, polling_keyboard_handler PROVE PollingIInv'
<1>1. /\ data \in Scancode /\ process(data) /\ irq' = FALSE /\ full' = FALSE
      /\ UNCHANGED <<pc, i, len, command, irqs_work, data, scancode, bit, index>>
      /\ raced' = (raced \/ pc \in Storing \/ (pc \in Reading /\ ~full))
  BY DEF polling_keyboard_handler, PollingIInv, BytesKnown, local_vars
<1>2. AddedTypes'
  <2>1. raced' \in BOOLEAN
    BY <1>1, Zenon DEF PollingIInv, PollingTypeOK
  <2> QED BY <1>1, <2>1 DEF PollingIInv, PollingTypeOK, AddedTypes
<1>3. BytesKnown'
  BY <1>1 DEF PollingIInv, BytesKnown
<1>4. \/ \E b \in BOOLEAN : set_shift(b) /\ "shift" \in Pressed
      \/ \E key \in Pressed \ {"shift"} : key \in Keys /\ store_scancode(key)
  <2>1. (data = "shift_down") \in BOOLEAN
    OBVIOUS
  <2> QED BY <1>1, <2>1, ScancodeTypes DEF process
<1>5. CASE pc \notin Storing
  <2>1. interrupt_keyboard_handler
    BY <1>1, <1>4 DEF interrupt_keyboard_handler, process_scancode
  <2>2. IInv'
    BY <1>5, <2>1, InterruptInvariant DEF PollingIInv, Apart
  <2> QED BY <1>2, <1>3, <2>2, Back
<1>6. CASE pc \in Storing
  <2>1. PollingTypeOK /\ LineKept
    BY <1>6 DEF PollingIInv, Apart
  <2>2. /\ scancode_buffer' \in [Slots -> Entries] /\ scancode_write' \in Slots
        /\ scancode_read' = scancode_read /\ shift' \in BOOLEAN
        /\ overrun' \in BOOLEAN /\ (overrun => overrun')
    <3>1. ASSUME NEW b \in BOOLEAN, set_shift(b)
          PROVE  /\ UNCHANGED <<scancode_buffer, scancode_write, scancode_read, overrun>>
                 /\ shift' \in BOOLEAN
      BY <3>1 DEF set_shift, ring_vars
    <3>2. ASSUME NEW key \in Keys, store_scancode(key)
          PROVE  /\ scancode_buffer' \in [Slots -> Entries] /\ scancode_write' \in Slots
                 /\ UNCHANGED <<scancode_read, shift, overrun>>
      <4>1. [key |-> key, shift |-> shift] \in Entries
        BY <2>1 DEF PollingTypeOK, Entries
      <4>2. overrun' = overrun
        BY <1>6, <2>1, <3>2, Disjoint DEF store_scancode, PollingTypeOK
      <4> QED BY <2>1, <3>2, <4>1, <4>2, AdvanceWraps DEF store_scancode, PollingTypeOK
    <3> QED BY <1>4, <2>1, <3>1, <3>2 DEF PollingTypeOK
  <2>3. PollingTypeOK'
    BY <1>1, <1>2, <2>1, <2>2 DEF PollingTypeOK, AddedTypes
  <2>4. LineKept'
    BY <1>1, <2>1, <2>2 DEF LineKept
  <2> QED BY <1>1, <1>3, <1>6, <2>3, <2>4 DEF PollingIInv, Apart
<1> QED BY <1>5, <1>6

-----------------------------------------------------------------------------
(* The polling loop. *)

\* The steps that find the thread in the loop and leave it there.
LEMMA LoopStep ==
  ASSUME PollingIInv, ByteWaiting \/ ShowWhileNoByte \/ KeyDuringSleep
  PROVE  PollingIInv'
<1>1. UNCHANGED <<irqs_work, full, data, irq, scancode, bit, index, raced>>
  BY DEF ByteWaiting, ShowWhileNoByte, KeyDuringSleep, controller_vars, local_vars
<1>2. pc \in {"wait", "shown", "hidden"} /\ pc \notin Storing
  BY DEF ByteWaiting, ShowWhileNoByte, KeyDuringSleep, KeyWaiting, Goto, Storing
<1>3. IInv /\ AddedTypes' /\ pc \in Reading /\ PollingTypeOK
  BY <1>1, <1>2, Disjoint DEF PollingIInv, Apart, PollingTypeOK, AddedTypes
<1>4. CASE ByteWaiting
  <2>1. pc' = "inb" /\ full
        /\ UNCHANGED <<scancode_buffer, scancode_read, scancode_write, shift, i, len,
                       command, overrun>>
    BY <1>4 DEF ByteWaiting, Goto, ring_vars, reader_vars
  <2>2. LineKept'
    BY <1>3, <2>1 DEF IInv, LengthBound, LineCharacters, LineKept
  <2>3. PollingTypeOK'
    BY <1>1, <1>3, <2>1 DEF PollingTypeOK, Storing
  <2>4. BytesKnown'
    BY <1>1, <2>1 DEF PollingIInv, BytesKnown
  <2> QED BY <2>1, <2>2, <2>3, <2>4 DEF PollingIInv, Apart, Storing
<1>5. CASE ShowWhileNoByte
  <2>1. pc = "wait" /\ pc' = "shown"
        /\ UNCHANGED <<scancode_buffer, scancode_read, scancode_write, shift, i, len,
                       command, overrun>>
    BY <1>5 DEF ShowWhileNoByte, Goto, ring_vars
  <2>2. TypeOK'
    BY <1>3, <2>1 DEF IInv, TypeOK, PCs, Reading
  <2>3. (InStep /\ SlotStays /\ AtReset /\ AtHandle)'
    BY <2>1 DEF InStep, SlotStays, AtReset, AtHandle, Exam
  <2>4. LengthBound' /\ LineCharacters'
    BY <1>3, <2>1 DEF IInv, LengthBound, LineCharacters, Reading
  <2>5. BytesKnown'
    BY <1>1, <2>1 DEF PollingIInv, BytesKnown
  <2> QED BY <1>3, <2>2, <2>3, <2>4, <2>5, Back DEF IInv
<1>6. CASE KeyDuringSleep
  <2>1. IInv'
    BY <1>3, <1>6, QuietInvariant DEF KeyDuringSleep
  <2>2. pc' = "scan"
    BY <1>6 DEF KeyDuringSleep, KeyWaiting, Goto
  <2>3. BytesKnown'
    BY <1>1, <2>2 DEF PollingIInv, BytesKnown
  <2> QED BY <1>3, <2>1, <2>3, Back
<1> QED BY <1>4, <1>5, <1>6

\* The steps within process_scancode.
LEMMA InsideStep ==
  ASSUME PollingIInv, ReadByte \/ LoadShift \/ LoadIndex \/ StoreElement \/ LoadNext
  PROVE  PollingIInv'
<1>1. pc \in Storing /\ pc' \in Storing
  BY DEF ReadByte, LoadShift, LoadIndex, StoreElement, LoadNext, Goto, Storing
<1>2. PollingTypeOK /\ LineKept /\ BytesKnown
  BY <1>1 DEF PollingIInv, Apart
<1>3. UNCHANGED <<scancode_read, scancode_write, shift, i, len, command, overrun,
                  irqs_work, data, raced>>
  BY DEF ReadByte, LoadShift, LoadIndex, StoreElement, LoadNext, ring_vars, reader_vars,
         controller_vars, local_vars
<1>4. LineKept'
  BY <1>2, <1>3 DEF LineKept
<1>5. CASE ReadByte
  <2>1. /\ pc = "inb" /\ pc' = IF data \in ShiftCodes THEN "set_shift" ELSE "shift?"
        /\ scancode' = data /\ full' = FALSE /\ irq' \in {irq, FALSE}
        /\ UNCHANGED <<scancode_buffer, bit, index>>
    BY <1>5 DEF ReadByte, Goto, ring_vars
  <2>2. data \in Scancode
    BY <1>2, <2>1 DEF BytesKnown
  <2>3. BytesKnown'
    BY <1>3, <2>1, <2>2, ScancodeTypes DEF BytesKnown
  <2>4. PollingTypeOK'
    BY <1>1, <1>2, <1>3, <2>1 DEF PollingTypeOK
  <2> QED BY <1>1, <1>4, <2>3, <2>4 DEF PollingIInv, Apart
<1>6. CASE StoreElement
  <2>1. /\ pc = "store" /\ pc' = "next?"
        /\ scancode_buffer' = [scancode_buffer EXCEPT ![index] = [key |-> scancode, shift |-> bit]]
        /\ UNCHANGED <<full, irq, scancode, bit, index>>
    BY <1>6 DEF StoreElement, Goto, controller_vars, local_vars
  <2>2. scancode \in Keys /\ bit \in BOOLEAN
    BY <1>2, <2>1 DEF BytesKnown, PollingTypeOK
  <2>3. [key |-> scancode, shift |-> bit] \in Entries
    BY <2>2 DEF Entries
  <2>4. scancode_buffer' \in [Slots -> Entries]
    BY <1>2, <2>1, <2>3 DEF PollingTypeOK
  <2>5. PollingTypeOK'
    BY <1>1, <1>2, <1>3, <2>1, <2>4 DEF PollingTypeOK
  <2>6. BytesKnown'
    BY <1>2, <1>3, <2>1 DEF BytesKnown
  <2> QED BY <1>1, <1>4, <2>5, <2>6 DEF PollingIInv, Apart
<1>7. CASE LoadShift \/ LoadIndex \/ LoadNext
  <2>1. /\ <<pc, pc'>> \in {<<"shift?", "index?">>, <<"index?", "store">>, <<"next?", "advance">>}
        /\ bit' \in {bit, shift} /\ index' \in {index, scancode_write}
        /\ UNCHANGED <<scancode_buffer, full, irq, scancode>>
    BY <1>7 DEF LoadShift, LoadIndex, LoadNext, Goto, ring_vars, controller_vars
  <2>2. PollingTypeOK'
    BY <1>1, <1>2, <1>3, <2>1 DEF PollingTypeOK
  <2>3. BytesKnown'
    BY <1>2, <1>3, <2>1 DEF BytesKnown
  <2> QED BY <1>1, <1>4, <2>2, <2>3 DEF PollingIInv, Apart
<1> QED BY <1>5, <1>6, <1>7

LEMMA LeaveStep ==
  ASSUME PollingIInv, SetShift \/ AdvanceWrite PROVE PollingIInv'
<1>1. pc \in Storing /\ pc' \in {"wait", "scan"}
  BY DEF SetShift, AdvanceWrite, Goto, Storing
<1>2. PollingTypeOK /\ BytesKnown
  BY DEF PollingIInv
<1>3. /\ UNCHANGED <<scancode_buffer, scancode_read, i, len, command, irqs_work, full, data,
                     irq, raced>>
      /\ scancode' = "dead" /\ bit' \in {bit, FALSE} /\ index' \in {index, 0}
  BY DEF SetShift, AdvanceWrite, ring_vars, reader_vars, controller_vars
<1>4. scancode_write' \in Slots
  BY <1>2, AdvanceWraps DEF SetShift, AdvanceWrite, ring_vars, PollingTypeOK
<1>5. shift' \in BOOLEAN /\ overrun' \in BOOLEAN /\ (overrun => overrun')
  <2>1. CASE SetShift
    BY <1>2, <2>1 DEF SetShift, PollingTypeOK
  <2>2. CASE AdvanceWrite
    BY <1>2, <2>2 DEF AdvanceWrite, PollingTypeOK
  <2> QED BY <2>1, <2>2
<1>6. IInv'
  BY <1>1, <1>3, <1>4, <1>5, LeaveStoring
<1>7. AddedTypes'
  <2>1. 0 \in Slots
    BY CapAssumption DEF Slots
  <2> QED BY <1>2, <1>3, <2>1 DEF PollingTypeOK, AddedTypes, Keys
<1>8. BytesKnown'
  BY <1>1, <1>2, <1>3 DEF BytesKnown
<1> QED BY <1>6, <1>7, <1>8, Back

LEMMA UnpolledStep ==
  ASSUME PollingIInv, Unpolled \/ PollingReset PROVE PollingIInv'
<1>1. pc \notin Storing /\ pc' \notin Storing
  BY DEF Unpolled, PollingReset, PrintPrompt, ResetBuffer, ResetRead, ResetWrite,
         HideAfterSleep, EndOfSleep, StartScan, TestScan, TakeSlot, TestNewLine,
         TestBackSpace, TestZero, TestBit, StoreCharacter, Return, handle_command,
         text_sandbox, Spin, StartSandboxScan, TestSandboxScan, PrintCharacter, GiveBackSlot,
         Goto, LeaveScan, NextTurn, Storing
<1>2. IInv /\ PollingTypeOK /\ BytesKnown
  BY <1>1 DEF PollingIInv, Apart
<1>3. UNCHANGED <<irqs_work, full, data, irq, scancode, bit, index>> /\ raced' \in {raced, FALSE}
  BY DEF Unpolled, PollingReset, controller_vars, local_vars
<1>4. IInv'
  BY <1>2, QuietInvariant, TestsInvariant, StoreInvariant, SandboxInvariant
     DEF Unpolled, PollingReset, text_sandbox
<1>5. AddedTypes' /\ BytesKnown'
  BY <1>1, <1>2, <1>3 DEF PollingTypeOK, AddedTypes, BytesKnown, Storing
<1> QED BY <1>4, <1>5, Back

\* PollingIInv holds in every state of the polling build.
THEOREM PollingInvariant == PollingSpec => []PollingIInv
<1>1. ASSUME PollingIInv, [PollingNext]_poll_vars PROVE PollingIInv'
  <2>1. CASE UNCHANGED poll_vars
    <3>1. UNCHANGED <<vars, irqs_work, full, data, irq, scancode, bit, index, raced>>
      BY <2>1 DEF poll_vars, controller_vars, local_vars
    <3>2. PollingTypeOK' /\ BytesKnown' /\ LineKept' = LineKept /\ pc' = pc
      BY <1>1, <3>1 DEF PollingIInv, PollingTypeOK, BytesKnown, LineKept, vars, ring_vars
    <3>3. IInv => IInv'
      BY <3>1, NextInvariant
    <3> QED BY <1>1, <3>2, <3>3 DEF PollingIInv, Apart
  <2>2. CASE PollingNext
    BY <1>1, <2>2, ByteArrivesStep, HandlerStep, LoopStep, InsideStep, LeaveStep, UnpolledStep
       DEF PollingNext, PollingThread, PollingLoop
  <2> QED BY <1>1, <2>1, <2>2
<1> QED BY InitPolling, <1>1, PTL DEF PollingSpec

\* The driver's variables and the controller's keep their types, wherever the
\* handler meets process_scancode.
THEOREM PollingTypeCorrect == PollingSpec => []PollingTypeOK
<1>1. PollingIInv => PollingTypeOK
  BY DEF PollingIInv
<1> QED BY PollingInvariant, <1>1, PTL

\* Unless the ring overflows, the element under examination is not replaced in
\* the polling build either, although two writers store into the ring.
THEOREM PollingSlotIsStable == PollingSpec => []SlotStays
<1>1. PollingIInv => SlotStays
  BY DEF PollingIInv, Apart, IInv, SlotStays, Storing, Exam
<1> QED BY PollingInvariant, <1>1, PTL

-----------------------------------------------------------------------------
(* A machine that delivers no IRQ 1.  Nobody but the thread stores, and it *)
(* stores a key only into an empty ring.                                   *)

OneKey ==
  /\ pc \in {"wait", "shown", "hidden"} \cup Storing \cup Exam
       => scancode_write = scancode_read
  /\ pc \in {"scan", "take"} => scancode_write = Advance(scancode_read)
  /\ pc = "for" => scancode_write \in {scancode_read, Advance(scancode_read)}
  /\ pc = "advance" => index = scancode_write
  /\ pc = "reset_write" => scancode_read = 0

Alone ==
  ~irqs_work =>
    /\ ~irq
    /\ pc \in PollingReading => ~overrun /\ ~raced
    /\ OneKey

LEMMA AdvanceMoves == ASSUME NEW x \in Slots PROVE Advance(x) # x
  BY AdvanceWraps, CapAssumption DEF Slots

\* The steps that leave the ring, the two flags and where the thread is alone.
LEMMA StutterAlone ==
  ASSUME Alone, irq' \in {irq, FALSE, irqs_work},
         UNCHANGED <<pc, scancode_read, scancode_write, overrun, raced, irqs_work, index>>
  PROVE  Alone'
  BY DEF Alone, OneKey

LEMMA LoopAlone ==
  ASSUME PollingIInv, Alone, ~irqs_work, PollingLoop PROVE Alone'
<1>1. ~irq' /\ irqs_work' = irqs_work /\ raced' = raced /\ scancode_read' = scancode_read
  <2>1. irq = FALSE
    BY DEF Alone, PollingIInv, PollingTypeOK
  <2>2. CASE ReadByte
    <3>1. irq' \in {FALSE}
      BY <2>1, <2>2 DEF ReadByte
    <3> QED BY <2>2, <3>1 DEF ReadByte, ring_vars
  <2>3. CASE KeyDuringSleep
    BY <2>1, <2>3 DEF KeyDuringSleep, KeyWaiting, controller_vars, ring_vars
  <2>4. CASE \/ ByteWaiting \/ ShowWhileNoByte \/ SetShift \/ LoadShift \/ LoadIndex
             \/ StoreElement \/ LoadNext \/ AdvanceWrite
    <3>1. UNCHANGED <<irq, irqs_work, raced, scancode_read>>
      BY <2>4 DEF ByteWaiting, ShowWhileNoByte, SetShift, LoadShift, LoadIndex,
                  StoreElement, LoadNext, AdvanceWrite, controller_vars, ring_vars
    <3> QED BY <2>1, <3>1
  <2> QED BY <2>2, <2>3, <2>4 DEF PollingLoop
<1>2. PollingTypeOK /\ OneKey
  BY DEF PollingIInv, Alone
<1>3. CASE AdvanceWrite
  <2>1. /\ pc = "advance" /\ pc' = "scan" /\ scancode_write' = Advance(index)
        /\ overrun' = (overrun \/ Advance(index) = scancode_read)
    BY <1>3 DEF AdvanceWrite, Goto
  <2>2. index = scancode_read /\ index \in Slots /\ ~overrun /\ ~raced
    BY <1>2, <2>1 DEF OneKey, Alone, PollingReading, Storing, PollingTypeOK
  <2>3. scancode_write' = Advance(scancode_read) /\ ~overrun'
    BY <1>2, <2>1, <2>2, AdvanceMoves DEF PollingTypeOK
  <2>4. OneKey'
    BY <1>1, <2>1, <2>3 DEF OneKey, Storing, Exam
  <2> QED BY <1>1, <2>2, <2>3, <2>4 DEF Alone
<1>4. CASE KeyDuringSleep
  BY <1>2, <1>4 DEF KeyDuringSleep, KeyWaiting, Empty, OneKey
<1>5. CASE \/ ByteWaiting \/ ShowWhileNoByte \/ ReadByte \/ SetShift \/ LoadShift
           \/ LoadIndex \/ StoreElement \/ LoadNext
  <2>1. /\ pc \in {"wait"} \cup Storing
        /\ pc' \in {"wait", "shown"} \cup Storing
        /\ scancode_write' = scancode_write /\ overrun' = overrun
        /\ pc' = "advance" => index' = scancode_write
    BY <1>5 DEF ByteWaiting, ShowWhileNoByte, ReadByte, SetShift, LoadShift, LoadIndex,
                StoreElement, LoadNext, Goto, Storing, ring_vars
  <2>2. ~overrun /\ ~raced /\ scancode_write = scancode_read
    BY <1>2, <2>1 DEF Alone, OneKey, PollingReading, Reading
  <2>3. OneKey'
    BY <1>1, <2>1, <2>2 DEF OneKey, Storing
  <2> QED BY <1>1, <2>1, <2>2, <2>3 DEF Alone
<1> QED BY <1>3, <1>4, <1>5 DEF PollingLoop

LEMMA ScanAlone ==
  ASSUME PollingIInv, Alone, ~irqs_work, UNCHANGED <<controller_vars, local_vars, raced>>,
         \/ StartScan \/ TestScan \/ TakeSlot \/ TestNewLine \/ TestBackSpace
         \/ TestZero \/ TestBit \/ StoreCharacter
  PROVE  Alone'
<1>1. ~irq' /\ irqs_work' = irqs_work /\ raced' = raced
  BY DEF Alone, controller_vars
<1>2. /\ pc \in {"scan", "for", "take"} \cup Exam
      /\ overrun' = overrun /\ scancode_write' = scancode_write
      /\ pc' \in {"for", "take", "wait", "return"} \cup Exam
  BY DEF StartScan, TestScan, TakeSlot, TestNewLine, TestBackSpace, TestZero, TestBit,
         StoreCharacter, Goto, LeaveScan, NextTurn, Exam, ring_vars
<1>3. IInv /\ OneKey /\ ~overrun /\ ~raced
  BY <1>2 DEF PollingIInv, Apart, Alone, PollingReading, Reading, Exam, Storing
<1>4. OneKey'
  <2>1. CASE StartScan
    BY <1>3, <2>1 DEF StartScan, Goto, OneKey, ring_vars, Storing, Exam
  <2>2. CASE TestScan
    BY <1>3, <2>2 DEF TestScan, LeaveScan, OneKey, IInv, InStep, ring_vars, Storing, Exam
  <2>3. CASE TakeSlot
    BY <1>3, <2>3 DEF TakeSlot, Goto, OneKey, Storing, Exam
  <2>4. CASE TestNewLine \/ TestBackSpace \/ TestZero \/ TestBit \/ StoreCharacter
    <3>1. pc \in Exam /\ scancode_read' = scancode_read
          /\ pc' \in {"for", "return"} \cup Exam
      BY <2>4 DEF TestNewLine, TestBackSpace, TestZero, TestBit, StoreCharacter, Goto,
                  LeaveScan, NextTurn, Exam, ring_vars
    <3> QED BY <1>2, <1>3, <3>1 DEF OneKey, Exam
  <2> QED BY <2>1, <2>2, <2>3, <2>4
<1> QED BY <1>1, <1>2, <1>3, <1>4 DEF Alone

LEMMA AwayAlone ==
  ASSUME PollingIInv, Alone, ~irqs_work, UNCHANGED <<controller_vars, local_vars>>,
         \/ PollingReset
         \/ /\ raced' = raced
            /\ \/ PrintPrompt \/ ResetBuffer \/ ResetRead \/ HideAfterSleep \/ EndOfSleep
               \/ Return \/ handle_command \/ text_sandbox
  PROVE  Alone'
<1>1. ~irq' /\ irqs_work' = irqs_work
  BY DEF Alone, controller_vars
<1>2. CASE PollingReset
  BY <1>1, <1>2 DEF PollingReset, ResetWrite, Goto, Alone, OneKey, Storing, Exam
<1>3. CASE HideAfterSleep \/ EndOfSleep
  <2>1. pc \in {"shown", "hidden"} /\ pc' \in {"hidden", "wait"} /\ raced' = raced
        /\ UNCHANGED <<scancode_read, scancode_write, overrun>>
    BY <1>3 DEF PollingReset, ResetWrite, HideAfterSleep, EndOfSleep, Goto, ring_vars
  <2> QED BY <1>1, <2>1 DEF Alone, OneKey, PollingReading, Reading, Storing, Exam
<1>4. CASE \/ PrintPrompt \/ ResetBuffer \/ ResetRead \/ Return \/ handle_command
           \/ text_sandbox
  <2>1. pc' \in Sandbox \cup {"memset", "reset_read", "reset_write", "handle", "prompt"}
    BY <1>4 DEF PrintPrompt, ResetBuffer, ResetRead, Return, handle_command, text_sandbox,
                Spin, StartSandboxScan, TestSandboxScan, PrintCharacter, GiveBackSlot, Goto,
                LeaveScan, Sandbox
  <2>2. pc' = "reset_write" => scancode_read' = 0
    BY <1>4 DEF PrintPrompt, ResetBuffer, ResetRead, Return, handle_command, text_sandbox,
                Spin, StartSandboxScan, TestSandboxScan, PrintCharacter, GiveBackSlot, Goto,
                LeaveScan
  <2> QED BY <1>1, <2>1, <2>2 DEF Alone, OneKey, PollingReading, Reading, Storing, Exam,
                                  Sandbox
<1> QED BY <1>2, <1>3, <1>4

LEMMA NextAlone == ASSUME PollingIInv, Alone, [PollingNext]_poll_vars PROVE Alone'
<1>1. irqs_work' = irqs_work
  BY DEF PollingNext, ByteArrives, polling_keyboard_handler, PollingThread, PollingLoop,
         PollingReset, Unpolled, ByteWaiting, ShowWhileNoByte, KeyDuringSleep, ReadByte,
         SetShift, LoadShift, LoadIndex, StoreElement, LoadNext, AdvanceWrite, poll_vars,
         controller_vars
<1>2. CASE irqs_work
  BY <1>1, <1>2 DEF Alone
<1>3. CASE ~irqs_work
  <2>1. CASE ByteArrives \/ UNCHANGED poll_vars
    <3>1. irq' \in {irq, irqs_work}
          /\ UNCHANGED <<pc, scancode_read, scancode_write, overrun, raced, irqs_work, index>>
      BY <2>1 DEF ByteArrives, poll_vars, vars, ring_vars, local_vars, controller_vars
    <3> QED BY <3>1, StutterAlone
  <2>2. CASE polling_keyboard_handler
    BY <1>3, <2>2 DEF polling_keyboard_handler, Alone
  <2>3. CASE PollingLoop
    BY <1>3, <2>3, LoopAlone
  <2>4. CASE PollingReset
    BY <1>3, <2>4, AwayAlone DEF PollingReset
  <2>5. CASE Unpolled
    BY <1>3, <2>5, AwayAlone, ScanAlone DEF Unpolled
  <2> QED BY <2>1, <2>2, <2>3, <2>4, <2>5 DEF PollingNext, PollingThread
<1> QED BY <1>2, <1>3

LEMMA OneWaiting ==
  ASSUME NEW r \in Slots, NEW w \in {r, Advance(r)} PROVE (w - r) % CAP <= 1
<1>1. CAP \in Nat /\ CAP >= 2 /\ r \in 0 .. CAP - 1
  BY CapAssumption DEF Slots
<1>2. w - r \in {0, 1, 1 - CAP}
  BY <1>1, AdvanceWraps DEF Slots
<1>3. 0 % CAP = 0 /\ 1 % CAP = 1 /\ (1 - CAP) % CAP = 1
  BY <1>1
<1> QED BY <1>2, <1>3

\* Where no IRQ 1 is delivered, polling alone never overflows the ring or holds
\* more than the one key just stored, for a ring of any size.
THEOREM PollingAloneIsSafe == PollingSpec => []PollingAlone
<1>1. PollingInit => Alone
  BY DEF PollingInit, Init, Alone, OneKey, PollingReading, Reading, Storing, Exam
<1>2. PollingIInv /\ Alone => PollingAlone
  <2> SUFFICES ASSUME PollingIInv, Alone, ~irqs_work, pc \in PollingReading
               PROVE  ~overrun /\ ~raced /\ Waiting <= 1
    BY DEF PollingAlone
  <2>1. ~overrun /\ ~raced /\ OneKey /\ scancode_read \in Slots
    BY DEF Alone, PollingIInv, PollingTypeOK
  <2>2. scancode_write \in {scancode_read, Advance(scancode_read)}
    BY <2>1 DEF OneKey, PollingReading, Reading
  <2> QED BY <2>1, <2>2, OneWaiting DEF Waiting
<1> QED BY PollingInvariant, <1>1, <1>2, NextAlone, PTL DEF PollingSpec

-----------------------------------------------------------------------------
(* The refinement of LineReader, which also says that polling pairs each   *)
(* key with the right shift and that a key between lines stays.            *)

\* What the refinement needs besides: while the two readers of the port have not met,
\* the byte that has been polled for is there, and the thread stores at the end of
\* the ring.
StoresAtEnd ==
  pc \in Storing /\ ~Spoiled =>
    /\ pc = "inb" => full
    /\ pc \in {"store", "next?", "advance"} => index = scancode_write
    /\ pc \in {"next?", "advance"} =>
         scancode_buffer[index] = [key |-> scancode, shift |-> bit]

LEMMA PollingReadyNext ==
  ASSUME PollingIInv, Ready, [PollingNext]_poll_vars PROVE Ready'
<1>1. CASE UNCHANGED vars
  BY <1>1 DEF vars, ring_vars, Ready
<1>2. CASE polling_keyboard_handler
  <2>1. CASE pc \in Storing
    BY <1>2, <2>1 DEF polling_keyboard_handler, Ready, Storing
  <2>2. CASE pc \notin Storing
    <3>1. IInv
      BY <2>2 DEF PollingIInv, Apart
    <3>2. data \in Scancode /\ process(data) /\ UNCHANGED <<pc, i, len, command>>
      BY <1>2 DEF polling_keyboard_handler, PollingIInv, BytesKnown
    <3>3. (data = "shift_down") \in BOOLEAN
      OBVIOUS
    <3>4. interrupt_keyboard_handler
      BY <3>2, <3>3, ScancodeTypes DEF process, interrupt_keyboard_handler, process_scancode
    <3> QED BY <3>1, <3>4, ReadyNext DEF Next
  <2> QED BY <2>1, <2>2
<1>3. CASE PollingLoop
  BY <1>3 DEF PollingLoop, ByteWaiting, ShowWhileNoByte, KeyDuringSleep, KeyWaiting, ReadByte,
              SetShift, LoadShift, LoadIndex, StoreElement, LoadNext, AdvanceWrite, Goto, Ready
<1>4. CASE PollingReset \/ Unpolled
  <2>1. KernelThread
    BY <1>4 DEF PollingReset, Unpolled, KernelThread, kgetline
  <2>2. pc \notin Storing
    BY <1>4 DEF Unpolled, PollingReset, PrintPrompt, ResetBuffer, ResetRead, ResetWrite,
         HideAfterSleep, EndOfSleep, StartScan, TestScan, TakeSlot, TestNewLine,
         TestBackSpace, TestZero, TestBit, StoreCharacter, Return, handle_command,
         text_sandbox, Spin, StartSandboxScan, TestSandboxScan, PrintCharacter, GiveBackSlot,
         Goto, Storing
  <2>3. IInv
    BY <2>2 DEF PollingIInv, Apart
  <2> QED BY <2>1, <2>3, ReadyNext DEF Next
<1> QED BY <1>1, <1>2, <1>3, <1>4 DEF PollingNext, PollingThread, ByteArrives, poll_vars

LEMMA StoresAtEndNext ==
  ASSUME PollingIInv, StoresAtEnd, [PollingNext]_poll_vars PROVE StoresAtEnd'
<1> USE DEF Storing, Spoiled
<1>1. CASE UNCHANGED poll_vars
  BY <1>1 DEF poll_vars, vars, ring_vars, controller_vars, local_vars, StoresAtEnd
<1>2. CASE ByteArrives
  BY <1>2 DEF ByteArrives, vars, ring_vars, local_vars, StoresAtEnd
<1>3. CASE polling_keyboard_handler
  BY <1>3 DEF polling_keyboard_handler, StoresAtEnd
<1>4. CASE ByteWaiting \/ ShowWhileNoByte \/ KeyDuringSleep \/ ReadByte \/ SetShift \/ LoadShift
             \/ AdvanceWrite
  BY <1>4 DEF ByteWaiting, ShowWhileNoByte, KeyDuringSleep, KeyWaiting, ReadByte, SetShift,
              LoadShift, AdvanceWrite, Goto, controller_vars, StoresAtEnd
<1>5. CASE LoadIndex \/ LoadNext
  BY <1>5 DEF LoadIndex, LoadNext, Goto, ring_vars, StoresAtEnd
<1>6. CASE StoreElement
  <2>1. index \in Slots /\ scancode_buffer \in [Slots -> Entries]
    BY DEF PollingIInv, PollingTypeOK
  <2> QED BY <1>6, <2>1 DEF StoreElement, Goto, local_vars, StoresAtEnd
<1>7. CASE PollingReset \/ Unpolled
  <2>1. pc' \notin Storing
    BY <1>7 DEF Unpolled, PollingReset, PrintPrompt, ResetBuffer, ResetRead, ResetWrite,
         HideAfterSleep, EndOfSleep, StartScan, TestScan, TakeSlot, TestNewLine,
         TestBackSpace, TestZero, TestBit, StoreCharacter, Return, handle_command,
         text_sandbox, Spin, StartSandboxScan, TestSandboxScan, PrintCharacter, GiveBackSlot,
         Goto, LeaveScan, NextTurn
  <2> QED BY <2>1 DEF StoresAtEnd
<1> QED BY <1>1, <1>2, <1>3, <1>4, <1>5, <1>6, <1>7 DEF PollingNext, PollingThread, PollingLoop

-----------------------------------------------------------------------------
(* The keys on their way. *)

PendingFacts ==
  /\ RingOK /\ QueueFacts /\ Waiting \in 0 .. CAP - 1
  /\ InController \in Seq(Entries) /\ Len(InController) <= 1
  /\ ~full \/ data \in ShiftCodes => InController = <<>>
  /\ InProcess \in Seq(Entries) /\ Len(InProcess) <= 1
  /\ pc \in Exam => InProcess = <<>>
  /\ Queue \o InProcess \in Seq(Entries) /\ Len(Queue \o InProcess) <= CAP
  /\ Pending = (Queue \o InProcess) \o InController /\ Pending \in Seq(Entries)
  /\ InProcess = <<>> => Queue \o InProcess = Queue

LEMMA PendingIs == PollingIInv => PendingFacts
<1> SUFFICES ASSUME PollingIInv PROVE PendingFacts
  OBVIOUS
<1>1. PollingTypeOK /\ BytesKnown /\ RingOK
  BY DEF PollingIInv, PollingTypeOK, RingOK
<1>2. QueueFacts /\ Waiting \in 0 .. CAP - 1 /\ CAP \in Nat
  BY <1>1, QueueIs, WaitingIs, CapAssumption DEF WaitingFacts
<1>3. /\ InController \in Seq(Entries) /\ Len(InController) <= 1
      /\ ~full \/ data \in ShiftCodes => InController = <<>>
  <2>1. ShiftNow \in BOOLEAN
    BY <1>1 DEF ShiftNow, PollingTypeOK
  <2>2. CASE full /\ data \notin ShiftCodes
    <3>1. data \in Keys
      BY <1>1, <2>2, ScancodeTypes DEF BytesKnown
    <3>2. [key |-> data, shift |-> ShiftNow] \in Entries
      BY <2>1, <3>1 DEF Entries
    <3> QED BY <2>2, <3>2 DEF InController
  <2>3. CASE ~(full /\ data \notin ShiftCodes)
    BY <2>3 DEF InController
  <2> QED BY <2>2, <2>3
<1>4. /\ InProcess \in Seq(Entries) /\ Len(InProcess) <= 1
      /\ pc \in Exam => InProcess = <<>>
  <2>1. CASE pc = "shift?"
    <3>1. [key |-> scancode, shift |-> shift] \in Entries
      BY <1>1, <2>1 DEF BytesKnown, PollingTypeOK, Entries
    <3> QED BY <2>1, <3>1 DEF InProcess, Exam
  <2>2. CASE pc \in {"index?", "store", "next?", "advance"}
    <3>1. [key |-> scancode, shift |-> bit] \in Entries
      BY <1>1, <2>2 DEF BytesKnown, PollingTypeOK, Entries
    <3> QED BY <2>2, <3>1 DEF InProcess, Exam
  <2>3. CASE pc \notin {"shift?", "index?", "store", "next?", "advance"}
    BY <2>3 DEF InProcess
  <2> QED BY <2>1, <2>2, <2>3
<1>5. Queue \o InProcess \in Seq(Entries) /\ Len(Queue \o InProcess) = Len(Queue) + Len(InProcess)
  BY <1>2, <1>4, ConcatProperties DEF QueueFacts
<1>6. Len(Queue \o InProcess) <= CAP
  BY <1>2, <1>4, <1>5 DEF QueueFacts
<1>7. Pending = (Queue \o InProcess) \o InController /\ Pending \in Seq(Entries)
  BY <1>3, <1>5, ConcatProperties DEF Pending
<1>8. InProcess = <<>> => Queue \o InProcess = Queue
  BY <1>2, ConcatEmptySeq DEF QueueFacts
<1> QED BY <1>1, <1>2, <1>3, <1>4, <1>5, <1>6, <1>7, <1>8 DEF PendingFacts

LEMMA PendingNext == PollingIInv' => PendingFacts'
  BY PendingIs, PTL

-----------------------------------------------------------------------------
(* What LineReader sees of a step. *)

LEMMA PollingTables ==
  /\ PLR!kbdus = kbdus /\ PLR!Entries = Entries
  /\ PLR!NewLine = NewLine /\ PLR!BackSpace = BackSpace /\ PLR!Nul = Nul
  /\ \A e : PLR!Character(e) = Character(e)
  BY DEF PLR!kbdus, kbdus, PLR!Unshifted, Unshifted, PLR!Keys, Keys, PLR!Entries, Entries,
         PLR!NewLine, NewLine, PLR!BackSpace, BackSpace, PLR!Nul, Nul, PLR!Character, Character,
         PLR!shift_kbdus, shift_kbdus

PollingSimulated == PLR!Next \/ UNCHANGED PLR!lr_vars

LEMMA PollingStutters ==
  ASSUME PollingStatus' = PollingStatus,
         PollingStatus = "reading" => Pending' = Pending,
         PollingStatus # "reading" => InController' = InController,
         PollingStatus \in {"reading", "returned"} => Line' = Line
  PROVE  PollingSimulated
  BY DEF PLR!lr_vars, Line, PollingSimulated

LEMMA PollingStarts ==
  ASSUME PollingStatus = "away", PollingStatus' = "reading",
         Pending' = InController, Line' = <<>>
  PROVE  PollingSimulated
  BY DEF PLR!Start, PLR!Next, PollingSimulated, Line

LEMMA PollingLeaves ==
  ASSUME PollingStatus \in {"returned", "spoiled"}, PollingStatus' = "away",
         InController' = InController
  PROVE  PollingSimulated
  BY DEF PLR!Leave, PLR!Next, PollingSimulated

LEMMA PollingPresses ==
  ASSUME PollingStatus' = PollingStatus, Line' = Line, NEW e \in Entries,
         PollingStatus = "reading" => Len(Pending) <= CAP /\ Pending' = Append(Pending, e),
         PollingStatus # "reading" =>
           Len(InController) < 1 /\ InController' = Append(InController, e)
  PROVE  PollingSimulated
<1>1. PLR!KeyPressed
  BY PollingTables DEF PLR!KeyPressed, Line
<1> QED BY <1>1 DEF PLR!Next, PollingSimulated

\* Between lines a key may leave the controller: it is dropped.
LEMMA PollingDrops ==
  ASSUME PollingStatus # "reading", PollingStatus' = PollingStatus, InController' = <<>>,
         Line' = Line
  PROVE  PollingSimulated
<1>1. CASE InController = <<>>
  BY <1>1, PollingStutters
<1>2. CASE InController # <<>>
  BY <1>2 DEF PLR!DropKeys, PLR!Next, PollingSimulated, Line
<1> QED BY <1>1, <1>2

\* A reader that stops keeps what is in the controller.
LEMMA PollingKeeps ==
  ASSUME PollingIInv', PollingStatus = "reading", PollingStatus' # "reading",
         NEW q \in Seq(Entries), Pending = q \o InController'
  PROVE  PLR!KeepHeld
<1> DEFINE c == InController'
           n == Len(c)
<1>1. c \in Seq(Entries) /\ n \in 0 .. 1
  <2>1. c \in Seq(Entries) /\ Len(c) <= 1
    BY PendingNext DEF PendingFacts
  <2>2. \A s \in Seq(Entries) : Len(s) <= 1 => Len(s) \in 0 .. 1
    <3> TAKE s \in Seq(Entries)
    <3>1. Len(s) \in Nat
      BY LenProperties
    <3>2. \A m \in Nat : m <= 1 => m \in 0 .. 1
      OBVIOUS
    <3> QED BY <3>1, <3>2
  <2> QED BY <2>1, <2>2, Zenon
<1>2. Len(q) \in Nat /\ Len(q \o c) = Len(q) + n /\ q \o c \in Seq(Entries)
      /\ \A j \in 1 .. Len(q) + n : (q \o c)[j] = IF j <= Len(q) THEN q[j] ELSE c[j - Len(q)]
  BY <1>1, ConcatProperties, LenProperties
<1>3. SubSeq(q \o c, Len(q) + 1, Len(q) + n) = c
  <2> DEFINE s == SubSeq(q \o c, Len(q) + 1, Len(q) + n)
  <2>1. \A j \in Len(q) + 1 .. Len(q) + n : (q \o c)[j] \in Entries
    BY <1>1, <1>2, ElementOfSeq
  <2>2. /\ s \in Seq(Entries)
        /\ Len(s) = IF Len(q) + 1 <= Len(q) + n THEN Len(q) + n - (Len(q) + 1) + 1 ELSE 0
        /\ \A j \in 1 .. Len(q) + n - (Len(q) + 1) + 1 : s[j] = (q \o c)[Len(q) + 1 + j - 1]
    <3> HIDE DEF c, n
    <3> QED BY <1>1, <1>2, <2>1, SubSeqProperties
  <2>3. Len(s) = n
    BY <1>1, <1>2, <2>2
  <2>4. \A j \in 1 .. n : s[j] = c[j]
    BY <1>1, <1>2, <2>2
  <2> HIDE DEF s, c
  <2>5. s = c
    BY <1>1, <2>2, <2>3, <2>4, SeqEqual
  <2> QED BY <2>5 DEF s
<1>4. /\ n \in 0 .. 1 /\ n <= Len(Pending)
      /\ c = SubSeq(Pending, Len(Pending) - n + 1, Len(Pending))
  BY <1>1, <1>2, <1>3
<1> QED BY <1>4 DEF PLR!KeepHeld

LEMMA PollingSpoils ==
  ASSUME PollingIInv, PollingIInv', PollingStatus = "reading", PollingStatus' = "spoiled",
         NEW q \in Seq(Entries), Pending = q \o InController'
  PROVE  PollingSimulated
<1>1. Len(Pending) >= 0
  BY PendingIs, LenProperties DEF PendingFacts
<1> QED BY <1>1, PollingKeeps DEF PLR!Spoil, PLR!Next, PollingSimulated

LEMMA PollingTakesEnter ==
  ASSUME PollingIInv', PollingStatus = "reading", PollingStatus' = "returned", Line' = Line,
         Pending # <<>>, kbdus[Head(Pending).key] = NewLine,
         NEW q \in Seq(Entries), Pending = q \o InController'
  PROVE  PollingSimulated
<1>1. PLR!TakeEnter
  BY PollingKeeps, PollingTables DEF PLR!TakeEnter, Line
<1> QED BY <1>1 DEF PLR!Next, PollingSimulated

LEMMA PollingTakes ==
  ASSUME PollingStatus = "reading", PollingStatus' = "reading", Pending # <<>>,
         kbdus[Head(Pending).key] # NewLine, Line' = LineAfter(Head(Pending)),
         Pending' = Tail(Pending)
  PROVE  PollingSimulated
<1>1. PLR!Taken(Head(Pending)) = LineAfter(Head(Pending))
  BY PollingTables DEF PLR!Taken, LineAfter, Line
<1>2. PLR!TakeKey
  BY <1>1, PollingTables DEF PLR!TakeKey, Line
<1> QED BY <1>2 DEF PLR!Next, PollingSimulated

-----------------------------------------------------------------------------
(* Every step of the polling build is one of LineReader, or none. *)

\* Steps that leave every key where it is.
LEMMA PollingQuiet ==
  ASSUME UNCHANGED <<ring_vars, i, len, command, Spoiled, InController>>,
         InProcess' = InProcess,
         pc \notin Exam, pc' \notin Exam,
         \/ {pc, pc'} \subseteq PollingReading
         \/ {pc, pc'} \cap (PollingReading \cup {"return", "handle"}) = {}
  PROVE  PollingSimulated
<1>1. Queue' = Queue /\ Line' = Line
  BY DEF Queue, Waiting, Line, ring_vars
<1>2. Pending' = Pending
  BY <1>1 DEF Pending
<1>3. PollingStatus' = PollingStatus
  BY DEF PollingStatus, PollingReading, Reading, Exam, Storing
<1> QED BY <1>1, <1>2, <1>3, PollingStutters

LEMMA ByteArrivesSimulated ==
  ASSUME PollingIInv, PollingIInv', ByteArrives PROVE PollingSimulated
<1>1. /\ UNCHANGED <<scancode_buffer, scancode_read, scancode_write, shift, pc, i, len, command,
                     overrun, raced, scancode, bit>>
      /\ ~full /\ full' = TRUE
  BY DEF ByteArrives, vars, ring_vars, local_vars
<1>2. /\ PollingStatus' = PollingStatus /\ Line' = Line /\ Queue' = Queue
      /\ InProcess' = InProcess /\ ShiftNow' = ShiftNow
  BY <1>1 DEF PollingStatus, Spoiled, Line, Queue, Waiting, InProcess, ShiftNow
<1>3. PendingFacts /\ PendingFacts' /\ InController = <<>>
  BY <1>1, PendingIs, PendingNext DEF PendingFacts
<1>4. CASE data' \in ShiftCodes
  <2>1. InController' = InController
    BY <1>3, <1>4 DEF PendingFacts
  <2>2. Pending' = Pending
    BY <1>2, <2>1 DEF Pending
  <2> QED BY <1>2, <2>1, <2>2, PollingStutters
<1>5. CASE data' \notin ShiftCodes
  <2> DEFINE e == [key |-> data', shift |-> ShiftNow]
  <2>1. InController' = <<e>>
    BY <1>1, <1>2, <1>5 DEF InController
  <2>2. e \in Entries
    BY <1>3, <2>1 DEF PendingFacts
  <2> HIDE DEF e
  <2>3. Pending = Queue \o InProcess /\ Pending' = (Queue \o InProcess) \o <<e>>
    BY <1>2, <1>3, <2>1, ConcatEmptySeq DEF PendingFacts
  <2>4. Pending' = Append(Pending, e) /\ Len(Pending) <= CAP
    BY <1>3, <2>2, <2>3, AppendIsConcat DEF PendingFacts
  <2>5. InController' = Append(InController, e) /\ Len(InController) < 1
    BY <1>3, <2>1
  <2> QED BY <1>2, <2>2, <2>4, <2>5, PollingPresses
<1> QED BY <1>4, <1>5

LEMMA HandlerSimulated ==
  ASSUME PollingIInv, PollingIInv', polling_keyboard_handler PROVE PollingSimulated
<1>1. /\ process(data) /\ ~full' /\ UNCHANGED <<pc, i, len, command, data, scancode, bit>>
      /\ raced' = (raced \/ pc \in Storing \/ (pc \in Reading /\ ~full))
  BY DEF polling_keyboard_handler, local_vars
<1>2. PendingFacts /\ PendingFacts' /\ InController' = <<>> /\ Line' = Line
  BY <1>1, PendingIs, PendingNext DEF PendingFacts, Line
<1>3. \/ overrun' = overrun
      \/ overrun' = (overrun \/ (pc \in Reading /\ Advance(scancode_write) = scancode_read))
  BY <1>1 DEF process, set_shift, store_scancode
<1>4. PollingStatus \in {"away", "reading", "returned", "spoiled"}
  BY DEF PollingStatus
<1>5. Pending = (Queue \o InProcess \o InController) \o <<>>
  BY <1>2, ConcatEmptySeq DEF PendingFacts
<1>6. CASE PollingStatus # "reading"
  <2>1. PollingStatus' = PollingStatus
    BY <1>1, <1>3, <1>6 DEF PollingStatus, PollingReading, Spoiled, Reading, Exam, Storing
  <2> QED BY <1>2, <1>6, <2>1, PollingDrops
<1>7. ASSUME PollingStatus = "reading", Spoiled' PROVE PollingSimulated
  <2>1. PollingStatus' = "spoiled"
    BY <1>1, <1>7 DEF PollingStatus, PollingReading, Reading, Exam, Storing
  <2>2. Pending \in Seq(Entries) /\ Pending = Pending \o InController'
    BY <1>2, ConcatEmptySeq DEF PendingFacts
  <2> QED BY <1>7, <2>1, <2>2, PollingSpoils
<1>8. CASE PollingStatus = "reading" /\ ~Spoiled'
  <2>1. /\ pc \in PollingReading /\ pc \notin Storing /\ full /\ ~overrun /\ ~raced
        /\ PollingStatus' = "reading"
    BY <1>1, <1>3, <1>8 DEF PollingStatus, PollingReading, Spoiled, Reading, Exam, Storing
  <2>2. /\ InProcess = <<>> /\ InProcess' = <<>> /\ ShiftNow = shift
        /\ Pending = Queue \o InController /\ Pending' = Queue'
    <3>1. InProcess = <<>> /\ InProcess' = <<>> /\ ShiftNow = shift
      BY <1>1, <2>1 DEF InProcess, ShiftNow, Storing
    <3>2. Pending' = Queue' \o <<>> /\ Queue' \in Seq(Entries)
      BY <1>2, <3>1 DEF PendingFacts, QueueFacts
    <3> QED BY <1>2, <3>1, <3>2, ConcatEmptySeq DEF PendingFacts
  <2>3. CASE data \in ShiftCodes
    <3>1. UNCHANGED ring_vars /\ InController = <<>>
      BY <1>1, <1>2, <2>3 DEF process, set_shift, PendingFacts
    <3>2. Queue' = Queue
      BY <1>1, <3>1 DEF Queue, Waiting, ring_vars
    <3>3. Pending' = Pending
      BY <1>2, <2>2, <3>1, <3>2, ConcatEmptySeq DEF PendingFacts, QueueFacts
    <3> QED BY <1>2, <2>1, <3>3, <1>8, PollingStutters
  <2>4. CASE data \notin ShiftCodes
    <3> DEFINE e == [key |-> data, shift |-> shift]
    <3>1. /\ store_scancode(data) /\ InController = <<e>>
      BY <1>1, <2>1, <2>2, <2>4 DEF process, InController
    <3>2. e \in Entries
      BY <1>2, <3>1 DEF PendingFacts
    <3>3. /\ scancode_read' = scancode_read /\ scancode_write' = Advance(scancode_write)
          /\ scancode_buffer' = [scancode_buffer EXCEPT ![scancode_write] = e]
          /\ Advance(scancode_write) # scancode_read
      <4>1. pc \in Reading
        BY <2>1 DEF PollingReading
      <4> QED BY <1>8, <3>1, <4>1 DEF store_scancode, Spoiled
    <3> HIDE DEF e
    <3>4. \A s \in Slots : scancode_buffer'[s] = IF s = scancode_write THEN e
                                                                      ELSE scancode_buffer[s]
      BY <1>2, <3>3 DEF PendingFacts, RingOK
    <3>5. pc \in Exam => scancode_read = Advance(i)
      BY <2>1 DEF PollingIInv, Apart, IInv, InStep
    <3>6. Queue' = Append(Queue, e)
      BY <1>1, <1>2, <3>2, <3>3, <3>4, <3>5, StoreAppendsToQueue DEF PendingFacts
    <3>7. Pending' = Pending
      BY <1>2, <2>2, <3>1, <3>2, <3>6, AppendIsConcat DEF PendingFacts, QueueFacts
    <3> QED BY <1>2, <1>8, <2>1, <3>7, PollingStutters
  <2> QED BY <2>3, <2>4
<1> QED BY <1>6, <1>7, <1>8

LEMMA LoopStepSimulated ==
  ASSUME PollingIInv, PollingIInv', StoresAtEnd, PollingLoop PROVE PollingSimulated
<1> USE DEF Goto
<1>1. PendingFacts /\ PendingFacts'
  BY PendingIs, PendingNext
<1>2. CASE ByteWaiting \/ ShowWhileNoByte \/ KeyDuringSleep
  <2>1. /\ UNCHANGED <<ring_vars, i, len, command, overrun, raced, shift, full, data, scancode, bit>>
        /\ {pc, pc'} \subseteq {"wait", "shown", "hidden", "scan", "inb"}
    BY <1>2 DEF ByteWaiting, ShowWhileNoByte, KeyDuringSleep, KeyWaiting, reader_vars,
                controller_vars, local_vars
  <2>2. UNCHANGED <<Spoiled, InController>> /\ InProcess' = InProcess
    BY <2>1 DEF Spoiled, InController, InProcess, ShiftNow
  <2> QED BY <2>1, <2>2, PollingQuiet DEF PollingReading, Reading, Exam, Storing
<1>3. CASE LoadShift \/ LoadIndex \/ LoadNext
  <2>1. /\ UNCHANGED <<ring_vars, i, len, command, overrun, raced, shift, full, data, scancode>>
        /\ {pc, pc'} \subseteq {"shift?", "index?", "store", "next?", "advance"}
        /\ InProcess' = InProcess
    BY <1>3 DEF LoadShift, LoadIndex, LoadNext, reader_vars, controller_vars, InProcess
  <2>2. UNCHANGED <<Spoiled, InController>>
    BY <2>1 DEF Spoiled, InController, ShiftNow
  <2> QED BY <2>1, <2>2, PollingQuiet DEF PollingReading, Exam, Storing
<1>4. CASE SetShift
  <2>1. /\ UNCHANGED <<ring_vars, i, len, command, overrun, raced, full, data>>
        /\ pc = "set_shift" /\ pc' = "wait" /\ shift' = (scancode = "shift_down")
    BY <1>4 DEF SetShift, reader_vars, controller_vars
  <2>2. UNCHANGED <<Spoiled, InController>> /\ InProcess' = InProcess
    BY <2>1 DEF Spoiled, InController, ShiftNow, InProcess
  <2> QED BY <2>1, <2>2, PollingQuiet DEF PollingReading, Reading, Exam, Storing
<1>5. CASE ReadByte
  <2>1. /\ UNCHANGED <<ring_vars, i, len, command, overrun, raced, shift, data>>
        /\ pc = "inb" /\ pc' = IF data \in ShiftCodes THEN "set_shift" ELSE "shift?"
        /\ ~full' /\ scancode' = data
    BY <1>5 DEF ReadByte, reader_vars
  <2>2. /\ PollingStatus' = PollingStatus /\ Line' = Line /\ Queue' = Queue
        /\ InController' = <<>> /\ InProcess = <<>>
    <3>1. PollingStatus' = PollingStatus
      BY <2>1 DEF PollingStatus, Spoiled, PollingReading, Storing, Reading, Exam
    <3>2. Queue' = Queue
      BY <2>1 DEF Queue, Waiting, ring_vars, Exam
    <3> QED BY <1>1, <2>1, <3>1, <3>2 DEF Line, PendingFacts, InProcess
  <2>3. CASE PollingStatus # "reading"
    BY <2>2, <2>3, PollingDrops
  <2>4. CASE PollingStatus = "reading"
    <3>1. full
      BY <2>1, <2>4 DEF StoresAtEnd, PollingStatus, PollingReading, Storing, Reading, Exam
    <3>2. InProcess' = InController
      BY <2>1, <3>1 DEF InProcess, InController, ShiftNow
    <3>3. Pending = Queue \o InController /\ Pending' = (Queue \o InController) \o <<>>
      BY <1>1, <2>2, <3>2 DEF PendingFacts
    <3>4. Pending' = Pending
      BY <1>1, <3>3, ConcatEmptySeq DEF PendingFacts
    <3> QED BY <2>2, <2>4, <3>4, PollingStutters
  <2> QED BY <2>3, <2>4
<1>6. CASE StoreElement \/ AdvanceWrite
  <2>1. /\ pc \in {"store", "advance"} /\ pc' \in {"next?", "scan"}
        /\ UNCHANGED <<scancode_read, i, len, command, raced, shift, full, data>>
    BY <1>6 DEF StoreElement, AdvanceWrite, reader_vars, controller_vars
  <2>2. InController' = InController /\ Line' = Line
    BY <2>1 DEF InController, ShiftNow, Line
  <2>3. overrun => overrun'
    BY <1>6 DEF StoreElement, AdvanceWrite
  <2>4. CASE PollingStatus # "reading"
    <3>1. Spoiled
      BY <2>1, <2>4 DEF PollingStatus, PollingReading, Storing, Reading, Exam
    <3>2. Spoiled'
      BY <2>1, <2>3, <3>1 DEF Spoiled
    <3>3. PollingStatus' = PollingStatus /\ PollingStatus = "spoiled"
      BY <2>1, <3>1, <3>2 DEF PollingStatus, PollingReading, Storing, Reading, Exam
    <3> QED BY <2>2, <3>3, PollingStutters
  <2>5. CASE PollingStatus = "reading"
    <3> DEFINE e == [key |-> scancode, shift |-> bit]
    <3>1. ~Spoiled /\ index = scancode_write /\ InProcess = <<e>>
      BY <2>1, <2>5 DEF StoresAtEnd, PollingStatus, PollingReading, Storing, Reading, Exam, InProcess
    <3>2. e \in Entries /\ RingOK /\ RingOK' /\ QueueFacts /\ QueueFacts' /\ index \in Slots
      BY <1>1, <3>1 DEF PendingFacts, RingOK
    <3>3. CASE StoreElement
      <4>1. /\ scancode_buffer' = [scancode_buffer EXCEPT ![index] = e]
            /\ UNCHANGED <<scancode_write, overrun, scancode, bit>> /\ pc' = "next?" /\ pc = "store"
        BY <3>3 DEF StoreElement, local_vars
      <4>2. InProcess' = InProcess
        BY <4>1 DEF InProcess
      <4>3. PollingStatus' = PollingStatus
        BY <2>1, <4>1 DEF PollingStatus, Spoiled, PollingReading, Storing, Reading, Exam
      <4>4. Queue' = Queue
        <5>1. \A s \in Slots : s # scancode_write => scancode_buffer'[s] = scancode_buffer[s]
          BY <3>1, <3>2, <4>1 DEF RingOK
        <5>2. Rest' = Rest
          BY <2>1, <3>2, <4>1, <5>1, StoreUnseen
        <5> QED BY <2>1, <3>2, <5>2 DEF QueueFacts, Exam
      <4>5. Pending' = Pending
        BY <2>2, <4>2, <4>4 DEF Pending
      <4> QED BY <2>2, <2>5, <4>3, <4>5, PollingStutters
    <3>4. CASE AdvanceWrite
      <4>1. /\ scancode_write' = Advance(index) /\ pc = "advance" /\ pc' = "scan"
            /\ overrun' = (overrun \/ Advance(index) = scancode_read)
            /\ scancode_buffer' = scancode_buffer
        BY <3>4 DEF AdvanceWrite
      <4>2. scancode_buffer[scancode_write] = e
        BY <2>1, <3>1, <4>1 DEF StoresAtEnd, Storing
      <4>3. CASE Advance(index) = scancode_read
        <5>1. PollingStatus' = "spoiled"
          BY <4>1, <4>3 DEF PollingStatus, Spoiled, PollingReading, Storing, Reading, Exam
        <5>2. Queue \o InProcess \in Seq(Entries) /\ Pending = (Queue \o InProcess) \o InController'
          BY <1>1, <2>2 DEF PendingFacts
        <5> QED BY <2>5, <5>1, <5>2, PollingSpoils
      <4>4. CASE Advance(index) # scancode_read
        <5>1. PollingStatus' = PollingStatus
          BY <2>1, <2>5, <3>1, <4>1, <4>4
             DEF PollingStatus, Spoiled, PollingReading, Storing, Reading, Exam
        <5>2. \A s \in Slots : scancode_buffer'[s] = IF s = scancode_write THEN e
                                                                          ELSE scancode_buffer[s]
          BY <4>1, <4>2
        <5>3. pc \notin Exam /\ pc' \notin Exam /\ InProcess' = <<>>
          BY <4>1 DEF Exam, InProcess
        <5> HIDE DEF e
        <5>4. Queue' = Append(Queue, e)
          BY <2>1, <3>1, <3>2, <4>1, <4>4, <5>2, <5>3, StoreAppendsToQueue
        <5>5. Queue' = Queue \o InProcess
          BY <3>1, <3>2, <5>4, AppendIsConcat DEF QueueFacts
        <5>6. Pending' = Pending
          BY <1>1, <2>2, <5>3, <5>5 DEF PendingFacts
        <5> QED BY <2>2, <2>5, <5>1, <5>6, PollingStutters
      <4> QED BY <4>3, <4>4
    <3> QED BY <1>6, <3>3, <3>4
  <2> QED BY <2>4, <2>5
<1> QED BY <1>2, <1>3, <1>4, <1>5, <1>6 DEF PollingLoop

LEMMA HeadTailOfConcat ==
  ASSUME NEW q \in Seq(Entries), NEW c \in Seq(Entries), q # <<>>
  PROVE  q \o c # <<>> /\ Head(q \o c) = Head(q) /\ Tail(q \o c) = Tail(q) \o c
<1>1. /\ Len(q) \in Nat \ {0} /\ Len(c) \in Nat
      /\ q \o c \in Seq(Entries) /\ Len(q \o c) = Len(q) + Len(c)
      /\ \A j \in 1 .. Len(q) + Len(c) : (q \o c)[j] = IF j <= Len(q) THEN q[j] ELSE c[j - Len(q)]
  BY ConcatProperties, LenProperties, EmptySeq
<1>2. q \o c # <<>> /\ Head(q \o c) = (q \o c)[1] /\ Head(q) = q[1] /\ (q \o c)[1] = q[1]
  BY <1>1
<1>3. /\ Tail(q \o c) \in Seq(Entries) /\ Len(Tail(q \o c)) = Len(q) + Len(c) - 1
      /\ \A j \in 1 .. Len(q) + Len(c) - 1 : Tail(q \o c)[j] = (q \o c)[j + 1]
  BY <1>1, <1>2, HeadTailProperties
<1>4. /\ Tail(q) \in Seq(Entries) /\ Len(Tail(q)) = Len(q) - 1
      /\ \A j \in 1 .. Len(q) - 1 : Tail(q)[j] = q[j + 1]
  BY <1>1, HeadTailProperties
<1> DEFINE t == Tail(q) \o c
<1>5. /\ t \in Seq(Entries) /\ Len(t) = Len(q) - 1 + Len(c)
      /\ \A j \in 1 .. Len(q) - 1 + Len(c) :
           t[j] = IF j <= Len(q) - 1 THEN Tail(q)[j] ELSE c[j - (Len(q) - 1)]
  BY <1>4, ConcatProperties
<1>6. \A j \in 1 .. Len(q) + Len(c) - 1 : Tail(q \o c)[j] = t[j]
  BY <1>1, <1>3, <1>4, <1>5
<1> HIDE DEF t
<1>7. Tail(q \o c) = t
  BY <1>1, <1>3, <1>5, <1>6, SeqEqual
<1> QED BY <1>2, <1>7 DEF t

\* The rest of kgetline and of the shell: around the lines,
LEMMA AroundPollingSimulated ==
  ASSUME PollingIInv, PollingIInv', Ready,
         \/ PollingReset
         \/ Unpolled /\ (PrintPrompt \/ ResetBuffer \/ ResetRead \/ Return \/ handle_command
                           \/ text_sandbox)
  PROVE  PollingSimulated
<1> USE DEF Goto
<1>1. PendingFacts /\ PendingFacts'
  BY PendingIs, PendingNext
<1>2. UNCHANGED <<full, data, scancode, bit, shift>> /\ (Unpolled => raced' = raced)
  BY DEF PollingReset, Unpolled, controller_vars, local_vars, PrintPrompt, ResetBuffer, ResetRead,
         ResetWrite, Return, handle_command, text_sandbox, Spin, StartSandboxScan,
         TestSandboxScan, PrintCharacter, GiveBackSlot
<1>3. pc \notin Storing /\ pc' \notin Storing
  BY DEF PollingReset, PrintPrompt, ResetBuffer, ResetRead, ResetWrite, Return, handle_command,
         text_sandbox, Spin, StartSandboxScan, TestSandboxScan, PrintCharacter, GiveBackSlot,
         LeaveScan, Storing
<1>4. InController' = InController /\ InProcess = <<>> /\ InProcess' = <<>>
  BY <1>2, <1>3 DEF InController, ShiftNow, InProcess, Storing
<1>5. CASE PrintPrompt \/ ResetBuffer \/ ResetRead \/ text_sandbox
  <2>1. {pc, pc'} \cap (Reading \cup {"return", "handle"}) = {}
    BY <1>5 DEF PrintPrompt, ResetBuffer, ResetRead, text_sandbox, Spin, StartSandboxScan,
                TestSandboxScan, PrintCharacter, GiveBackSlot, LeaveScan, Reading, Exam
  <2>2. PollingStatus = "away" /\ PollingStatus' = "away"
    BY <1>3, <2>1 DEF PollingStatus, PollingReading
  <2> QED BY <1>4, <2>2, PollingStutters
<1>6. CASE PollingReset
  <2>1. /\ pc = "reset_write" /\ pc' = "wait" /\ ~overrun' /\ ~raced' /\ len' = len
        /\ scancode_read' = scancode_read /\ scancode_write' = 0
    BY <1>6 DEF PollingReset, ResetWrite
  <2>2. PollingStatus = "away" /\ PollingStatus' = "reading"
    BY <2>1 DEF PollingStatus, Spoiled, PollingReading, Reading, Exam, Storing
  <2>3. scancode_read = 0 /\ len = 0
    BY <2>1 DEF Ready, PollingIInv, Apart, IInv, AtReset, Storing
  <2>4. Waiting' = 0
    <3>1. 0 <= 0
      OBVIOUS
    <3> QED BY <1>1, <2>1, <2>3, <3>1, WaitingNext DEF WaitingFacts, PendingFacts
  <2>5. Queue' = <<>> /\ Line' = <<>>
    BY <1>1, <2>1, <2>3, <2>4 DEF PendingFacts, QueueFacts, Exam, Line
  <2>6. Pending' = <<>> \o InController
    BY <1>1, <1>4, <2>5 DEF PendingFacts
  <2>7. Pending' = InController
    BY <1>1, <2>6, ConcatEmptySeq DEF PendingFacts
  <2> QED BY <2>2, <2>5, <2>7, PollingStarts
<1>7. CASE handle_command
  <2>1. pc = "handle" /\ pc' \in {"spin", "prompt"}
    BY <1>7 DEF handle_command
  <2>2. PollingStatus \in {"returned", "spoiled"} /\ PollingStatus' = "away"
    BY <2>1 DEF PollingStatus, PollingReading, Reading, Exam, Storing
  <2> QED BY <1>4, <2>2, PollingLeaves
<1>8. CASE Unpolled /\ Return
  <2>1. pc = "return" /\ pc' = "handle" /\ overrun' = overrun /\ raced' = raced
    BY <1>2, <1>8 DEF Return
  <2>2. PollingStatus' = PollingStatus /\ PollingStatus # "reading"
    BY <2>1 DEF PollingStatus, Spoiled, PollingReading, Reading, Exam, Storing
  <2>3. Line' = Line
    BY <1>3, <1>8, ReturnKeepsLine DEF PollingIInv, Apart, IInv
  <2> QED BY <1>4, <2>2, <2>3, PollingStutters
<1> QED BY <1>5, <1>6, <1>7, <1>8

\* and while it reads.
LEMMA ScanPollingSimulated ==
  ASSUME PollingIInv, PollingIInv', Ready, Unpolled,
         HideAfterSleep \/ EndOfSleep \/ StartScan \/ TestScan \/ TakeSlot \/ TestNewLine
           \/ TestBackSpace \/ TestZero \/ TestBit \/ StoreCharacter
  PROVE  PollingSimulated
<1> USE DEF Goto
<1>1. PendingFacts /\ PendingFacts'
  BY PendingIs, PendingNext
<1>2. UNCHANGED <<full, data, scancode, bit, shift, raced, overrun>>
  BY DEF Unpolled, controller_vars, local_vars, HideAfterSleep, EndOfSleep, StartScan, TestScan,
         TakeSlot, TestNewLine, TestBackSpace, TestZero, TestBit, StoreCharacter
<1>3. pc \in Reading /\ pc' \in Reading \cup {"return"} /\ pc \notin Storing /\ pc' \notin Storing
  BY DEF HideAfterSleep, EndOfSleep, StartScan, TestScan, TakeSlot, TestNewLine, TestBackSpace,
         TestZero, TestBit, StoreCharacter, LeaveScan, NextTurn, Reading, Exam, Storing
<1>4. /\ InController' = InController /\ InProcess = <<>> /\ InProcess' = <<>>
      /\ Pending = Queue \o InController /\ Pending' = Queue' \o InController
      /\ IInv /\ IInv'
  BY <1>1, <1>2, <1>3
     DEF InController, ShiftNow, InProcess, Storing, PendingFacts, PollingIInv, Apart
<1>5. PollingStatus = IF Spoiled THEN "spoiled" ELSE "reading"
  BY <1>3 DEF PollingStatus, PollingReading, Reading, Exam, Storing
<1>6. PollingStatus' = IF Spoiled THEN "spoiled" ELSE IF pc' = "return" THEN "returned" ELSE "reading"
  BY <1>2, <1>3 DEF PollingStatus, Spoiled, PollingReading, Reading, Exam, Storing
<1>7. CASE Spoiled
  BY <1>4, <1>5, <1>6, <1>7, PollingStutters
<1>8. ASSUME ~Spoiled, pc' # "return", Queue' = Queue, Line' = Line PROVE PollingSimulated
  BY <1>4, <1>5, <1>6, <1>8, PollingStutters
<1>9. CASE ~Spoiled /\ (HideAfterSleep \/ EndOfSleep \/ StartScan \/ TestScan)
  <2>1. /\ UNCHANGED <<ring_vars, len, command>> /\ pc \notin Exam /\ pc' \notin Exam
        /\ pc' # "return"
    BY <1>9 DEF HideAfterSleep, EndOfSleep, StartScan, TestScan, LeaveScan, Exam
  <2>2. Queue' = Queue /\ Line' = Line
    BY <2>1 DEF Queue, Waiting, Line, ring_vars
  <2> QED BY <1>8, <1>9, <2>1, <2>2
<1>10. CASE ~Spoiled /\ TakeSlot
  <2>1. pc = "take" /\ pc' = "newline?" /\ Line' = Line
    BY <1>10 DEF TakeSlot, Line
  <2>2. scancode_read # scancode_write /\ i = scancode_read
    BY <1>4, <1>10, <2>1 DEF Ready, Spoiled, IInv, InStep
  <2>3. Queue' = Queue
    BY <1>1, <1>10, <2>2, TakeSlotKeepsQueue DEF PendingFacts
  <2> QED BY <1>8, <1>10, <2>1, <2>3
<1>11. CASE /\ ~Spoiled
            /\ TestNewLine \/ TestBackSpace \/ TestZero \/ TestBit \/ StoreCharacter
  <2>1. Queue \in Seq(Entries) /\ Queue # <<>> /\ (PassedOn \/ LineEnded \/ TurnEnded)
    BY <1>4, <1>11, TestsDecide DEF Spoiled
  <2>2. InController \in Seq(Entries)
    BY <1>1 DEF PendingFacts
  <2>3. /\ Pending # <<>> /\ Head(Pending) = Head(Queue)
        /\ Tail(Pending) = Tail(Queue) \o InController
    BY <1>4, <2>1, <2>2, HeadTailOfConcat
  <2>4. CASE PassedOn
    BY <1>8, <1>11, <2>4 DEF PassedOn, Exam
  <2>5. CASE LineEnded
    BY <1>4, <1>5, <1>6, <1>11, <2>1, <2>3, <2>5, PollingTakesEnter DEF LineEnded
  <2>6. CASE TurnEnded
    BY <1>4, <1>5, <1>6, <1>11, <2>3, <2>6, PollingTakes DEF TurnEnded
  <2> QED BY <2>1, <2>4, <2>5, <2>6
<1> QED BY <1>7, <1>9, <1>10, <1>11

LEMMA PollingStepSimulated ==
  PollingIInv /\ PollingIInv' /\ Ready /\ StoresAtEnd /\ [PollingNext]_poll_vars
    => [PLR!Next]_PLR!lr_vars
<1> SUFFICES ASSUME PollingIInv, PollingIInv', Ready, StoresAtEnd, [PollingNext]_poll_vars
             PROVE  PollingSimulated
  BY DEF PollingSimulated
<1>1. CASE UNCHANGED poll_vars
  <2>1. UNCHANGED <<PollingStatus, InController, Pending, Line>>
    BY <1>1 DEF poll_vars, vars, ring_vars, controller_vars, local_vars, PollingStatus, Spoiled,
                InController, ShiftNow, InProcess, Queue, Waiting, Pending, Line
  <2> QED BY <2>1, PollingStutters
<1>2. CASE PollingNext
  BY <1>2, ByteArrivesSimulated, HandlerSimulated, LoopStepSimulated, AroundPollingSimulated,
     ScanPollingSimulated
     DEF PollingNext, PollingThread, Unpolled
<1> QED BY <1>1, <1>2

LEMMA PollingInitSimulated == PollingInit => PLR!Init
  BY DEF PollingInit, Init, PLR!Init, PollingStatus, PollingReading, Reading, Exam, Storing,
         InController

\* The polling build implements LineReader too, whatever the interleaving, unless
\* the two readers of the port meet or the ring overflows: from the controller to
\* the line no key is lost, taken twice or out of order, or paired with the wrong
\* shift.
THEOREM PollingImplementsLineReader == PollingSpec => PollingReadsLines
<1>1. PollingInit => Ready /\ StoresAtEnd
  BY DEF PollingInit, Init, Ready, StoresAtEnd, Storing
<1>2. PollingIInv /\ Ready /\ StoresAtEnd /\ [PollingNext]_poll_vars => Ready' /\ StoresAtEnd'
  BY PollingReadyNext, StoresAtEndNext
<1>3. PollingSpec => [](Ready /\ StoresAtEnd)
  BY <1>1, <1>2, PollingInvariant, PTL DEF PollingSpec
<1> QED BY <1>3, PollingInvariant, PollingInitSimulated, PollingStepSimulated, PTL
        DEF PollingSpec, PollingReadsLines, PLR!Spec

=============================================================================
