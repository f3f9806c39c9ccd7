--------------------------- MODULE KeyboardProofs ---------------------------
(***************************************************************************)
(* Proofs about Keyboard, for a ring of any size, a buffer of any capacity *)
(* and any set of keys.                                                    *)
(*                                                                         *)
(* The heart of it is SlotStays: kgetline reads a slot it has already      *)
(* given back.  InStep says that slot is the one before scancode_read; so  *)
(* an interrupt that stores into it moves scancode_write onto              *)
(* scancode_read, which is an overflow.                                    *)
(*                                                                         *)
(* The last part proves that Keyboard implements LineReader.               *)
(***************************************************************************)
EXTENDS Keyboard, TLAPS, SequenceTheorems

\* What the invariants of Keyboard need besides each other.
AtReset == pc \in {"reset_read", "reset_write"} => len = 0

AtHandle ==
  ~overrun /\ pc = "handle" =>
    /\ command[len] = Nul
    /\ \A b \in 0 .. len - 1 : command[b] \in Printable

LineCharacters ==
  ~overrun /\ pc \in Reading \cup {"return"} =>
    \A b \in 0 .. len - 1 : command[b] \in Printable

IInv ==
  TypeOK /\ InStep /\ SlotStays /\ LengthBound /\ AtReset /\ AtHandle /\ LineCharacters

-----------------------------------------------------------------------------
(* Indices and tables. *)

LEMMA ModSmall ==
  ASSUME NEW a \in Nat, NEW b \in Nat, a < b PROVE a % b = a
  BY SMT

\* sizeof where an element count was meant does no harm.
LEMMA AdvanceWraps ==
  ASSUME NEW x \in Slots
  PROVE  /\ Advance(x) \in Slots
         /\ Advance(x) = IF x = CAP - 1 THEN 0 ELSE x + 1
         /\ Advance(x) = (x + 1) % CAP
<1>1. x + 1 \in Nat /\ x + 1 < 2 * CAP /\ 2 * CAP \in Nat
  BY CapAssumption DEF Slots
<1>2. Advance(x) = (x + 1) % CAP
  BY <1>1, ModSmall DEF Advance
<1>3. CASE x = CAP - 1
  <2>1. CAP % CAP = 0
    BY CapAssumption
  <2> QED BY <1>2, <1>3, <2>1, CapAssumption DEF Slots
<1>4. CASE x # CAP - 1
  <2>1. x + 1 < CAP /\ x + 1 \in Slots
    BY <1>4, CapAssumption DEF Slots
  <2> QED BY <1>1, <1>2, <1>4, <2>1, ModSmall, CapAssumption
<1> QED BY <1>3, <1>4

LEMMA AdvanceInjective ==
  ASSUME NEW x \in Slots, NEW y \in Slots, Advance(x) = Advance(y)
  PROVE  x = y
  BY AdvanceWraps, CapAssumption DEF Slots

LEMMA TableTypes ==
  ASSUME NEW k \in Keys
  PROVE  kbdus[k] \in Characters /\ shift_kbdus[k] \in Characters
<1>1. CASE k \in Letters
  BY <1>1 DEF kbdus, shift_kbdus, Characters, Printable
<1>2. CASE k \notin Letters
  <2>1. kbdus[k] = Unshifted(k) /\ shift_kbdus[k] = Unshifted(k)
    BY <1>2 DEF kbdus, shift_kbdus
  <2>2. k \in {"enter", "backspace", "dead"}
    BY <1>2 DEF Keys
  <2> QED BY <2>1, <2>2 DEF Unshifted, Characters
<1> QED BY <1>1, <1>2

\* The three tests of kgetline leave the keys with a printable character.
LEMMA TestsLeavePrintable ==
  ASSUME NEW k \in Keys, kbdus[k] \notin {NewLine, BackSpace, Nul}
  PROVE  kbdus[k] \in Printable /\ shift_kbdus[k] \in Printable
<1>1. k \in Letters
  <2> SUFFICES ASSUME k \notin Letters PROVE FALSE
    OBVIOUS
  <2>1. kbdus[k] = Unshifted(k)
    BY DEF kbdus
  <2>2. k \in {"enter", "backspace", "dead"}
    BY DEF Keys
  <2> QED BY <2>1, <2>2 DEF Unshifted
<1> QED BY <1>1 DEF kbdus, shift_kbdus, Keys, Printable

-----------------------------------------------------------------------------
LEMMA InitInvariant == Init => IInv
<1> SUFFICES ASSUME Init PROVE IInv
  OBVIOUS
<1> USE DEF Init
<1>1. 0 \in Slots /\ 0 \in Bytes /\ 0 <= capacity + 1
  BY CapAssumption, CapacityAssumption DEF Slots, Bytes
<1>2. ZeroEntry \in Entries
  BY DEF ZeroEntry, Entries, Keys
<1>3. TypeOK
  BY <1>1, <1>2 DEF TypeOK, PCs, Characters
<1> QED
  BY <1>1, <1>3 DEF IInv, InStep, SlotStays, LengthBound, AtReset, AtHandle,
                    LineCharacters, Exam, Reading

\* A step of the interrupt handler.
LEMMA InterruptInvariant == IInv /\ interrupt_keyboard_handler => IInv'
<1> SUFFICES ASSUME IInv, interrupt_keyboard_handler PROVE IInv'
  OBVIOUS
<1>0. UNCHANGED <<pc, i, len, command>>
  BY DEF interrupt_keyboard_handler
<1>1. ASSUME NEW b \in BOOLEAN, set_shift(b) PROVE IInv'
  BY <1>0, <1>1 DEF set_shift, ring_vars, IInv, TypeOK, InStep, SlotStays, Key,
                    LengthBound, AtReset, AtHandle, LineCharacters
<1>2. ASSUME NEW k \in Keys, store_scancode(k) PROVE IInv'
  <2>0. TypeOK
    BY DEF IInv
  <2>1. TypeOK'
    <3>1. [key |-> k, shift |-> shift] \in Entries
      BY <2>0 DEF TypeOK, Entries
    <3> QED BY <1>0, <1>2, <2>0, <3>1, AdvanceWraps DEF store_scancode, TypeOK
  <2>2. InStep'
    BY <1>0, <1>2 DEF store_scancode, IInv, InStep
  <2>3. SlotStays'
    <3>1. CASE overrun'
      BY <3>1 DEF SlotStays
    <3>2. CASE ~overrun' /\ pc \notin Exam
      BY <1>0, <3>2 DEF SlotStays, Exam
    <3>3. CASE ~overrun' /\ pc \in Exam
      <4>1. ~overrun /\ Advance(scancode_write) # scancode_read
        BY <1>2, <3>3 DEF store_scancode, Reading
      <4>2. scancode_write # i
        BY <3>3, <4>1 DEF IInv, InStep
      <4>3. scancode_buffer'[i] = scancode_buffer[i]
        BY <1>2, <2>0, <4>2 DEF store_scancode, TypeOK
      <4> QED BY <1>0, <4>1, <4>3 DEF IInv, SlotStays, Key
    <3> QED BY <3>1, <3>2, <3>3
  <2>4. (LengthBound /\ AtReset /\ AtHandle /\ LineCharacters)'
    BY <1>0, <1>2 DEF store_scancode, IInv, LengthBound, AtReset, AtHandle,
                      LineCharacters
  <2> QED BY <2>1, <2>2, <2>3, <2>4 DEF IInv
<1> QED
  BY <1>1, <1>2, PressedAssumption DEF interrupt_keyboard_handler, process_scancode

-----------------------------------------------------------------------------
(* The steps of the kernel's thread. *)

\* The steps that change nothing but the program counter and what the reset
\* gives its first value.
LEMMA QuietInvariant ==
  ASSUME IInv,
         PrintPrompt \/ ResetBuffer \/ ResetRead \/ ResetWrite \/ ShowWhileEmpty
           \/ HideAfterSleep \/ EndOfSleep \/ KeyWaiting \/ StartScan \/ Spin
           \/ StartSandboxScan \/ handle_command
  PROVE  IInv'
<1> USE DEF Goto, ring_vars, Exam, Reading
<1>0. TypeOK /\ 0 \in Slots /\ ZeroEntry \in Entries /\ 0 \in Bytes
  BY CapAssumption, CapacityAssumption DEF IInv, Slots, Bytes, ZeroEntry, Entries, Keys
<1>1. TypeOK'
  <2>1. CASE PrintPrompt
    <3>1. command' \in [Bytes -> Characters]
      BY <1>0, <2>1 DEF PrintPrompt, TypeOK, Characters
    <3> QED BY <1>0, <2>1, <3>1 DEF PrintPrompt, TypeOK, PCs
  <2>2. CASE ResetBuffer
    BY <1>0, <2>2 DEF ResetBuffer, TypeOK, PCs
  <2>3. CASE ResetRead \/ ResetWrite \/ ShowWhileEmpty \/ HideAfterSleep \/ EndOfSleep
    BY <1>0, <2>3 DEF ResetRead, ResetWrite, ShowWhileEmpty, HideAfterSleep,
                      EndOfSleep, TypeOK, PCs
  <2>4. CASE KeyWaiting \/ StartScan
    BY <1>0, <2>4 DEF KeyWaiting, StartScan, TypeOK, PCs
  <2>5. CASE Spin \/ StartSandboxScan \/ handle_command
    BY <1>0, <2>5 DEF Spin, StartSandboxScan, handle_command, TypeOK, PCs, Sandbox
  <2> QED BY <2>1, <2>2, <2>3, <2>4, <2>5
<1>2. InStep' /\ SlotStays'
  BY <1>0 DEF PrintPrompt, ResetBuffer, ResetRead, ResetWrite, ShowWhileEmpty,
              HideAfterSleep, EndOfSleep, KeyWaiting, StartScan, Spin,
              StartSandboxScan, handle_command, InStep, SlotStays
<1>3. LengthBound'
  <2>1. len' = len \/ len' = 0
    BY DEF PrintPrompt, ResetBuffer, ResetRead, ResetWrite, ShowWhileEmpty,
           HideAfterSleep, EndOfSleep, KeyWaiting, StartScan, Spin,
           StartSandboxScan, handle_command
  <2>2. 0 <= capacity + 1
    BY CapacityAssumption
  <2>3. pc' \notin {"bit?", "shift_char", "char"}
    BY DEF PrintPrompt, ResetBuffer, ResetRead, ResetWrite, ShowWhileEmpty,
           HideAfterSleep, EndOfSleep, KeyWaiting, StartScan, Spin,
           StartSandboxScan, handle_command
  <2> QED BY <2>1, <2>2, <2>3 DEF IInv, LengthBound
<1>4. (AtReset /\ AtHandle)'
  BY DEF PrintPrompt, ResetBuffer, ResetRead, ResetWrite, ShowWhileEmpty,
         HideAfterSleep, EndOfSleep, KeyWaiting, StartScan, Spin,
         StartSandboxScan, handle_command, IInv, AtReset, AtHandle
<1>5. LineCharacters'
  <2>1. CASE ResetWrite
    BY <2>1 DEF ResetWrite, IInv, AtReset, LineCharacters
  <2>2. CASE PrintPrompt \/ ResetBuffer \/ ResetRead \/ Spin \/ StartSandboxScan
               \/ handle_command
    BY <2>2 DEF PrintPrompt, ResetBuffer, ResetRead, Spin, StartSandboxScan,
                handle_command, LineCharacters
  <2>3. CASE ShowWhileEmpty \/ HideAfterSleep \/ EndOfSleep \/ KeyWaiting \/ StartScan
    BY <2>3 DEF ShowWhileEmpty, HideAfterSleep, EndOfSleep, KeyWaiting, StartScan,
                IInv, LineCharacters
  <2> QED BY <2>1, <2>2, <2>3
<1> QED BY <1>1, <1>2, <1>3, <1>4, <1>5 DEF IInv

\* The loop of kgetline, up to the character it stores.
LEMMA TestsInvariant ==
  ASSUME IInv,
         TestScan \/ TakeSlot \/ TestNewLine \/ TestBackSpace \/ TestZero \/ TestBit
  PROVE  IInv'
<1> USE DEF Goto, ring_vars, Exam, Reading, NextTurn, LeaveScan
<1>0. /\ TypeOK /\ InStep /\ SlotStays /\ LengthBound /\ LineCharacters
      /\ 0 \in Slots /\ 0 \in Bytes
  BY CapAssumption, CapacityAssumption DEF IInv, Slots, Bytes
<1>1. Advance(i) \in Slots /\ Advance(scancode_read) \in Slots
  BY <1>0, AdvanceWraps DEF TypeOK
<1>2. len > 0 => len - 1 \in Bytes
  BY <1>0, CapacityAssumption DEF TypeOK, Bytes
<1>3. TypeOK'
  BY <1>0, <1>1, <1>2 DEF TestScan, TakeSlot, TestNewLine, TestBackSpace, TestZero,
                          TestBit, TypeOK, PCs
<1>4. InStep'
  BY <1>0 DEF TestScan, TakeSlot, TestNewLine, TestBackSpace, TestZero, TestBit, InStep
<1>5. SlotStays'
  BY <1>0 DEF TestScan, TakeSlot, TestNewLine, TestBackSpace, TestZero, TestBit,
              SlotStays, Key
<1>6. LengthBound'
  <2>1. CASE TestZero
    BY <1>0, <2>1, CapacityAssumption DEF TestZero, LengthBound, TypeOK, Bytes
  <2>2. CASE TestScan \/ TakeSlot \/ TestNewLine \/ TestBackSpace \/ TestBit
    BY <1>0, <2>2, CapacityAssumption
       DEF TestScan, TakeSlot, TestNewLine, TestBackSpace, TestBit, LengthBound,
           TypeOK, Bytes
  <2> QED BY <2>1, <2>2
<1>7. (AtReset /\ AtHandle)'
  BY DEF TestScan, TakeSlot, TestNewLine, TestBackSpace, TestZero, TestBit, IInv,
         AtReset, AtHandle
<1>8. LineCharacters'
  <2>1. CASE TestBackSpace
    <3>1. 0 .. len' - 1 \subseteq 0 .. len - 1
      BY <1>0, <2>1 DEF TestBackSpace, TypeOK, Bytes
    <3> QED BY <1>0, <2>1, <3>1 DEF TestBackSpace, LineCharacters
  <2>2. CASE TestScan \/ TakeSlot \/ TestNewLine \/ TestZero \/ TestBit
    BY <1>0, <2>2 DEF TestScan, TakeSlot, TestNewLine, TestZero, TestBit, LineCharacters
  <2> QED BY <2>1, <2>2
<1> QED BY <1>3, <1>4, <1>5, <1>6, <1>7, <1>8 DEF IInv

LEMMA StoreInvariant ==
  ASSUME IInv, StoreCharacter \/ Return PROVE IInv'
<1> USE DEF Goto, ring_vars, Exam, Reading, NextTurn
<1>0. /\ TypeOK /\ InStep /\ SlotStays /\ LengthBound /\ LineCharacters
  BY DEF IInv
<1>1. CASE StoreCharacter
  <2> DEFINE c == IF pc = "shift_char" THEN shift_kbdus[Key] ELSE kbdus[Key]
  <2>1. Key \in Keys
    BY <1>0 DEF TypeOK, Entries, Key
  <2>2. c \in Characters
    BY <2>1, TableTypes
  <2>3. len <= capacity /\ len \in Bytes /\ len + 1 \in Bytes
    BY <1>0, <1>1, CapacityAssumption DEF StoreCharacter, LengthBound, TypeOK, Bytes
  <2>4. command' = [command EXCEPT ![len] = c] /\ len' = len + 1
    BY <1>1 DEF StoreCharacter, Stored
  <2>5. ~overrun => c \in Printable
    BY <1>0, <1>1, <2>1, TestsLeavePrintable DEF StoreCharacter, SlotStays
  <2> HIDE DEF c
  <2>6. command' \in [Bytes -> Characters]
    BY <1>0, <2>2, <2>3, <2>4 DEF TypeOK
  <2>7. TypeOK'
    BY <1>0, <1>1, <2>3, <2>4, <2>6, AdvanceWraps DEF StoreCharacter, TypeOK, PCs
  <2>8. InStep' /\ SlotStays'
    BY <1>0, <1>1 DEF StoreCharacter, InStep, SlotStays
  <2>9. LengthBound'
    BY <1>1, <2>3, <2>4, CapacityAssumption DEF StoreCharacter, LengthBound, Bytes
  <2>10. (AtReset /\ AtHandle)'
    BY <1>1 DEF StoreCharacter, AtReset, AtHandle
  <2>11. LineCharacters'
    <3> SUFFICES ASSUME ~overrun, NEW b \in 0 .. len PROVE command'[b] \in Printable
      BY <1>1, <2>3, <2>4 DEF StoreCharacter, LineCharacters, Bytes
    <3>1. b = len \/ b \in 0 .. len - 1
      BY <2>3 DEF Bytes
    <3>2. b \in Bytes
      BY <2>3, CapacityAssumption DEF Bytes
    <3>3. command[b] \in Printable \/ b = len
      BY <1>0, <1>1, <3>1 DEF StoreCharacter, LineCharacters
    <3> QED BY <1>0, <2>4, <2>5, <3>2, <3>3 DEF TypeOK
  <2> QED BY <2>7, <2>8, <2>9, <2>10, <2>11 DEF IInv
<1>2. CASE Return
  <2>1. len \in Bytes /\ command' = [command EXCEPT ![len] = Nul] /\ len' = len
    BY <1>0, <1>2 DEF Return, TypeOK
  <2>2. Nul \in Characters
    BY DEF Characters
  <2>3. TypeOK'
    BY <1>0, <1>2, <2>1, <2>2 DEF Return, TypeOK, PCs
  <2>4. InStep' /\ SlotStays' /\ LengthBound' /\ AtReset' /\ LineCharacters'
    BY <1>0, <1>2 DEF Return, InStep, SlotStays, LengthBound, AtReset, LineCharacters
  <2>5. AtHandle'
    <3>1. command'[len] = Nul
      BY <1>0, <2>1 DEF TypeOK
    <3>2. ASSUME ~overrun, NEW b \in 0 .. len - 1 PROVE command'[b] \in Printable
      <4>1. b \in Bytes /\ b # len
        BY <2>1, CapacityAssumption DEF Bytes
      <4>2. command[b] \in Printable
        BY <1>0, <1>2, <3>2 DEF Return, LineCharacters
      <4> QED BY <1>0, <2>1, <4>1, <4>2 DEF TypeOK
    <3> QED BY <1>2, <2>1, <3>1, <3>2 DEF Return, AtHandle
  <2> QED BY <2>3, <2>4, <2>5 DEF IInv
<1> QED BY <1>1, <1>2

\* The loop of text_sandbox.  Its i never has to wrap: the condition keeps it
\* below scancode_write.
LEMMA SandboxInvariant ==
  ASSUME IInv, TestSandboxScan \/ PrintCharacter \/ GiveBackSlot PROVE IInv'
<1> USE DEF Goto, ring_vars, Exam, Reading, LeaveScan
<1>0. TypeOK /\ InStep /\ 0 \in Slots
  BY CapAssumption DEF IInv, Slots
<1>1. /\ Advance(i) \in Slots /\ Advance(scancode_read) \in Slots
      /\ (i + 1) % CAP = Advance(i)
  BY <1>0, AdvanceWraps DEF TypeOK
<1>2. TypeOK'
  BY <1>0, <1>1 DEF TestSandboxScan, PrintCharacter, GiveBackSlot, TypeOK, PCs, Sandbox
<1>3. InStep' /\ SlotStays'
  BY <1>0, <1>1 DEF TestSandboxScan, PrintCharacter, GiveBackSlot, InStep, SlotStays
<1>4. (LengthBound /\ AtReset /\ AtHandle /\ LineCharacters)'
  BY DEF TestSandboxScan, PrintCharacter, GiveBackSlot, IInv, LengthBound, AtReset,
         AtHandle, LineCharacters
<1> QED BY <1>2, <1>3, <1>4 DEF IInv

LEMMA NextInvariant == IInv /\ [Next]_vars => IInv'
<1> SUFFICES ASSUME IInv, [Next]_vars PROVE IInv'
  OBVIOUS
<1>1. CASE UNCHANGED vars
  BY <1>1 DEF vars, ring_vars, IInv, TypeOK, InStep, SlotStays, Key, LengthBound,
              AtReset, AtHandle, LineCharacters
<1>2. CASE Next
  BY <1>2, InterruptInvariant, QuietInvariant, TestsInvariant, StoreInvariant,
     SandboxInvariant
     DEF Next, KernelThread, kgetline, text_sandbox
<1> QED BY <1>1, <1>2

THEOREM Invariant == Spec => []IInv
  BY InitInvariant, NextInvariant, PTL DEF Spec

\* The driver's variables keep their types; the three indices stay on the ring.
THEOREM TypeCorrect == Spec => []TypeOK
<1>1. IInv => TypeOK
  BY DEF IInv
<1> QED BY <1>1, Invariant, PTL

\* The reader's index and scancode_read never drift apart.
THEOREM IndicesInStep == Spec => []InStep
<1>1. IInv => InStep
  BY DEF IInv
<1> QED BY <1>1, Invariant, PTL

\* Unless the ring overflows, no interrupt writes the slot kgetline examines.
THEOREM SlotIsStable == Spec => []SlotStays
<1>1. IInv => SlotStays
  BY DEF IInv
<1> QED BY <1>1, Invariant, PTL

\* A line never grows past capacity + 1 characters.
THEOREM LineIsBounded == Spec => []LengthBound
<1>1. IInv => LengthBound
  BY DEF IInv
<1> QED BY <1>1, Invariant, PTL

\* Unless the ring overflows, the line holds the printable characters that were
\* typed and ends where kgetline says it does.
THEOREM LineIsText == Spec => []LineText
<1>1. IInv => LineText
  <2> SUFFICES ASSUME IInv, ~overrun, pc = "handle" PROVE Len(Text) = len
    BY DEF IInv, LineText, LineCharacters
  <2>1. /\ len \in Bytes /\ command[len] = Nul
        /\ \A b \in 0 .. len - 1 : command[b] # Nul
    BY LettersAssumption DEF IInv, TypeOK, AtHandle
  <2> DEFINE Ends(b) == command[b] = Nul /\ \A a \in 0 .. b - 1 : command[a] # Nul
             end == CHOOSE b \in Bytes : Ends(b)
  <2>2. Ends(len)
    BY <2>1
  <2>3. end \in Bytes /\ Ends(end)
    BY <2>1, <2>2
  <2>4. ASSUME NEW a \in Bytes, NEW b \in Bytes, Ends(a), Ends(b) PROVE ~(a < b)
    BY <2>4 DEF Bytes
  <2> HIDE DEF Ends
  <2>5. end = len
    <3>1. end \in Int /\ len \in Int
      BY <2>1, <2>3, CapacityAssumption DEF Bytes
    <3> QED BY <2>1, <2>2, <2>3, <2>4, <3>1
  <2>6. Text = [b \in 1 .. end |-> command[b - 1]]
    BY DEF Text, Ends
  <2> HIDE DEF end
  <2>7. len \in Nat
    BY <2>1, CapacityAssumption DEF Bytes
  <2> QED BY <2>5, <2>6, <2>7
<1> QED BY <1>1, Invariant, PTL

-----------------------------------------------------------------------------
(* kgetline keeps the promise of LineReader: Keyboard implements LineReader *)
(* under the refinement mapping of LR.                                     *)

\* The keys waiting in the ring, without the one under examination.
Rest == [j \in 1 .. Waiting |-> scancode_buffer[(scancode_read + j - 1) % CAP]]

\* The types of the ring and of the reader's index.
RingOK ==
  /\ scancode_buffer \in [Slots -> Entries]
  /\ {scancode_read, scancode_write, i} \subseteq Slots

\* The line while it is read.
Line == [b \in 1 .. len |-> command[b - 1]]

\* The invariant needs two facts more: the ring is empty when the reset ends, and
\* a slot that is about to be taken holds a key.
Ready ==
  /\ pc = "reset_write" => scancode_read = 0
  /\ pc = "take" /\ ~overrun => scancode_read # scancode_write

-----------------------------------------------------------------------------
(* The ring as a sequence. *)

LEMMA ModNegative ==
  ASSUME NEW a \in Int, NEW b \in Nat, a < 0, -b <= a PROVE a % b = a + b
  BY SMT

LEMMA ModOnce ==
  ASSUME NEW a \in Nat, NEW b \in Nat, b <= a, a < 2 * b PROVE a % b = a - b
  BY SMT

WaitingFacts ==
  /\ Waiting = IF scancode_read <= scancode_write
                 THEN scancode_write - scancode_read
                 ELSE scancode_write - scancode_read + CAP
  /\ Waiting \in 0 .. CAP - 1

LEMMA RingTyped == TypeOK => RingOK
  BY DEF TypeOK, RingOK

LEMMA RingTypedNext == TypeOK' => RingOK'
  BY RingTyped, PTL

LEMMA WaitingIs == RingOK => WaitingFacts
<1> SUFFICES ASSUME RingOK PROVE WaitingFacts
  OBVIOUS
<1> USE DEF WaitingFacts
<1> DEFINE d == scancode_write - scancode_read
<1>1. d \in Int /\ -CAP <= d /\ d < CAP /\ CAP \in Nat
      /\ scancode_read \in Int /\ scancode_write \in Int
  BY CapAssumption DEF RingOK, Slots
<1>2. CASE scancode_read <= scancode_write
  <2>1. d \in Nat
    BY <1>1, <1>2
  <2>2. d % CAP = d
    BY <1>1, <2>1, ModSmall
  <2> QED BY <1>1, <1>2, <2>1, <2>2 DEF Waiting
<1>3. CASE ~(scancode_read <= scancode_write)
  <2>1. d < 0
    BY <1>1, <1>3
  <2>2. d % CAP = d + CAP
    BY <1>1, <2>1, ModNegative
  <2> QED BY <1>1, <1>3, <2>1, <2>2 DEF Waiting
<1> QED BY <1>2, <1>3

LEMMA WaitingNext == RingOK' => WaitingFacts'
  BY WaitingIs, PTL

LEMMA SlotIs ==
  ASSUME NEW r \in Slots, NEW j \in 1 .. CAP
  PROVE  /\ (r + j - 1) % CAP = IF r + j - 1 < CAP THEN r + j - 1 ELSE r + j - 1 - CAP
         /\ (r + j - 1) % CAP \in Slots
<1> DEFINE a == r + j - 1
<1>1. a \in Nat /\ CAP \in Nat /\ a < 2 * CAP
  BY CapAssumption DEF Slots
<1>2. a % CAP = IF a < CAP THEN a ELSE a - CAP
  BY <1>1, ModSmall, ModOnce
<1> QED BY <1>1, <1>2 DEF Slots

RestFacts ==
  /\ Rest \in Seq(Entries)
  /\ Len(Rest) = Waiting
  /\ \A j \in 1 .. Waiting :
       Rest[j] = scancode_buffer[(scancode_read + j - 1) % CAP]

LEMMA RestIs == RingOK => RestFacts
<1> SUFFICES ASSUME RingOK PROVE RestFacts
  OBVIOUS
<1>1. Waiting \in Nat /\ Waiting <= CAP - 1 /\ CAP \in Nat
  BY WaitingIs, CapAssumption DEF WaitingFacts
<1>2. \A j \in 1 .. Waiting : scancode_buffer[(scancode_read + j - 1) % CAP] \in Entries
  <2> TAKE j \in 1 .. Waiting
  <2>1. j \in 1 .. CAP /\ scancode_read \in Slots
    BY <1>1 DEF RingOK
  <2>2. (scancode_read + j - 1) % CAP \in Slots
    BY <2>1, SlotIs
  <2> QED BY <2>2 DEF RingOK
<1>3. Rest \in [1 .. Waiting -> Entries]
  BY <1>2 DEF Rest
<1> QED BY <1>1, <1>3 DEF Rest, RestFacts

LEMMA RestNext == RingOK' => RestFacts'
  BY RestIs, PTL

\* What is stored becomes the last of the keys waiting.
LEMMA StoreAppends ==
  ASSUME RingOK, RingOK', NEW e \in Entries, Advance(scancode_write) # scancode_read,
         scancode_read' = scancode_read, scancode_write' = Advance(scancode_write),
         \A s \in Slots : scancode_buffer'[s] = IF s = scancode_write THEN e
                                                                  ELSE scancode_buffer[s]
  PROVE  /\ Rest' = Append(Rest, e)
         /\ Waiting + 1 <= CAP - 1
<1>1. /\ scancode_read \in Slots /\ scancode_write \in Slots /\ scancode_read' = scancode_read
      /\ scancode_write' = Advance(scancode_write) /\ scancode_buffer \in [Slots -> Entries]
  BY DEF RingOK
<1>2. e \in Entries
  OBVIOUS
<1>3. scancode_write' = IF scancode_write = CAP - 1 THEN 0 ELSE scancode_write + 1
  BY <1>1, AdvanceWraps
<1>4. Waiting' = Waiting + 1 /\ Waiting \in Nat /\ Waiting' \in 0 .. CAP - 1
  <2>1. /\ Waiting = IF scancode_read <= scancode_write
                       THEN scancode_write - scancode_read
                       ELSE scancode_write - scancode_read + CAP
        /\ Waiting \in 0 .. CAP - 1
    BY WaitingIs DEF WaitingFacts
  <2>2. /\ Waiting' = IF scancode_read' <= scancode_write'
                        THEN scancode_write' - scancode_read'
                        ELSE scancode_write' - scancode_read' + CAP
        /\ Waiting' \in 0 .. CAP - 1
    BY WaitingNext DEF WaitingFacts
  <2> QED BY <1>1, <1>3, <2>1, <2>2, CapAssumption DEF Slots
<1>5. /\ Rest \in Seq(Entries) /\ Len(Rest) = Waiting
      /\ \A j \in 1 .. Waiting : Rest[j] = scancode_buffer[(scancode_read + j - 1) % CAP]
  BY RestIs DEF RestFacts
<1>6. /\ Rest' \in Seq(Entries) /\ Len(Rest') = Waiting'
      /\ \A j \in 1 .. Waiting' :
           Rest'[j] = scancode_buffer'[(scancode_read' + j - 1) % CAP]
  BY RestNext DEF RestFacts
<1> DEFINE longer == Append(Rest, e)
<1>7. /\ longer \in Seq(Entries) /\ Len(longer) = Waiting + 1
      /\ \A j \in 1 .. Waiting : longer[j] = Rest[j]
      /\ longer[Waiting + 1] = e
  BY <1>2, <1>5, AppendProperties
<1>8. \A j \in 1 .. Waiting + 1 : Rest'[j] = longer[j]
  <2> TAKE j \in 1 .. Waiting + 1
  <2> DEFINE s == (scancode_read + j - 1) % CAP
  <2>1. j \in 1 .. CAP
    BY <1>4, CapAssumption
  <2>2. s \in Slots
        /\ s = IF scancode_read + j - 1 < CAP THEN scancode_read + j - 1
                                              ELSE scancode_read + j - 1 - CAP
    BY <1>1, <2>1, SlotIs
  <2>3. s = scancode_write <=> j = Waiting + 1
    BY <1>1, <1>4, <2>1, <2>2, WaitingIs, CapAssumption DEF Slots, WaitingFacts
  <2>4. Rest'[j] = scancode_buffer'[s]
    BY <1>1, <1>4, <1>6
  <2>5. Rest'[j] = IF s = scancode_write THEN e ELSE scancode_buffer[s]
    BY <2>2, <2>4
  <2>6. CASE j = Waiting + 1
    BY <1>7, <2>3, <2>5, <2>6
  <2>7. CASE j # Waiting + 1
    <3>1. j \in 1 .. Waiting
      BY <1>4, <2>7
    <3> QED BY <1>5, <1>7, <2>3, <2>5, <2>7, <3>1
  <2> QED BY <2>6, <2>7
<1> HIDE DEF longer
<1>9. Rest' = longer
  BY <1>4, <1>6, <1>7, <1>8, SeqEqual
<1> QED BY <1>4, <1>9 DEF longer

\* A store that scancode_write does not follow yet changes none of them.
LEMMA StoreUnseen ==
  ASSUME RingOK, RingOK', UNCHANGED <<scancode_read, scancode_write>>,
         \A s \in Slots : s # scancode_write => scancode_buffer'[s] = scancode_buffer[s]
  PROVE  Rest' = Rest
<1>1. Waiting' = Waiting /\ Waiting \in 0 .. CAP - 1 /\ CAP \in Nat
  BY WaitingIs, CapAssumption DEF WaitingFacts, Waiting
<1>2. ASSUME NEW j \in 1 .. Waiting
      PROVE  scancode_buffer'[(scancode_read + j - 1) % CAP]
               = scancode_buffer[(scancode_read + j - 1) % CAP]
  <2> DEFINE s == (scancode_read + j - 1) % CAP
  <2>1. j \in 1 .. CAP /\ scancode_read \in Slots /\ scancode_write \in Slots
    BY <1>1 DEF RingOK
  <2>2. s \in Slots /\ s = IF scancode_read + j - 1 < CAP THEN scancode_read + j - 1
                                                          ELSE scancode_read + j - 1 - CAP
    BY <2>1, SlotIs
  <2>3. s # scancode_write
    BY <1>1, <2>1, <2>2, WaitingIs DEF WaitingFacts, Slots
  <2> QED BY <2>2, <2>3
<1> QED BY <1>1, <1>2 DEF Rest

\* What is taken from the ring is its first entry.
LEMMA TakeTakes ==
  ASSUME RingOK, RingOK', scancode_read # scancode_write,
         scancode_read' = Advance(scancode_read),
         UNCHANGED <<scancode_buffer, scancode_write>>
  PROVE  Rest = <<scancode_buffer[scancode_read]>> \o Rest'
<1> DEFINE e == scancode_buffer[scancode_read]
<1>1. /\ scancode_read \in Slots /\ scancode_write \in Slots
      /\ scancode_read' = Advance(scancode_read) /\ scancode_write' = scancode_write
      /\ scancode_buffer \in [Slots -> Entries] /\ scancode_buffer' = scancode_buffer
  BY DEF RingOK
<1>2. <<e>> \in Seq(Entries) /\ Len(<<e>>) = 1 /\ <<e>>[1] = e
  BY <1>1
<1>3. scancode_read' = IF scancode_read = CAP - 1 THEN 0 ELSE scancode_read + 1
  BY <1>1, AdvanceWraps
<1>4. Waiting' = Waiting - 1 /\ Waiting \in 0 .. CAP - 1 /\ Waiting' \in Nat
  <2>1. /\ Waiting = IF scancode_read <= scancode_write
                       THEN scancode_write - scancode_read
                       ELSE scancode_write - scancode_read + CAP
        /\ Waiting \in 0 .. CAP - 1
    BY WaitingIs DEF WaitingFacts
  <2>2. /\ Waiting' = IF scancode_read' <= scancode_write'
                        THEN scancode_write' - scancode_read'
                        ELSE scancode_write' - scancode_read' + CAP
        /\ Waiting' \in 0 .. CAP - 1
    BY WaitingNext DEF WaitingFacts
  <2> QED BY <1>1, <1>3, <2>1, <2>2, CapAssumption DEF Slots
<1>5. /\ Rest \in Seq(Entries) /\ Len(Rest) = Waiting
      /\ \A j \in 1 .. Waiting : Rest[j] = scancode_buffer[(scancode_read + j - 1) % CAP]
  BY RestIs DEF RestFacts
<1>6. /\ Rest' \in Seq(Entries) /\ Len(Rest') = Waiting'
      /\ \A j \in 1 .. Waiting' :
           Rest'[j] = scancode_buffer'[(scancode_read' + j - 1) % CAP]
  BY RestNext DEF RestFacts
<1> DEFINE whole == <<e>> \o Rest'
<1>7. /\ whole \in Seq(Entries) /\ Len(whole) = Waiting
      /\ \A j \in 1 .. Waiting : whole[j] = IF j <= 1 THEN <<e>>[j] ELSE Rest'[j - 1]
  <2>1. Len(<<e>>) + Len(Rest') = Waiting
    BY <1>2, <1>4, <1>6
  <2> HIDE DEF e
  <2> QED BY <1>2, <1>6, <2>1, ConcatProperties
<1>8. \A j \in 1 .. Waiting : Rest[j] = whole[j]
  <2> TAKE j \in 1 .. Waiting
  <2> DEFINE s == (scancode_read + j - 1) % CAP
  <2>1. j \in 1 .. CAP
    BY <1>4, CapAssumption
  <2>2. s = IF scancode_read + j - 1 < CAP THEN scancode_read + j - 1
                                           ELSE scancode_read + j - 1 - CAP
    BY <1>1, <2>1, SlotIs
  <2>3. CASE j = 1
    <3>1. s = scancode_read
      BY <1>1, <2>2, <2>3, CapAssumption DEF Slots
    <3> QED BY <1>2, <1>5, <1>7, <2>3, <3>1
  <2>4. CASE j # 1
    <3>1. j - 1 \in 1 .. Waiting' /\ j - 1 \in 1 .. CAP /\ ~(j <= 1)
      BY <1>4, <2>1, <2>4, CapAssumption
    <3> DEFINE t == (scancode_read' + (j - 1) - 1) % CAP
    <3>2. t = IF scancode_read' + (j - 1) - 1 < CAP THEN scancode_read' + (j - 1) - 1
                                                  ELSE scancode_read' + (j - 1) - 1 - CAP
      <4>1. scancode_read' \in Slots
        BY DEF RingOK
      <4> QED BY <3>1, <4>1, SlotIs
    <3>3. t = s
      BY <1>1, <1>3, <2>1, <2>2, <2>4, <3>2, CapAssumption DEF Slots
    <3>4. Rest'[j - 1] = scancode_buffer[s]
      <4>1. Rest'[j - 1] = scancode_buffer'[t]
        BY <1>6, <3>1
      <4> QED BY <1>1, <3>3, <4>1
    <3>5. whole[j] = Rest'[j - 1]
      BY <1>7, <3>1
    <3> QED BY <1>5, <3>4, <3>5
  <2> QED BY <2>3, <2>4
<1> HIDE DEF whole, e
<1>9. Rest = whole
  BY <1>4, <1>5, <1>7, <1>8, SeqEqual
<1> QED BY <1>9 DEF whole, e

-----------------------------------------------------------------------------
(* The two facts. *)

LEMMA ReadyInit == Init => Ready
  BY DEF Init, Ready

LEMMA ReadyNext == IInv /\ Ready /\ [Next]_vars => Ready'
<1> SUFFICES ASSUME IInv, Ready, [Next]_vars PROVE Ready'
  OBVIOUS
<1> USE DEF Goto, ring_vars
<1>1. CASE UNCHANGED vars
  BY <1>1 DEF vars, Ready
<1>2. CASE interrupt_keyboard_handler
  <2>1. UNCHANGED <<pc, scancode_read>>
    BY <1>2 DEF interrupt_keyboard_handler, process_scancode, set_shift, store_scancode
  <2>2. \/ UNCHANGED <<scancode_write, overrun>>
        \/ scancode_write' = Advance(scancode_write)
           /\ overrun' = (overrun \/ (pc \in Reading /\ Advance(scancode_write) = scancode_read))
    BY <1>2 DEF interrupt_keyboard_handler, process_scancode, set_shift, store_scancode
  <2> QED BY <2>1, <2>2 DEF Ready, Reading
<1>3. CASE PrintPrompt \/ ResetBuffer \/ ResetRead \/ ResetWrite \/ ShowWhileEmpty
             \/ HideAfterSleep \/ EndOfSleep \/ KeyWaiting \/ StartScan \/ Return
             \/ handle_command
  BY <1>3 DEF PrintPrompt, ResetBuffer, ResetRead, ResetWrite, ShowWhileEmpty,
              HideAfterSleep, EndOfSleep, KeyWaiting, StartScan, Return, handle_command, Ready
<1>4. CASE TestScan
  BY <1>4 DEF TestScan, LeaveScan, IInv, InStep, Ready
<1>5. CASE TakeSlot \/ TestNewLine \/ TestBackSpace \/ TestZero \/ TestBit \/ StoreCharacter
  BY <1>5 DEF TakeSlot, TestNewLine, TestBackSpace, TestZero, TestBit, StoreCharacter,
              NextTurn, LeaveScan, Ready
<1>6. CASE text_sandbox
  BY <1>6 DEF text_sandbox, Spin, StartSandboxScan, TestSandboxScan, PrintCharacter,
              GiveBackSlot, LeaveScan, Ready
<1> QED BY <1>1, <1>2, <1>3, <1>4, <1>5, <1>6 DEF Next, KernelThread, kgetline

-----------------------------------------------------------------------------
(* What LineReader sees of a step. *)

\* LineReader's tables are Keyboard's.
LEMMA SameTables ==
  /\ LR!kbdus = kbdus /\ LR!Entries = Entries
  /\ LR!NewLine = NewLine /\ LR!BackSpace = BackSpace /\ LR!Nul = Nul
  /\ \A e : LR!Character(e) = Character(e)
  BY DEF LR!kbdus, kbdus, LR!Unshifted, Unshifted, LR!Keys, Keys, LR!Entries, Entries,
         LR!NewLine, NewLine, LR!BackSpace, BackSpace, LR!Nul, Nul, LR!Character, Character,
         LR!shift_kbdus, shift_kbdus

QueueFacts ==
  /\ Queue \in Seq(Entries)
  /\ pc \notin Exam => Queue = Rest /\ Len(Queue) = Waiting
  /\ pc \in Exam => /\ Queue = <<scancode_buffer[i]>> \o Rest
                    /\ Queue # <<>> /\ Len(Queue) = Waiting + 1
                    /\ Head(Queue) = scancode_buffer[i] /\ Tail(Queue) = Rest

LEMMA QueueIs == RingOK => QueueFacts
<1> SUFFICES ASSUME RingOK PROVE QueueFacts
  OBVIOUS
<1> DEFINE e == scancode_buffer[i]
<1>1. /\ Queue = (IF pc \in Exam THEN <<e>> ELSE <<>>) \o Rest
      /\ e \in Entries /\ Waiting \in Nat
      /\ Rest \in Seq(Entries) /\ Len(Rest) = Waiting
  BY RestIs, WaitingIs DEF RestFacts, WaitingFacts, Queue, Rest, RingOK
<1>2. CASE pc \notin Exam
  <2>1. Queue = Rest
    BY <1>1, <1>2, ConcatEmptySeq
  <2> QED BY <1>1, <1>2, <2>1 DEF QueueFacts
<1>3. CASE pc \in Exam
  <2>1. Queue = <<e>> \o Rest
    BY <1>1, <1>3
  <2>2. <<e>> \in Seq(Entries) /\ Len(<<e>>) = 1 /\ <<e>>[1] = e
    BY <1>1
  <2> HIDE DEF e
  <2>3. /\ Queue \in Seq(Entries) /\ Len(Queue) = 1 + Waiting
        /\ \A j \in 1 .. 1 + Waiting : Queue[j] = IF j <= 1 THEN <<e>>[j] ELSE Rest[j - 1]
    BY <1>1, <2>1, <2>2, ConcatProperties
  <2>4. Queue # <<>> /\ Head(Queue) = e
    BY <1>1, <2>2, <2>3
  <2>5. /\ Tail(Queue) \in Seq(Entries) /\ Len(Tail(Queue)) = Waiting
        /\ \A j \in 1 .. Waiting : Tail(Queue)[j] = Queue[j + 1]
    BY <1>1, <2>3, <2>4, HeadTailProperties
  <2>6. \A j \in 1 .. Waiting : Tail(Queue)[j] = Rest[j]
    BY <1>1, <2>3, <2>5
  <2>7. Tail(Queue) = Rest
    BY <1>1, <2>5, <2>6, SeqEqual
  <2> QED BY <1>1, <1>3, <2>1, <2>3, <2>4, <2>7 DEF QueueFacts, e
<1> QED BY <1>2, <1>3

LEMMA QueueNext == RingOK' => QueueFacts'
  BY QueueIs, PTL

\* What is stored is the last key of the queue, whether or not the reader examines
\* one: the slot it examines is not the one that is stored into.
LEMMA StoreAppendsToQueue ==
  ASSUME RingOK, RingOK', NEW e \in Entries, Advance(scancode_write) # scancode_read,
         scancode_read' = scancode_read, scancode_write' = Advance(scancode_write),
         \A s \in Slots : scancode_buffer'[s] = IF s = scancode_write THEN e
                                                                  ELSE scancode_buffer[s],
         pc \in Exam => scancode_read = Advance(i) /\ pc' = pc /\ i' = i,
         pc \notin Exam => pc' \notin Exam
  PROVE  Queue' = Append(Queue, e) /\ Len(Queue) <= CAP - 1
<1>1. Rest' = Append(Rest, e) /\ Waiting + 1 <= CAP - 1
  BY StoreAppends
<1>2. /\ QueueFacts /\ QueueFacts' /\ CAP \in Nat
      /\ Rest \in Seq(Entries) /\ Len(Rest) = Waiting /\ Waiting \in Nat
  BY QueueIs, QueueNext, RestIs, WaitingIs, CapAssumption DEF RestFacts, WaitingFacts
<1>3. Len(Queue) <= CAP - 1
  BY <1>1, <1>2 DEF QueueFacts
<1>4. CASE pc \notin Exam
  BY <1>1, <1>2, <1>3, <1>4 DEF QueueFacts
<1>5. CASE pc \in Exam
  <2> DEFINE x == scancode_buffer[i]
  <2>1. scancode_buffer'[i] = x /\ x \in Entries
    <3>1. scancode_read = Advance(i) /\ i \in Slots /\ scancode_write \in Slots
      BY <1>5 DEF RingOK
    <3>2. scancode_write # i
      BY <3>1
    <3> QED BY <3>1, <3>2 DEF RingOK
  <2>2. Queue = <<x>> \o Rest /\ Queue' = <<x>> \o Append(Rest, e)
    BY <1>1, <1>2, <1>5, <2>1 DEF QueueFacts
  <2>3. <<x>> \in Seq(Entries) /\ <<e>> \in Seq(Entries)
    BY <2>1
  <2> HIDE DEF x
  <2>4. Append(Rest, e) = Rest \o <<e>>
    BY <1>2, AppendIsConcat
  <2>5. <<x>> \o (Rest \o <<e>>) = (<<x>> \o Rest) \o <<e>>
    BY <1>2, <2>3, ConcatAssociative
  <2>6. Append(Queue, e) = Queue \o <<e>>
    BY <1>2, AppendIsConcat DEF QueueFacts
  <2> QED BY <1>3, <2>2, <2>4, <2>5, <2>6
<1> QED BY <1>4, <1>5

LEMMA Stutters ==
  ASSUME Status' = Status,
         Status = "reading" => Queue' = Queue,
         Status \in {"reading", "returned"} => Line' = Line
  PROVE  UNCHANGED LR!lr_vars
  BY DEF LR!lr_vars, Line

LEMMA Starts ==
  ASSUME Status = "away", Status' = "reading", Queue' = <<>>, Line' = <<>> PROVE LR!Start
  BY DEF LR!Start, Line

LEMMA Leaves ==
  ASSUME Status \in {"returned", "spoiled"}, Status' = "away" PROVE LR!Leave
  BY DEF LR!Leave

LEMMA Presses ==
  ASSUME Status = "reading", Status' = "reading", Line' = Line,
         Len(Queue) <= CAP - 1, NEW e \in Entries, Queue' = Append(Queue, e)
  PROVE  LR!KeyPressed
  BY SameTables DEF LR!KeyPressed, Line

\* A reader that stops keeps no key.
LEMMA KeepsNone ==
  ASSUME Status = "reading", Status' # "reading", Queue \in Seq(Entries) PROVE LR!KeepHeld
<1>1. Len(Queue) \in Nat
  BY LenProperties
<1>2. SubSeq(Queue, Len(Queue) - 0 + 1, Len(Queue)) = <<>>
  BY <1>1, SubSeqEmpty
<1>3. 0 \in 0 .. 0 /\ 0 <= Len(Queue)
  BY <1>1
<1> QED BY <1>2, <1>3 DEF LR!KeepHeld

LEMMA Spoils ==
  ASSUME Status = "reading", Status' = "spoiled", Queue \in Seq(Entries),
         Len(Queue) >= CAP - 1
  PROVE  LR!Spoil
  BY KeepsNone DEF LR!Spoil

LEMMA TakesEnter ==
  ASSUME Status = "reading", Status' = "returned", Line' = Line, Queue \in Seq(Entries),
         Queue # <<>>, kbdus[Head(Queue).key] = NewLine
  PROVE  LR!TakeEnter
  BY KeepsNone, SameTables DEF LR!TakeEnter, Line

\* The line after a key other than Enter has been taken.
LineAfter(e) ==
  CASE kbdus[e.key] = BackSpace -> IF Line = <<>> THEN Line ELSE SubSeq(Line, 1, Len(Line) - 1)
    [] kbdus[e.key] = Nul       -> Line
    [] OTHER -> IF Len(Line) < capacity + 1 THEN Append(Line, Character(e)) ELSE Line

LEMMA Takes ==
  ASSUME Status = "reading", Status' = "reading", Queue # <<>>,
         kbdus[Head(Queue).key] # NewLine, Line' = LineAfter(Head(Queue)),
         Queue' = Tail(Queue)
  PROVE  LR!TakeKey
<1>1. LR!Taken(Head(Queue)) = LineAfter(Head(Queue))
  BY SameTables DEF LR!Taken, LineAfter, Line
<1> QED BY <1>1, SameTables DEF LR!TakeKey, Line

-----------------------------------------------------------------------------
(* Every step of Keyboard is one of LineReader, or none. *)

Simulated == LR!Next \/ UNCHANGED LR!lr_vars

\* While no line is read, and once it is spoiled, there is nothing to see.
LEMMA NothingSeen ==
  ASSUME Status' = Status, Status \in {"away", "spoiled"} PROVE Simulated
  BY Stutters DEF Simulated

LEMMA InterruptSimulated ==
  ASSUME IInv, IInv', interrupt_keyboard_handler PROVE Simulated
<1> USE DEF Reading, Exam
<1>1. TypeOK /\ TypeOK' /\ UNCHANGED <<pc, i, len, command>>
  BY DEF IInv, interrupt_keyboard_handler
<1>2. Line' = Line
  BY <1>1 DEF Line
<1>3. Status \in {"away", "reading", "returned", "spoiled"}
  BY DEF Status
<1>4. CASE \E b \in BOOLEAN : set_shift(b)
  <2>1. UNCHANGED <<ring_vars, overrun>>
    BY <1>4 DEF set_shift
  <2>2. Status' = Status /\ Queue' = Queue
    BY <1>1, <2>1 DEF Status, Queue, Waiting, ring_vars
  <2> QED BY <1>2, <2>2, Stutters DEF Simulated
<1>5. ASSUME NEW k \in Keys, store_scancode(k) PROVE Simulated
  <2> DEFINE e == [key |-> k, shift |-> shift]
  <2>1. overrun' = (overrun \/ (pc \in Reading /\ Advance(scancode_write) = scancode_read))
    BY <1>5 DEF store_scancode
  <2>2. QueueFacts /\ QueueFacts' /\ WaitingFacts
    BY <1>1, RingTyped, RingTypedNext, QueueIs, QueueNext, WaitingIs
  <2>3. CASE Status # "reading"
    <3>1. Status' = Status
      BY <1>1, <2>1, <2>3 DEF Status
    <3> QED BY <1>2, <2>3, <3>1, Stutters DEF Simulated
  <2>4. CASE Status = "reading" /\ Advance(scancode_write) = scancode_read
    <3>1. Status' = "spoiled"
      BY <1>1, <2>1, <2>4 DEF Status
    <3>2. Waiting = CAP - 1
      <4>1. scancode_write \in Slots /\ scancode_read \in Slots
        BY <1>1 DEF TypeOK
      <4>2. scancode_read = IF scancode_write = CAP - 1 THEN 0 ELSE scancode_write + 1
        BY <2>4, <4>1, AdvanceWraps
      <4> QED BY <2>2, <4>1, <4>2, CapAssumption DEF WaitingFacts, Slots
    <3>3. Queue \in Seq(Entries) /\ Len(Queue) >= CAP - 1
      BY <2>2, <3>2, CapAssumption DEF QueueFacts
    <3> QED BY <2>4, <3>1, <3>3, Spoils DEF Simulated, LR!Next
  <2>5. CASE Status = "reading" /\ Advance(scancode_write) # scancode_read
    <3>1. Status' = "reading"
      BY <1>1, <2>1, <2>5 DEF Status
    <3>2. e \in Entries
      BY <1>1 DEF TypeOK, Entries
    <3>3. \A s \in Slots : scancode_buffer'[s] = IF s = scancode_write THEN e
                                                                      ELSE scancode_buffer[s]
      BY <1>1, <1>5 DEF store_scancode, TypeOK
    <3>4. scancode_read' = scancode_read /\ scancode_write' = Advance(scancode_write)
      BY <1>5 DEF store_scancode
    <3>5. RingOK /\ RingOK' /\ (pc \in Exam => scancode_read = Advance(i))
      BY <1>1, RingTyped, RingTypedNext DEF IInv, InStep
    <3> HIDE DEF e
    <3>6. Queue' = Append(Queue, e) /\ Len(Queue) <= CAP - 1
      BY <1>1, <2>5, <3>2, <3>3, <3>4, <3>5, StoreAppendsToQueue
    <3> QED BY <1>2, <2>5, <3>1, <3>2, <3>6, Presses DEF Simulated, LR!Next
  <2> QED BY <2>3, <2>4, <2>5
<1> QED
  BY <1>4, <1>5, PressedAssumption DEF interrupt_keyboard_handler, process_scancode

\* The terminator goes behind the line.
LEMMA ReturnKeepsLine ==
  ASSUME TypeOK, Return PROVE Line' = Line
<1>1. len' = len /\ command' = [command EXCEPT ![len] = Nul]
  BY DEF Return
<1>2. len \in Bytes /\ command \in [Bytes -> Characters]
  BY DEF TypeOK
<1>3. \A b \in 1 .. len : b - 1 \in Bytes /\ b - 1 # len
  BY <1>2, CapacityAssumption DEF Bytes
<1>4. \A b \in 1 .. len : command'[b - 1] = command[b - 1]
  BY <1>1, <1>2, <1>3
<1> QED BY <1>1, <1>4 DEF Line

\* The steps outside the lines kgetline reads, and into one.
LEMMA AroundSimulated ==
  ASSUME IInv, IInv', Ready,
         PrintPrompt \/ ResetBuffer \/ ResetRead \/ ResetWrite \/ handle_command \/ text_sandbox
           \/ Return
  PROVE  Simulated
<1> USE DEF Reading, Exam, Goto
<1>1. CASE PrintPrompt \/ ResetBuffer \/ ResetRead \/ text_sandbox
  <2>1. pc \notin Reading \cup {"return", "handle"} /\ pc' \notin Reading \cup {"return", "handle"}
    BY <1>1 DEF PrintPrompt, ResetBuffer, ResetRead, text_sandbox, Spin, StartSandboxScan,
                TestSandboxScan, PrintCharacter, GiveBackSlot, LeaveScan
  <2>2. Status = "away" /\ Status' = "away"
    BY <2>1 DEF Status
  <2> QED BY <2>2, NothingSeen
<1>2. CASE ResetWrite
  <2>1. /\ pc = "reset_write" /\ pc' = "wait" /\ ~overrun' /\ len' = len
        /\ scancode_read' = scancode_read /\ scancode_write' = 0
    BY <1>2 DEF ResetWrite
  <2>2. Status = "away" /\ Status' = "reading"
    BY <2>1 DEF Status
  <2>3. scancode_read = 0 /\ len = 0
    BY <2>1 DEF Ready, IInv, AtReset
  <2>4. Waiting' = 0 /\ QueueFacts'
    <3>1. TypeOK'
      BY DEF IInv
    <3>2. 0 <= 0
      OBVIOUS
    <3> QED BY <2>1, <2>3, <3>1, <3>2, RingTypedNext, WaitingNext, QueueNext DEF WaitingFacts
  <2>5. Queue' = <<>>
    BY <2>1, <2>4 DEF QueueFacts
  <2>6. Line' = <<>>
    BY <2>1, <2>3 DEF Line
  <2> QED BY <2>2, <2>5, <2>6, Starts DEF Simulated, LR!Next
<1>3. CASE handle_command
  <2>1. pc = "handle" /\ pc' \in {"spin", "prompt"}
    BY <1>3 DEF handle_command
  <2>2. Status \in {"returned", "spoiled"} /\ Status' = "away"
    BY <2>1 DEF Status
  <2> QED BY <2>2, Leaves DEF Simulated, LR!Next
<1>4. CASE Return
  <2>1. pc = "return" /\ pc' = "handle" /\ overrun' = overrun
    BY <1>4 DEF Return
  <2>2. Status' = Status /\ Status \in {"returned", "spoiled"}
    BY <2>1 DEF Status
  <2>3. Line' = Line
    BY <1>4, ReturnKeepsLine DEF IInv
  <2> QED BY <2>2, <2>3, Stutters DEF Simulated
<1> QED BY <1>1, <1>2, <1>3, <1>4

\* The loop of kgetline where it examines no element.
LEMMA LoopSimulated ==
  ASSUME IInv, IInv',
         ShowWhileEmpty \/ HideAfterSleep \/ EndOfSleep \/ KeyWaiting \/ StartScan \/ TestScan
  PROVE  Simulated
<1>1. /\ pc \in Reading \ Exam /\ pc' \in Reading \ Exam
      /\ UNCHANGED <<ring_vars, len, command, overrun>>
  BY DEF ShowWhileEmpty, HideAfterSleep, EndOfSleep, KeyWaiting, StartScan, TestScan, LeaveScan,
         Goto, Reading, Exam
<1>2. Status' = Status
  BY <1>1 DEF Status, Reading
<1>3. Queue' = Queue /\ Line' = Line
  BY <1>1 DEF Queue, Waiting, Line, ring_vars
<1> QED BY <1>2, <1>3, Stutters DEF Simulated

\* The element that is taken from the ring is the one under examination.
LEMMA TakeSlotKeepsQueue ==
  ASSUME RingOK, RingOK', TakeSlot, i = scancode_read, scancode_read # scancode_write
  PROVE  Queue' = Queue
<1>1. /\ pc = "take" /\ pc' = "newline?" /\ UNCHANGED <<scancode_buffer, i>>
  BY DEF TakeSlot, Goto
<1>2. QueueFacts /\ QueueFacts'
  BY QueueIs, QueueNext
<1>3. Rest = <<scancode_buffer[i]>> \o Rest'
  BY TakeTakes DEF TakeSlot
<1> QED BY <1>1, <1>2, <1>3 DEF QueueFacts, Exam

LEMMA TakeSlotSimulated ==
  ASSUME IInv, IInv', Ready, TakeSlot PROVE Simulated
<1>1. pc = "take" /\ pc' = "newline?" /\ UNCHANGED <<len, command, overrun>>
  BY DEF TakeSlot, Goto
<1>2. Status' = Status /\ Line' = Line
  BY <1>1 DEF Status, Reading, Exam, Line
<1>3. CASE overrun
  <2>1. Status = "spoiled"
    BY <1>1, <1>3 DEF Status, Reading
  <2> QED BY <1>2, <2>1, NothingSeen
<1>4. CASE ~overrun
  <2>1. RingOK /\ RingOK'
    BY RingTyped, RingTypedNext DEF IInv
  <2>2. scancode_read # scancode_write /\ i = scancode_read
    BY <1>1, <1>4 DEF Ready, IInv, InStep
  <2>3. Queue' = Queue
    BY <2>1, <2>2, TakeSlotKeepsQueue
  <2> QED BY <1>2, <2>3, Stutters DEF Simulated
<1> QED BY <1>3, <1>4

LineFacts == Line \in Seq(Characters) /\ Len(Line) = len /\ len \in Nat

LEMMA LineIs == TypeOK => LineFacts
<1> SUFFICES ASSUME TypeOK PROVE LineFacts
  OBVIOUS
<1>1. len \in Nat /\ len <= capacity + 1
  BY CapacityAssumption DEF TypeOK, Bytes
<1>2. \A b \in 1 .. len : b - 1 \in Bytes
  BY <1>1, CapacityAssumption DEF Bytes
<1>3. Line \in [1 .. len -> Characters]
  BY <1>2 DEF Line, TypeOK
<1> QED BY <1>1, <1>3 DEF LineFacts

\* What a test of the element under examination does: it passes the element on,
\* ends the line, or ends the element's turn with its effect on the line made.
PassedOn == pc' \in Exam /\ Queue' = Queue /\ Line' = Line
LineEnded == pc' = "return" /\ kbdus[Head(Queue).key] = NewLine /\ Line' = Line
TurnEnded ==
  /\ pc' = "for" /\ kbdus[Head(Queue).key] # NewLine
  /\ Queue' = Tail(Queue) /\ Line' = LineAfter(Head(Queue))

LEMMA TestsDecide ==
  ASSUME IInv, IInv', ~overrun,
         TestNewLine \/ TestBackSpace \/ TestZero \/ TestBit \/ StoreCharacter
  PROVE  Queue \in Seq(Entries) /\ Queue # <<>> /\ (PassedOn \/ LineEnded \/ TurnEnded)
<1> DEFINE e == scancode_buffer[i]
<1>1. TypeOK /\ QueueFacts /\ QueueFacts' /\ LineFacts
  BY RingTyped, RingTypedNext, QueueIs, QueueNext, LineIs DEF IInv
<1>2. pc \in Exam /\ UNCHANGED <<ring_vars, overrun>>
  BY DEF TestNewLine, TestBackSpace, TestZero, TestBit, StoreCharacter, Goto, Exam
<1>3. Rest' = Rest
  BY <1>2 DEF Rest, Waiting, ring_vars
<1>4. /\ Queue \in Seq(Entries) /\ Queue # <<>>
      /\ Head(Queue) = e /\ Tail(Queue) = Rest /\ Key = e.key
  BY <1>1, <1>2 DEF QueueFacts, Key
<1> SUFFICES PassedOn \/ LineEnded \/ TurnEnded
  BY <1>4
<1>5. ASSUME pc' \in Exam, UNCHANGED <<i, len, command>> PROVE PassedOn
  <2>1. Queue' = Queue
    BY <1>1, <1>2, <1>3, <1>5 DEF QueueFacts, ring_vars
  <2> QED BY <1>5, <2>1 DEF Line, PassedOn
<1>6. CASE TestNewLine /\ kbdus[Key] = NewLine
  <2>1. pc' = "return" /\ UNCHANGED <<len, command>>
    BY <1>6 DEF TestNewLine, LeaveScan
  <2> QED BY <1>4, <1>6, <2>1 DEF Line, LineEnded
<1>7. ASSUME pc' = "for", kbdus[Key] # NewLine, Line' = LineAfter(e) PROVE TurnEnded
  <2>1. Queue' = Tail(Queue)
    BY <1>1, <1>3, <1>4, <1>7 DEF QueueFacts, Exam
  <2> QED BY <1>4, <1>7, <2>1 DEF TurnEnded
<1>8. CASE TestBackSpace /\ kbdus[Key] = BackSpace
  <2>1. /\ pc' = "for" /\ len' = IF len > 0 THEN len - 1 ELSE len
        /\ command' = command
    BY <1>8 DEF TestBackSpace, NextTurn
  <2>2. kbdus[Key] # NewLine
    BY <1>8 DEF BackSpace, NewLine
  <2>3. LineAfter(e) = IF Line = <<>> THEN Line ELSE SubSeq(Line, 1, Len(Line) - 1)
    <3>1. kbdus[e.key] = BackSpace
      BY <1>4, <1>8
    <3> QED BY <3>1, Zenon DEF LineAfter, BackSpace, Nul
  <2>4. Line' = LineAfter(e)
    <3>1. CASE len = 0
      <4>1. Line = <<>>
        BY <1>1, <3>1 DEF LineFacts
      <4>2. Line' = Line
        BY <2>1, <3>1 DEF Line
      <4> QED BY <2>3, <4>1, <4>2
    <3>2. CASE len > 0
      <4>1. Line # <<>> /\ len' = len - 1
        BY <1>1, <2>1, <3>2 DEF LineFacts
      <4>2. Line' = [b \in 1 .. len - 1 |-> Line[b]]
        BY <1>1, <2>1, <4>1 DEF Line, LineFacts
      <4>3. SubSeq(Line, 1, len - 1) = [b \in 1 .. len - 1 |-> Line[b]]
        BY <1>1 DEF LineFacts
      <4> QED BY <1>1, <2>3, <4>1, <4>2, <4>3 DEF LineFacts
    <3> QED BY <1>1, <3>1, <3>2 DEF LineFacts
  <2> QED BY <1>7, <2>1, <2>2, <2>4
<1>9. CASE TestZero /\ (kbdus[Key] = Nul \/ len - 1 = capacity)
  <2>1. pc = "zero?" /\ pc' = "for" /\ UNCHANGED <<len, command>>
    BY <1>9 DEF TestZero, NextTurn
  <2>2. kbdus[Key] # NewLine /\ kbdus[Key] # BackSpace
    BY <2>1 DEF IInv, SlotStays, Exam
  <2>3. kbdus[Key] = Nul \/ ~(len < capacity + 1)
    BY <1>1, <1>9, CapacityAssumption DEF LineFacts
  <2>4. LineAfter(e) = Line /\ Line' = Line
    BY <1>1, <1>4, <2>1, <2>2, <2>3 DEF LineAfter, LineFacts, Line
  <2> QED BY <1>7, <2>1, <2>2, <2>4
<1>10. CASE StoreCharacter
  <2> DEFINE c == IF pc = "shift_char" THEN shift_kbdus[Key] ELSE kbdus[Key]
  <2>1. /\ pc \in {"shift_char", "char"} /\ pc' = "for" /\ len' = len + 1
        /\ command' = [command EXCEPT ![len] = c]
    BY <1>10 DEF StoreCharacter, Stored, NextTurn
  <2>2. /\ kbdus[Key] # NewLine /\ kbdus[Key] # BackSpace /\ kbdus[Key] # Nul
        /\ c = Character(e)
    BY <1>4, <2>1 DEF IInv, SlotStays, Exam, Character
  <2>3. len <= capacity /\ len \in Nat /\ len \in Bytes
    BY <1>1, <2>1 DEF IInv, LengthBound, LineFacts, TypeOK
  <2>4. LineAfter(e) = Append(Line, c)
    BY <1>1, <1>4, <2>2, <2>3, CapacityAssumption DEF LineAfter, LineFacts
  <2>5. c \in Characters
    <3>1. Key \in Keys
      BY <1>1 DEF TypeOK, Entries, Key
    <3> QED BY <3>1, TableTypes
  <2> HIDE DEF c
  <2>6. Line' = Append(Line, c)
    <3>1. \A b \in 1 .. len : b - 1 \in Bytes /\ b - 1 # len
      BY <2>3, CapacityAssumption DEF Bytes
    <3>2. \A b \in 1 .. len : command'[b - 1] = Line[b]
      BY <1>1, <2>1, <3>1 DEF TypeOK, Line
    <3>3. command'[len] = c
      BY <1>1, <2>1, <2>3 DEF TypeOK
    <3>4. \A b \in 1 .. len + 1 : command'[b - 1] = IF b <= len THEN Line[b] ELSE c
      BY <2>3, <3>2, <3>3
    <3>5. Line' = [b \in 1 .. len + 1 |-> IF b <= len THEN Line[b] ELSE c]
      BY <2>1, <3>4 DEF Line
    <3>6. Append(Line, c) = [b \in 1 .. len + 1 |-> IF b <= len THEN Line[b] ELSE c]
      <4>1. /\ Append(Line, c) \in Seq(Characters) /\ Len(Append(Line, c)) = len + 1
            /\ \A b \in 1 .. len : Append(Line, c)[b] = Line[b]
            /\ Append(Line, c)[len + 1] = c
        BY <1>1, <2>5, AppendProperties DEF LineFacts
      <4>2. \A b \in 1 .. len + 1 : Append(Line, c)[b] = IF b <= len THEN Line[b] ELSE c
        BY <2>3, <4>1
      <4>3. Append(Line, c) \in [1 .. len + 1 -> Characters]
        BY <4>1, LenProperties
      <4> QED BY <4>2, <4>3
    <3> QED BY <3>5, <3>6
  <2> QED BY <1>7, <2>1, <2>2, <2>4, <2>6
<1>11. CASE TestBit
  BY <1>5, <1>11 DEF TestBit, Goto, Exam
<1> QED BY <1>5, <1>6, <1>8, <1>9, <1>10, <1>11
        DEF TestNewLine, TestBackSpace, TestZero, LeaveScan, NextTurn, Exam

LEMMA TestsSimulated ==
  ASSUME IInv, IInv', TestNewLine \/ TestBackSpace \/ TestZero \/ TestBit \/ StoreCharacter
  PROVE  Simulated
<1>1. pc \in Exam /\ overrun' = overrun /\ pc' \in Reading \cup {"return"}
  BY DEF TestNewLine, TestBackSpace, TestZero, TestBit, StoreCharacter, NextTurn, LeaveScan,
         Goto, Reading, Exam
<1>2. CASE overrun
  <2>1. Status = "spoiled" /\ Status' = "spoiled"
    BY <1>1, <1>2 DEF Status, Reading
  <2> QED BY <2>1, NothingSeen
<1>3. CASE ~overrun
  <2>1. Queue \in Seq(Entries) /\ Queue # <<>> /\ (PassedOn \/ LineEnded \/ TurnEnded)
    BY <1>3, TestsDecide
  <2>2. Status = "reading" /\ (pc' # "return" => Status' = "reading")
        /\ (pc' = "return" => Status' = "returned")
    BY <1>1, <1>3 DEF Status, Reading, Exam
  <2>3. CASE PassedOn
    BY <2>2, <2>3, Stutters DEF PassedOn, Simulated, Exam
  <2>4. CASE LineEnded
    BY <2>1, <2>2, <2>4, TakesEnter DEF LineEnded, Simulated, LR!Next
  <2>5. CASE TurnEnded
    BY <2>1, <2>2, <2>5, Takes DEF TurnEnded, Simulated, LR!Next
  <2> QED BY <2>1, <2>3, <2>4, <2>5
<1> QED BY <1>2, <1>3

LEMMA StepSimulated == IInv /\ IInv' /\ Ready /\ [Next]_vars => [LR!Next]_LR!lr_vars
<1> SUFFICES ASSUME IInv, IInv', Ready, [Next]_vars PROVE Simulated
  BY DEF Simulated
<1>1. CASE UNCHANGED vars
  <2>1. Status' = Status /\ Queue' = Queue /\ Line' = Line
    BY <1>1 DEF vars, ring_vars, Status, Queue, Waiting, Line
  <2> QED BY <2>1, Stutters DEF Simulated
<1>2. CASE Next
  BY <1>2, InterruptSimulated, AroundSimulated, LoopSimulated, TakeSlotSimulated, TestsSimulated
     DEF Next, KernelThread, kgetline
<1> QED BY <1>1, <1>2

LEMMA InitSimulated == Init => LR!Init
  BY DEF Init, LR!Init, Status, Reading, Exam

\* kgetline implements LineReader, whatever the interleaving with the interrupt
\* handler: no key is taken twice, skipped or taken out of order, and none is lost
\* while a line is read unless CAP - 1 are already waiting.
THEOREM ImplementsLineReader == Spec => ReadsLines
<1>1. Spec => []Ready
  BY InitInvariant, NextInvariant, ReadyInit, ReadyNext, PTL DEF Spec
<1> QED BY <1>1, Invariant, InitSimulated, StepSimulated, PTL DEF Spec, ReadsLines, LR!Spec

=============================================================================
