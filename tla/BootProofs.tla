----------------------------- MODULE BootProofs -----------------------------
(* Proofs about Boot, for every length of the loader and of the kernel,     *)
(* every number of failing reads and every set of lines in use.             *)
EXTENDS Boot, TLAPS

Loading == {"boot", "load", "lost"}
Running == {"keyboard", "commands", "jingle", "shell"}

\* Interrupts come only once everything has been set up, and a handler runs with
\* interrupts off, to its end.
Quiet ==
  /\ pc \notin Running => ~interrupts /\ handler = "none"
  /\ handler = "none" <=> at = "none"
  /\ at = "acknowledge" => handler = "keyboard"
  /\ handler # "crash"

\* The gates that have been set, in the order of Gates.
GatesSet ==
  \A m \in 1 .. 3 :
    pc \notin Loading /\ (pc = "gates" => m < n) =>
      /\ Gates[m].vector \in DOMAIN gates
      /\ gates[Gates[m].vector] = Gates[m].calls

\* The next word each of the controllers expects.
Expected ==
  CASE pc # "remap" \/ n \in {1, 9} -> <<"ocw", "ocw">>
    [] pc = "remap" /\ n = 2 -> <<"vector", "ocw">>
    [] pc = "remap" /\ n = 3 -> <<"vector", "vector">>
    [] pc = "remap" /\ n = 4 -> <<"cascade", "vector">>
    [] pc = "remap" /\ n = 5 -> <<"cascade", "cascade">>
    [] pc = "remap" /\ n = 6 -> <<"mode", "cascade">>
    [] pc = "remap" /\ n = 7 -> <<"mode", "mode">>
    [] pc = "remap" /\ n = 8 -> <<"ocw", "mode">>

InSequence == pic["master"].next = Expected[1] /\ pic["slave"].next = Expected[2]

\* What has been programmed by the time interrupts are let through.
Programmed ==
  /\ pc \in {"mask", "sti"} \cup Running \/ (pc = "remap" /\ n >= 4) =>
       pic["master"].base = 32
  /\ pc \in {"sti"} \cup Running =>
       pic["master"].mask = Lines \ {Timer, Keyboard} /\ pic["slave"].mask = Lines
  /\ pc \notin Loading \cup {"gates"} => idt_loaded

CounterOK ==
  /\ pc = "load" => n <= Len(Reads) + 1
  /\ pc = "gates" => n <= 4
  /\ pc = "remap" => n <= 9
  /\ pc = "keyboard" => n <= 3
  /\ pc = "commands" => n <= 7

IInv ==
  TypeOK /\ CounterOK /\ Quiet /\ GatesSet /\ InSequence /\ Programmed /\ ServiceMatches

-----------------------------------------------------------------------------
LEMMA Initially == Init => IInv
<1> SUFFICES ASSUME Init PROVE IInv
  OBVIOUS
<1>1. /\ pc = "boot" /\ n = 1 /\ ~interrupts /\ handler = "none" /\ at = "none"
      /\ DOMAIN gates = {}
  BY DEF Init
<1>2. PICK masked \in SUBSET IRQs :
        pic = [c \in Chips |-> [next |-> "ocw", base |-> BiosBase[c],
                               mask |-> masked, request |-> {}, service |-> {}]]
  BY DEF Init
<1>3. /\ pic["master"].next = "ocw" /\ pic["slave"].next = "ocw"
      /\ pic["master"].service = {} /\ pic["slave"].service = {}
  BY <1>2 DEF Chips
<1>4. pic \in [Chips -> Chip]
  <2>1. masked \in SUBSET Lines
    BY DEF Lines
  <2>2. \A c \in Chips : BiosBase[c] \in {8, 112}
    BY DEF BiosBase
  <2> QED BY <1>2, <2>1, <2>2 DEF Chip
<1>5. TypeOK
  <2>1. ram \in [Area -> Nat \cup {Unread}] /\ masks \in [Chips -> SUBSET Lines]
    BY DEF Init
  <2>2. errors \in 0 .. MaxErrors /\ {idt_loaded, interrupts, full} \subseteq BOOLEAN
    <3>1. errors = 0 /\ idt_loaded = FALSE /\ interrupts = FALSE /\ full = FALSE
      BY DEF Init
    <3>2. 0 \in 0 .. MaxErrors
      BY ErrorsAssumption
    <3> QED BY <3>1, <3>2, Zenon
  <2> QED BY <1>1, <1>4, <2>1, <2>2 DEF Init, TypeOK
<1> QED BY <1>1, <1>3, <1>5 DEF IInv, CounterOK, Quiet, GatesSet, InSequence, Expected,
                               Programmed, Running, Loading, ServiceMatches

-----------------------------------------------------------------------------
(* The devices and the handlers. *)

LEMMA RequestKeeps == ASSUME IInv, NEW q \in IRQs, DeviceRequests(q) PROVE IInv'
<1>1. /\ UNCHANGED <<load_vars, pc, n, cpu_vars, masks>>
      /\ full' \in BOOLEAN
  BY DEF DeviceRequests, IInv, TypeOK
<1>2. pic' = [pic EXCEPT ![ChipOf(q)].request = @ \cup {q}] /\ pic \in [Chips -> Chip]
  BY DEF DeviceRequests, IInv, TypeOK
<1>3. pic' \in [Chips -> Chip] /\
      \A c \in Chips : /\ pic'[c].next = pic[c].next /\ pic'[c].base = pic[c].base
                       /\ pic'[c].mask = pic[c].mask /\ pic'[c].service = pic[c].service
  BY <1>2 DEF Chip, ChipOf, Chips
<1> QED BY <1>1, <1>3 DEF IInv, TypeOK, CounterOK, Quiet, GatesSet, InSequence, Expected,
                         Programmed, ServiceMatches, load_vars, cpu_vars, Chips, Reads

LEMMA AcceptKeeps == ASSUME IInv, NEW q \in IRQs, Accept(q) PROVE IInv'
<1>1. interrupts /\ handler = "none" /\ Requested(q) /\ pc \in Running
  BY DEF Accept, IInv, Quiet
<1>2. q \in {Timer, Keyboard}
  <2>1. q \in Lines /\ q \in 0 .. 15 /\ q \notin pic[ChipOf(q)].mask
    BY <1>1, IRQAssumption DEF Requested, Lines
  <2> QED BY <1>1, <2>1 DEF IInv, Programmed, ChipOf
<1>3. /\ Vector(q) = IF q = Timer THEN 32 ELSE 33
      /\ ChipOf(q) = "master"
  BY <1>1, <1>2 DEF Vector, ChipOf, IInv, Programmed, Timer, Keyboard
<1>4. handler' = (IF q = Timer THEN "timer" ELSE "keyboard") /\ at' = "start" /\ ~interrupts'
      /\ interrupts' \in BOOLEAN
  <2>1. /\ idt_loaded /\ 32 \in DOMAIN gates /\ gates[32] = "timer"
        /\ 33 \in DOMAIN gates /\ gates[33] = "keyboard"
    <3>1. pc \notin Loading \cup {"gates"}
      BY <1>1 DEF Running, Loading
    <3>2. \A m \in 1 .. 3 : Gates[m].vector \in DOMAIN gates
                              /\ gates[Gates[m].vector] = Gates[m].calls
      BY <3>1 DEF IInv, GatesSet
    <3>3. Gates[1] = [vector |-> 32, calls |-> "timer"]
          /\ Gates[2] = [vector |-> 33, calls |-> "keyboard"]
      BY DEF Gates
    <3>4. 1 \in 1 .. 3 /\ 2 \in 1 .. 3
      OBVIOUS
    <3> QED BY <3>1, <3>2, <3>3, <3>4 DEF IInv, Programmed
  <2> QED BY <1>2, <1>3, <2>1 DEF Accept, Enter
<1>5. pic \in [Chips -> Chip]
      /\ pic' = [pic EXCEPT !["master"].request = @ \ {q}, !["master"].service = @ \cup {q}]
  BY <1>3 DEF Accept, IInv, TypeOK
<1>6. pic' \in [Chips -> Chip] /\ pic'["master"].service = pic["master"].service \cup {q}
      /\ pic'["slave"].service = pic["slave"].service
      /\ \A c \in Chips : /\ pic'[c].next = pic[c].next /\ pic'[c].base = pic[c].base
                           /\ pic'[c].mask = pic[c].mask
  <2> DEFINE b == pic["master"]
             m == [next |-> b.next, base |-> b.base, mask |-> b.mask,
                   request |-> b.request \ {q}, service |-> b.service \cup {q}]
  <2>1. b \in Chip /\ pic["slave"] \in Chip /\ DOMAIN pic = Chips
    BY <1>5 DEF Chips
  <2>2. m \in Chip
    <3>1. b.service \cup {q} \in SUBSET IRQs /\ b.request \ {q} \in SUBSET IRQs
      BY <2>1 DEF Chip
    <3> QED BY <2>1, <3>1 DEF Chip
  <2>3. DOMAIN pic' = Chips /\ pic' = [c \in DOMAIN pic' |-> pic'[c]]
    BY <1>5, <2>1
  <2>4. pic'["slave"] = pic["slave"]
    BY <1>5, <2>1 DEF Chips
  <2>5. pic'["master"] = m
    BY <1>5, <2>1 DEF Chips, Chip
  <2>6. pic' \in [Chips -> Chip]
    BY <2>1, <2>2, <2>3, <2>4, <2>5 DEF Chips
  <2> QED BY <2>2, <2>4, <2>5, <2>6 DEF Chips
<1>7. pic["master"].service = {} /\ pic["slave"].service = {}
  BY <1>1 DEF IInv, ServiceMatches
<1>8. UNCHANGED <<CHS_LOAD, dma, ram, errors, pc, n, gates, idt_loaded, masks, full>>
  BY DEF Accept, load_vars
<1>9. ServiceMatches'
  BY <1>2, <1>4, <1>6, <1>7 DEF ServiceMatches, Timer, Keyboard
<1>10. TypeOK'
  BY <1>4, <1>6, <1>8 DEF IInv, TypeOK
<1>11. Quiet' /\ CounterOK' /\ GatesSet'
  BY <1>1, <1>4, <1>8 DEF IInv, Quiet, CounterOK, GatesSet, Reads
<1>12. InSequence' /\ Programmed'
  BY <1>6, <1>8 DEF IInv, InSequence, Expected, Programmed, Chips
<1> QED BY <1>9, <1>10, <1>11, <1>12 DEF IInv

LEMMA Acknowledged ==
  ASSUME IInv, PIC_sendEOI, handler \in {"timer", "keyboard"}, at \in {"start", "acknowledge"}
  PROVE  /\ pic' \in [Chips -> Chip]
         /\ pic'["master"].service = {} /\ pic'["slave"].service = {}
         /\ \A c \in Chips : /\ pic'[c].next = pic[c].next /\ pic'[c].base = pic[c].base
                              /\ pic'[c].mask = pic[c].mask
<1>1. pic \in [Chips -> Chip]
  BY DEF IInv, TypeOK
<1>2. pic["slave"].service = {} /\ pic["master"].service \in {{Timer}, {Keyboard}}
  BY DEF IInv, ServiceMatches, Quiet
<1>3. pic["master"].service \ {q \in pic["master"].service :
                               \A p \in pic["master"].service : q <= p} = {}
  BY <1>2 DEF Timer, Keyboard
<1>4. pic' = [pic EXCEPT !["master"].service =
                pic["master"].service \ {q \in pic["master"].service :
                                        \A p \in pic["master"].service : q <= p}]
  BY DEF PIC_sendEOI
<1>5. pic' = [pic EXCEPT !["master"].service = {}]
  BY <1>3, <1>4
<1> QED BY <1>1, <1>2, <1>5 DEF Chip, Chips

LEMMA HandlersKeep == ASSUME IInv, Handlers PROVE IInv'
<1>1. UNCHANGED handler_vars
  BY DEF Handlers, interrupt_timer_handler, ReadScancode, AcknowledgeKeyboard,
         interrupt_syscall_handler, ReturnFromInterrupt
<1>2. UNCHANGED <<pc, n, gates, idt_loaded, masks, CHS_LOAD, dma, ram, errors>>
  BY <1>1 DEF handler_vars, load_vars
<1>3. CounterOK' /\ GatesSet'
  BY <1>2 DEF IInv, CounterOK, GatesSet, Reads
<1>4. at # "none" /\ handler # "none" /\ pc \in Running /\ ~interrupts
  BY DEF IInv, Quiet, ServiceMatches, Handlers, interrupt_timer_handler, ReadScancode,
         AcknowledgeKeyboard, interrupt_syscall_handler, ReturnFromInterrupt
<1>5. CASE interrupt_timer_handler \/ AcknowledgeKeyboard
  <2>1. PIC_sendEOI /\ handler \in {"timer", "keyboard"} /\ at \in {"start", "acknowledge"}
        /\ at' = "iret" /\ UNCHANGED <<interrupts, handler, full>>
    BY <1>5 DEF interrupt_timer_handler, AcknowledgeKeyboard
  <2>2. TypeOK' /\ InSequence' /\ Programmed' /\ ServiceMatches'
    BY <1>2, <1>4, <2>1, Acknowledged
       DEF IInv, TypeOK, InSequence, Expected, Programmed, ServiceMatches, Chips
  <2>3. Quiet'
    BY <1>2, <1>4, <2>1 DEF Quiet
  <2> QED BY <1>3, <2>2, <2>3 DEF IInv
<1>6. CASE ReadScancode \/ interrupt_syscall_handler
  <2>1. /\ handler \in {"keyboard", "syscall"} /\ at = "start"
        /\ at' = IF handler = "keyboard" THEN "acknowledge" ELSE "iret"
        /\ UNCHANGED <<interrupts, handler, pic>> /\ full' \in BOOLEAN
    BY <1>6 DEF ReadScancode, interrupt_syscall_handler, IInv, TypeOK
  <2>2. TypeOK' /\ InSequence' /\ Programmed' /\ ServiceMatches'
    BY <1>2, <1>4, <2>1 DEF IInv, TypeOK, InSequence, Expected, Programmed, ServiceMatches
  <2>3. Quiet'
    BY <1>2, <1>4, <2>1 DEF Quiet
  <2> QED BY <1>3, <2>2, <2>3 DEF IInv
<1>7. CASE ReturnFromInterrupt
  <2>1. at = "iret" /\ handler' = "none" /\ at' = "none" /\ interrupts' = TRUE
        /\ UNCHANGED <<pic, full>>
    BY <1>7 DEF ReturnFromInterrupt
  <2>2. TypeOK' /\ InSequence' /\ Programmed' /\ ServiceMatches'
    BY <1>2, <1>4, <2>1 DEF IInv, TypeOK, InSequence, Expected, Programmed, ServiceMatches
  <2>3. Quiet'
    BY <1>2, <1>4, <2>1 DEF Quiet
  <2> QED BY <1>3, <2>2, <2>3 DEF IInv
<1> QED BY <1>5, <1>6, <1>7 DEF Handlers

-----------------------------------------------------------------------------
(* The loader's reads. *)

LEMMA NineSectors == FirstSector = 9
<1>1. pad(LoaderBytes, 4096) = IF LoaderBytes < 4096 THEN 4096 ELSE LoaderBytes
  BY SMT DEF pad
<1>2. pad(LoaderBytes, 4096) = 4096
  BY <1>1, ImageAssumption
<1>3. (512 + 4096) \div 512 = 9
  OBVIOUS
<1> QED BY <1>2, <1>3 DEF FirstSector

Span(r) == Place(r) .. Place(r) + r.count - 1

LEMMA KernelSectorsType == KernelSectors \in Int
<1>1. ((9 * 512 + KernelBytes + 511) \div 512) * 512 \in Int
  BY ImageAssumption
<1>2. pad(9 * 512 + KernelBytes, -1) = ((9 * 512 + KernelBytes + 511) \div 512) * 512
  BY DEF pad
<1> QED BY <1>1, <1>2, NineSectors DEF KernelSectors

\* The reads follow one another without a gap, and these cross a boundary.
LEMMA HardDiskTable ==
  \A m \in 1 .. 4 : LET r == HardDiskReads[m]
                   IN  /\ Place(r) = CASE m = 1 -> 0 [] m = 2 -> 54 [] m = 3 -> 117 [] m = 4 -> 180
                       /\ r.count = CASE m = 1 -> 54 [] m = 4 -> 24 [] OTHER -> 63
                       /\ (r.cylinder * 16 + r.head) * 63 + r.sector - 1
                            = CASE m = 1 -> 9 [] m = 2 -> 63 [] OTHER -> 126
                       /\ Crosses(r) <=> m \in {2, 4}
  BY DEF HardDiskReads, Read, Place, Crosses

LEMMA FloppyTable ==
  \A m \in 1 .. 10 : LET r == FloppyReads[m]
                    IN  /\ Place(r) = IF m = 1 THEN 0 ELSE 18 * m - 27
                        /\ r.count = IF m = 1 THEN 9 ELSE 18
                        /\ (r.cylinder * 2 + r.head) * 18 + r.sector - 1
                             = IF m = 1 THEN 9 ELSE 18 * m - 18
                        /\ Crosses(r) <=> m = 4
  BY DEF FloppyReads, Read, Place, Crosses

LEMMA LoadableIs ==
  ASSUME CHS_LOAD \in BOOLEAN, dma \in BOOLEAN
  PROVE  /\ Loadable \in {45, 54, 171, 180}
         /\ Loadable = IF CHS_LOAD THEN (IF dma THEN 45 ELSE 171) ELSE (IF dma THEN 54 ELSE 180)
  BY DEF Loadable

\* A read puts the sectors that it should at their places, but for the last from a
\* hard disk; none puts the sector after the last loadable one there.
LEMMA ReadsFit ==
  ASSUME CHS_LOAD \in BOOLEAN, dma \in BOOLEAN, NEW m \in 1 .. Len(Reads)
  PROVE  /\ Place(Reads[m]) \in 0 .. 180 /\ Reads[m].count \in 1 .. 63
         /\ Logical(Reads[m]) \in Nat
         /\ Place(Reads[m]) < 180 => Logical(Reads[m]) = 9 + Place(Reads[m])
         /\ \/ Refused(Reads[m])
            \/ Loadable \notin Span(Reads[m])
            \/ Logical(Reads[m]) # 9 + Place(Reads[m])
<1>1. CASE CHS_LOAD
  <2>1. Reads = FloppyReads /\ Len(FloppyReads) = 10
    BY <1>1 DEF Reads, FloppyReads
  <2>2. m \in 1 .. 10
    BY <2>1
  <2>3. Loadable \in Span(FloppyReads[m]) => m = 4 /\ dma
    <3> DEFINE p == Place(FloppyReads[m])
               c == FloppyReads[m].count
    <3>1. p = (IF m = 1 THEN 0 ELSE 18 * m - 27) /\ c = IF m = 1 THEN 9 ELSE 18
      BY <2>2, FloppyTable
    <3>2. Loadable = (IF dma THEN 45 ELSE 171) /\ Span(FloppyReads[m]) = p .. p + c - 1
      BY <1>1, LoadableIs DEF Span
    <3> HIDE DEF p, c
    <3> QED BY <2>2, <3>1, <3>2
  <2>4. m = 4 /\ dma => Refused(FloppyReads[m])
    BY <2>2, FloppyTable DEF Refused
  <2> QED BY <1>1, <2>1, <2>2, <2>3, <2>4, FloppyTable DEF Logical
<1>2. CASE ~CHS_LOAD
  <2>1. Reads = HardDiskReads /\ Len(HardDiskReads) = 4
    BY <1>2 DEF Reads, HardDiskReads
  <2>2. m \in 1 .. 4
    BY <2>1
  <2>3. Loadable \in Span(HardDiskReads[m]) => (m = 2 /\ dma) \/ m = 4
    BY <1>2, <2>2, HardDiskTable, LoadableIs DEF Span
  <2>4. m = 2 /\ dma => Refused(HardDiskReads[m])
    BY <2>2, HardDiskTable DEF Refused
  <2> QED BY <1>2, <2>1, <2>2, <2>3, <2>4, HardDiskTable DEF Logical
<1> QED BY <1>1, <1>2

LEMMA LoaderFits ==
  ASSUME CHS_LOAD \in BOOLEAN
  PROVE  /\ Place(LoaderRead) = -8 /\ LoaderRead.count = 8 /\ Logical(LoaderRead) = 1
         /\ ~Refused(LoaderRead) /\ Span(LoaderRead) = -8 .. -1
<1>1. Place(LoaderRead) = -8 /\ LoaderRead.count = 8 /\ Logical(LoaderRead) = 1
  BY DEF LoaderRead, Read, Place, Logical
<1>2. ~Crosses(LoaderRead)
  BY DEF LoaderRead, Read, Crosses
<1> QED BY <1>1, <1>2 DEF Refused, Span

\* Up to Loadable, no gap is left by the reads that are not refused.
LEMMA ReadsCover ==
  ASSUME CHS_LOAD \in BOOLEAN, dma \in BOOLEAN, NEW k \in 0 .. Loadable - 1
  PROVE  \E m \in 1 .. Len(Reads) : ~Refused(Reads[m]) /\ k \in Span(Reads[m])
<1>1. CASE CHS_LOAD
  <2>1. Reads = FloppyReads /\ Len(FloppyReads) = 10 /\ Loadable = IF dma THEN 45 ELSE 171
    BY <1>1, LoadableIs DEF Reads, FloppyReads
  <2> DEFINE m == IF k < 9 THEN 1 ELSE (k - 9) \div 18 + 2
  <2>2. m \in 1 .. 10 /\ k \in (IF m = 1 THEN 0 ELSE 18 * m - 27) ..
                               (IF m = 1 THEN 0 ELSE 18 * m - 27) + (IF m = 1 THEN 9 ELSE 18) - 1
        /\ (m = 4 => ~dma)
    BY <2>1
  <2> HIDE DEF m
  <2>3. k \in Span(FloppyReads[m]) /\ ~Refused(FloppyReads[m])
    BY <2>2, FloppyTable DEF Span, Refused
  <2> QED BY <2>1, <2>2, <2>3
<1>2. CASE ~CHS_LOAD
  <2>1. Reads = HardDiskReads /\ Len(HardDiskReads) = 4 /\ Loadable = IF dma THEN 54 ELSE 180
    BY <1>2, LoadableIs DEF Reads, HardDiskReads
  <2> DEFINE m == IF k < 54 THEN 1 ELSE IF k < 117 THEN 2 ELSE 3
  <2>2. m \in 1 .. 4 /\ (m = 2 => ~dma) /\ m # 4
    BY <2>1
  <2>3. k \in Span(HardDiskReads[m]) /\ ~Refused(HardDiskReads[m])
    BY <2>1, <2>2, HardDiskTable DEF Span, Refused
  <2> QED BY <2>1, <2>2, <2>3
<1> QED BY <1>1, <1>2

\* What the reads made so far have put in place.
Placed ==
  /\ \A k \in -8 .. 179 : ram[k] \in {Unread, 9 + k}
  /\ ram[Loadable] # 9 + Loadable
  /\ pc = "load" => \A k \in -8 .. -1 : ram[k] = 9 + k
  /\ pc = "load" /\ errors = 0 =>
       \A m \in 1 .. Len(Reads) :
         ~Refused(Reads[m]) /\ m < n =>
           \A k \in Span(Reads[m]) : k < 180 => ram[k] = 9 + k
  /\ pc = "lost" => errors > 0 \/ KernelSectors > Loadable

LEMMA TransferTyped ==
  ASSUME ram \in [Area -> Nat \cup {Unread}], NEW r, Place(r) \in Int, Logical(r) \in Nat,
         NEW m \in Nat
  PROVE  Transfer(r, m) \in [Area -> Nat \cup {Unread}]
<1>1. \A k \in Area : k \in Int
  BY DEF Area
<1>2. \A k \in Area : k - Place(r) \in 0 .. m - 1 => Logical(r) + (k - Place(r)) \in Nat
  BY <1>1
<1> QED BY <1>2 DEF Transfer

\* A read changes its own place only, and a read that succeeds fills it.
LEMMA DiskCalled ==
  ASSUME ram \in [Area -> Nat \cup {Unread}], errors \in 0 .. MaxErrors,
         NEW r, Place(r) \in Int, Logical(r) \in Nat, r.count \in Nat, r.count >= 1,
         CallDisk(r)
  PROVE  /\ ram' \in [Area -> Nat \cup {Unread}] /\ errors' \in 0 .. MaxErrors
         /\ errors' = 0 => errors = 0
         /\ \A k \in Area :
              \/ ram'[k] = ram[k]
              \/ ~Refused(r) /\ k \in Span(r) /\ ram'[k] = Logical(r) + (k - Place(r))
         /\ errors' = 0 /\ ~Refused(r) =>
              \A k \in Area : k \in Span(r) => ram'[k] = Logical(r) + (k - Place(r))
<1>1. CASE Refused(r)
  BY <1>1 DEF CallDisk
<1>2. CASE ~Refused(r)
  <2> DEFINE p == Place(r)
             c == r.count
             l == Logical(r)
  <2>1. PICK m \in {0, 1, c} : /\ m < c => errors < MaxErrors
                               /\ errors' = IF m < c THEN errors + 1 ELSE errors
                               /\ ram' = Transfer(r, m)
    BY <1>2 DEF CallDisk
  <2>2. \A k \in Area : k \in Int
    BY DEF Area
  <2>3. Span(r) = p .. p + c - 1 /\ p \in Int /\ c \in Nat /\ l \in Nat /\ c >= 1
    BY DEF Span
  <2>4. \A k \in Area : ram'[k] = IF k - p \in 0 .. m - 1 THEN l + (k - p) ELSE ram[k]
    BY <2>1 DEF Transfer
  <2>5. m \in Nat
    BY <2>1, <2>3
  <2>6. ram' \in [Area -> Nat \cup {Unread}]
    BY <2>1, <2>3, <2>5, TransferTyped
  <2>7. /\ m \in {0, 1, c} /\ (m < c => errors < MaxErrors)
        /\ errors' = IF m < c THEN errors + 1 ELSE errors
    BY <2>1
  <2> HIDE DEF p, c, l
  <2>8. errors' \in 0 .. MaxErrors /\ (errors' = 0 => errors = 0 /\ m = c)
    BY <2>3, <2>7, ErrorsAssumption
  <2>9. \A k \in Area : \/ ram'[k] = ram[k]
                        \/ k \in Span(r) /\ ram'[k] = l + (k - p)
    BY <2>2, <2>3, <2>4, <2>7
  <2>10. m = c => \A k \in Area : k \in Span(r) => ram'[k] = l + (k - p)
    BY <2>2, <2>3, <2>4
  <2> QED BY <1>2, <2>6, <2>8, <2>9, <2>10 DEF p, l
<1> QED BY <1>1, <1>2

-----------------------------------------------------------------------------
(* The thread. *)

LEMMA LoaderPlaces ==
  ASSUME IInv, Placed, LoadLoader
  PROVE  /\ ram' \in [Area -> Nat \cup {Unread}] /\ errors' \in 0 .. MaxErrors
         /\ Placed'
<1>1. /\ CHS_LOAD \in BOOLEAN /\ dma \in BOOLEAN /\ Loadable' = Loadable
      /\ ram \in [Area -> Nat \cup {Unread}] /\ errors \in 0 .. MaxErrors
      /\ KernelSectors' = KernelSectors
  BY DEF LoadLoader, IInv, TypeOK, Loadable
<1>2. CallDisk(LoaderRead) /\ pc' = (IF InPlace(0)' THEN "load" ELSE "lost") /\ n' = 1
  BY DEF LoadLoader, JumpTo
<1>3. /\ ram' \in [Area -> Nat \cup {Unread}] /\ errors' \in 0 .. MaxErrors
      /\ \A k \in Area : \/ ram'[k] = ram[k]
                         \/ k \in -8 .. -1 /\ ram'[k] = 1 + (k - (-8))
      /\ errors' = 0 => \A k \in Area : k \in -8 .. -1 => ram'[k] = 1 + (k - (-8))
  BY <1>1, <1>2, LoaderFits, DiskCalled
<1>4. \A k \in -8 .. 179 : ram'[k] \in {Unread, 9 + k}
  <2> TAKE k \in -8 .. 179
  <2>1. k \in Area /\ 1 + (k - (-8)) = 9 + k
    BY DEF Area
  <2> QED BY <1>3, <2>1 DEF Placed
<1>5. ram'[Loadable] # 9 + Loadable
  <2>1. Loadable \in Area /\ Loadable \notin -8 .. -1
    BY <1>1, LoadableIs DEF Area
  <2> QED BY <1>3, <2>1 DEF Placed
<1>6. InPlace(0)' <=> \A k \in -8 .. -1 : ram'[k] = 9 + k
  <2>1. \A k \in -8 .. 0 - 1 : k \in Area
    BY DEF Area
  <2> QED BY <2>1, NineSectors DEF InPlace
<1>7. errors' = 0 => InPlace(0)'
  BY <1>3, <1>6 DEF Area
<1>8. pc' = "lost" => errors' > 0
  BY <1>2, <1>3, <1>7, ErrorsAssumption
<1>9. pc' = "load" => \A k \in -8 .. -1 : ram'[k] = 9 + k
  BY <1>2, <1>6
<1>10. \A m \in 1 .. Len(Reads)' : ~(m < n')
  BY <1>2
<1> QED BY <1>1, <1>3, <1>4, <1>5, <1>8, <1>9, <1>10 DEF Placed

LEMMA SectorsPlaced ==
  ASSUME IInv, Placed, LoadSectors
  PROVE  /\ ram' \in [Area -> Nat \cup {Unread}] /\ errors' \in 0 .. MaxErrors
         /\ Placed'
<1>1. /\ CHS_LOAD \in BOOLEAN /\ dma \in BOOLEAN /\ Loadable' = Loadable /\ Reads' = Reads
      /\ ram \in [Area -> Nat \cup {Unread}] /\ errors \in 0 .. MaxErrors
      /\ n \in 1 .. Len(Reads) /\ pc = "load" /\ pc' = "load" /\ n' = n + 1 /\ dma' = dma
      /\ Len(Reads) \in Nat
  BY DEF LoadSectors, IInv, TypeOK, Loadable, Reads, HardDiskReads, FloppyReads
<1> DEFINE r == Reads[n]
           p == Place(r)
           c == r.count
           l == Logical(r)
<1>2. p \in 0 .. 180 /\ c \in 1 .. 63 /\ l \in Nat /\ (p < 180 => l = 9 + p)
      /\ (Refused(r) \/ Loadable \notin Span(r) \/ l # 9 + p)
  BY <1>1, ReadsFit
<1>3. CallDisk(r)
  BY DEF LoadSectors
<1> HIDE DEF r
<1>4. p \in Int /\ c \in Nat /\ c >= 1
  <2> HIDE DEF p, c
  <2> QED BY <1>2
<1>5. /\ ram' \in [Area -> Nat \cup {Unread}] /\ errors' \in 0 .. MaxErrors
      /\ errors' = 0 => errors = 0
      /\ \A k \in Area : \/ ram'[k] = ram[k]
                         \/ ~Refused(r) /\ k \in Span(r) /\ ram'[k] = l + (k - p)
      /\ errors' = 0 /\ ~Refused(r) =>
           \A k \in Area : k \in Span(r) => ram'[k] = l + (k - p)
  BY <1>1, <1>2, <1>3, <1>4, DiskCalled
<1>6. Span(r) = p .. p + c - 1
  BY DEF Span
<1> HIDE DEF p, c, l
<1>7. \A k \in Area : k < 180 /\ k \in Span(r) => l + (k - p) = 9 + k
  BY <1>2, <1>6 DEF Area
<1>8. \A k \in -8 .. 179 : ram'[k] \in {Unread, 9 + k}
  <2> TAKE k \in -8 .. 179
  <2>1. k \in Area /\ k < 180
    BY DEF Area
  <2> QED BY <1>5, <1>7, <2>1 DEF Placed
<1>9. ram'[Loadable] # 9 + Loadable
  <2>1. Loadable \in Area /\ Loadable \in Nat
    <3>1. Loadable \in {45, 54, 171, 180}
      BY <1>1, LoadableIs
    <3> QED BY <3>1 DEF Area
  <2>2. CASE ram'[Loadable] = ram[Loadable]
    BY <2>2 DEF Placed
  <2>3. CASE ~Refused(r) /\ Loadable \in Span(r) /\ ram'[Loadable] = l + (Loadable - p)
    <3>1. l # 9 + p
      BY <1>2, <2>3
    <3> QED BY <1>2, <2>1, <2>3, <3>1
  <2> QED BY <1>5, <2>1, <2>2, <2>3
<1>10. \A k \in -8 .. -1 : ram'[k] = 9 + k
  <2> TAKE k \in -8 .. -1
  <2>1. k \in Area /\ k \notin Span(r)
    BY <1>2, <1>6 DEF Area
  <2> QED BY <1>1, <1>5, <2>1 DEF Placed
<1>11. ASSUME errors' = 0, NEW m \in 1 .. Len(Reads), ~Refused(Reads[m]), m < n + 1,
              NEW k \in Span(Reads[m]), k < 180
       PROVE  ram'[k] = 9 + k
  <2>1. k \in Area
    <3> DEFINE q == Place(Reads[m])
               d == Reads[m].count
    <3>1. q \in 0 .. 180 /\ d \in 1 .. 63 /\ k \in q .. q + d - 1
      BY <1>1, <1>11, ReadsFit DEF Span
    <3> HIDE DEF q, d
    <3> QED BY <1>11, <3>1 DEF Area
  <2>2. CASE m = n
    BY <1>5, <1>7, <1>11, <2>1, <2>2 DEF r
  <2>3. CASE m # n
    <3>1. m < n
      BY <1>1, <1>11, <2>3
    <3>2. ram[k] = 9 + k
      BY <1>1, <1>5, <1>11, <3>1 DEF Placed
    <3> QED BY <1>5, <1>7, <1>11, <2>1, <3>2
  <2> QED BY <2>2, <2>3
<1>12. \A m : Refused(Reads[m])' = Refused(Reads[m]) /\ Span(Reads[m])' = Span(Reads[m])
  BY <1>1 DEF Refused, Span, Crosses, Place
<1>13. Placed'
  BY <1>1, <1>8, <1>9, <1>10, <1>11, <1>12 DEF Placed
<1> QED BY <1>5, <1>13

LEMMA LoadingKeeps ==
  ASSUME IInv, Placed, LoadLoader \/ LoadSectors
  PROVE  IInv' /\ Placed'
<1>1. /\ pc \in Loading /\ pc' \in {"load", "lost"} /\ n' \in 1 .. Len(Reads) + 1
      /\ UNCHANGED <<CHS_LOAD, dma, cpu_vars, pic, masks, full>>
  BY DEF LoadLoader, LoadSectors, JumpTo, Loading, IInv, TypeOK, Reads, HardDiskReads, FloppyReads
<1>2. UNCHANGED <<gates, idt_loaded, interrupts, handler, at>> /\ Len(Reads) \in {4, 10}
      /\ Reads' = Reads
  BY <1>1 DEF cpu_vars, Reads, HardDiskReads, FloppyReads
<1>3. TypeOK' /\ CounterOK'
  <2>1. n' \in 1 .. 11 /\ n' <= Len(Reads) + 1
    <3> DEFINE last == Len(Reads)
    <3>1. last \in {4, 10} /\ n' \in 1 .. last + 1
      BY <1>1, <1>2
    <3> HIDE DEF last
    <3>2. n' \in 1 .. 11 /\ n' <= last + 1
      BY <3>1
    <3> QED BY <3>2 DEF last
  <2>2. CounterOK'
    BY <1>1, <1>2, <2>1 DEF CounterOK
  <2>3. TypeOK'
    BY <1>1, <1>2, <2>1, LoaderPlaces, SectorsPlaced DEF IInv, TypeOK
  <2> QED BY <2>2, <2>3
<1>4. Quiet' /\ GatesSet' /\ InSequence' /\ Programmed' /\ ServiceMatches'
  BY <1>1, <1>2 DEF IInv, Quiet, GatesSet, InSequence, Expected, Programmed, ServiceMatches,
                    Loading, Running
<1> QED BY <1>3, <1>4, LoaderPlaces, SectorsPlaced DEF IInv

LEMMA GatesKeep == ASSUME IInv, EnterKernel \/ set_idt_entry \/ load_idt PROVE IInv'
<1>1. UNCHANGED <<CHS_LOAD, dma, ram, errors, interrupts, handler, at, pic, masks, full>>
      /\ pc \in {"load", "gates"} /\ pc' \in {"lost", "gates", "save"} /\ n \in Nat /\ n >= 1
      /\ Len(Gates) = 3
  BY DEF EnterKernel, JumpTo, set_idt_entry, load_idt, Goto, load_vars, cpu_vars, IInv, TypeOK,
         Gates
<1>2. /\ Gates[1] = [vector |-> 32, calls |-> "timer"]
      /\ Gates[2] = [vector |-> 33, calls |-> "keyboard"]
      /\ Gates[3] = [vector |-> 51, calls |-> "syscall"]
  BY DEF Gates
<1>3. InSequence' /\ Quiet' /\ ServiceMatches'
  BY <1>1 DEF IInv, InSequence, Expected, Quiet, Running, ServiceMatches
<1>4. CASE EnterKernel
  <2>1. n' = 1 /\ pc' \in {"gates", "lost"} /\ UNCHANGED <<gates, idt_loaded>>
    BY <1>4 DEF EnterKernel, JumpTo, cpu_vars
  <2>2. GatesSet'
    BY <2>1 DEF GatesSet, Loading
  <2>3. TypeOK' /\ CounterOK' /\ Programmed'
    BY <1>1, <2>1 DEF IInv, TypeOK, CounterOK, Programmed, Running, Loading
  <2> QED BY <1>3, <2>2, <2>3 DEF IInv
<1>5. CASE set_idt_entry
  <2>1. /\ pc = "gates" /\ pc' = "gates" /\ n \in 1 .. 3 /\ n' = n + 1 /\ idt_loaded' = idt_loaded
        /\ gates' = [v \in DOMAIN gates \cup {Gates[n].vector} |->
                       IF v = Gates[n].vector THEN Gates[n].calls ELSE gates[v]]
    BY <1>1, <1>5 DEF set_idt_entry
  <2>2. GatesSet'
    <3>1. SUFFICES ASSUME NEW m \in 1 .. 3, m < n + 1
                   PROVE  /\ Gates[m].vector \in DOMAIN gates'
                          /\ gates'[Gates[m].vector] = Gates[m].calls
      BY <2>1 DEF GatesSet
    <3>2. m # n => Gates[m].vector \in DOMAIN gates /\ gates[Gates[m].vector] = Gates[m].calls
      BY <2>1, <3>1 DEF IInv, GatesSet, Loading
    <3>3. m # n => Gates[m].vector # Gates[n].vector
      BY <1>2, <2>1
    <3> QED BY <2>1, <3>2, <3>3
  <2>3. Gates[n].vector \in {32, 33, 51} /\ Gates[n].calls \in {"timer", "keyboard", "syscall"}
    BY <1>2, <2>1
  <2>4. /\ DOMAIN gates' \subseteq {32, 33, 51}
        /\ \A v \in DOMAIN gates' : gates'[v] \in {"timer", "keyboard", "syscall"}
    <3>1. /\ DOMAIN gates \subseteq {32, 33, 51}
          /\ \A v \in DOMAIN gates : gates[v] \in {"timer", "keyboard", "syscall"}
      BY DEF IInv, TypeOK
    <3>2. DOMAIN gates' = DOMAIN gates \cup {Gates[n].vector}
      BY <2>1
    <3>3. \A v \in DOMAIN gates' : gates'[v] = IF v = Gates[n].vector THEN Gates[n].calls
                                                                    ELSE gates[v]
      BY <2>1, <3>2
    <3> DEFINE vector == Gates[n].vector
               calls == Gates[n].calls
    <3>4. /\ vector \in {32, 33, 51} /\ calls \in {"timer", "keyboard", "syscall"}
          /\ DOMAIN gates' = DOMAIN gates \cup {vector}
          /\ \A v \in DOMAIN gates' : gates'[v] = IF v = vector THEN calls ELSE gates[v]
      BY <2>3, <3>2, <3>3
    <3> HIDE DEF vector, calls
    <3> QED BY <3>1, <3>4, Zenon
  <2>5. pc = "gates" /\ pc' = "gates" /\ n \in 1 .. 3 /\ n' = n + 1 /\ idt_loaded' = idt_loaded
    BY <2>1
  <2>6. TypeOK'
    BY <1>1, <2>4, <2>5 DEF IInv, TypeOK
  <2>7. CounterOK' /\ Programmed'
    BY <1>1, <2>5 DEF CounterOK, Programmed, Running, Loading
  <2> QED BY <1>3, <2>2, <2>6, <2>7 DEF IInv
<1>6. CASE load_idt
  <2>1. /\ pc = "gates" /\ pc' = "save" /\ n' = 1 /\ n > 3 /\ idt_loaded' = TRUE /\ gates' = gates
    BY <1>1, <1>6 DEF load_idt, Goto
  <2>2. GatesSet'
    BY <2>1, <1>1 DEF IInv, GatesSet, Loading
  <2>3. TypeOK' /\ CounterOK' /\ Programmed'
    BY <1>1, <2>1 DEF IInv, TypeOK, CounterOK, Programmed, Running, Loading
  <2> QED BY <1>3, <2>2, <2>3 DEF IInv
<1> QED BY <1>4, <1>5, <1>6

LEMMA VectorWord ==
  ASSUME NEW chip \in Chip, NEW v \in {32, 40}, NEW word,
         word = [chip EXCEPT !.next = "cascade", !.base = v]
  PROVE  /\ word \in Chip /\ word.next = "cascade" /\ word.base = v
         /\ word.service = chip.service
<1>1. v \in {8, 32, 40, 112}
  OBVIOUS
<1> QED BY <1>1 DEF Chip

\* The words of an initialisation sequence, and the mask.
LEMMA InitWritten ==
  ASSUME NEW chip \in Chip
  PROVE  /\ BeginInit(chip) \in Chip /\ BeginInit(chip).next = "vector"
         /\ BeginInit(chip).service = {} /\ BeginInit(chip).base = chip.base
  BY DEF BeginInit, Chip

LEMMA VectorWritten ==
  ASSUME NEW chip \in Chip, chip.next = "vector", NEW v \in {32, 40}
  PROVE  /\ DataWrite(chip, v) \in Chip /\ DataWrite(chip, v).next = "cascade"
         /\ DataWrite(chip, v).base = v /\ DataWrite(chip, v).service = chip.service
<1> DEFINE word == DataWrite(chip, v)
<1>1. word = [chip EXCEPT !.next = "cascade", !.base = v]
  BY DEF DataWrite
<1> HIDE DEF word
<1>2. word \in Chip /\ word.next = "cascade" /\ word.base = v /\ word.service = chip.service
  BY <1>1, VectorWord
<1> QED BY <1>2, Zenon DEF word

LEMMA OtherWritten ==
  ASSUME NEW chip \in Chip, chip.next \in {"cascade", "mode"}, NEW v
  PROVE  /\ DataWrite(chip, v) \in Chip
         /\ DataWrite(chip, v).next = IF chip.next = "cascade" THEN "mode" ELSE "ocw"
         /\ DataWrite(chip, v).base = chip.base /\ DataWrite(chip, v).service = chip.service
<1>1. DataWrite(chip, v) = [chip EXCEPT !.next = IF chip.next = "cascade" THEN "mode" ELSE "ocw"]
  BY DEF DataWrite
<1> QED BY <1>1 DEF Chip

LEMMA MaskWritten ==
  ASSUME NEW chip \in Chip, chip.next = "ocw", NEW v \in SUBSET Lines
  PROVE  /\ DataWrite(chip, v) \in Chip /\ DataWrite(chip, v).next = "ocw"
         /\ DataWrite(chip, v).mask = v
         /\ DataWrite(chip, v).base = chip.base /\ DataWrite(chip, v).service = chip.service
<1>1. DataWrite(chip, v) = [chip EXCEPT !.mask = v]
  BY DEF DataWrite
<1> QED BY <1>1 DEF Chip

LEMMA ChipUpdate ==
  ASSUME pic \in [Chips -> Chip], NEW c \in Chips, NEW word \in Chip,
         pic' = [pic EXCEPT ![c] = word]
  PROVE  /\ pic' \in [Chips -> Chip] /\ pic'[c] = word
         /\ \A d \in Chips : d # c => pic'[d] = pic[d]
  OBVIOUS

LEMMA RemapKeeps == ASSUME IInv, RemapWrite PROVE IInv'
<1>1. /\ pc = "remap" /\ pc' = "remap" /\ n \in 1 .. 8 /\ n' = n + 1
      /\ UNCHANGED <<CHS_LOAD, dma, ram, errors, gates, idt_loaded, interrupts, handler, at,
                     masks, full>>
  <2>1. Len(PIC_remap) = 8
    BY DEF PIC_remap
  <2> QED BY <2>1 DEF RemapWrite, IInv, TypeOK, load_vars, cpu_vars
<1>2. pic["master"].next = Expected[1] /\ pic["slave"].next = Expected[2]
      /\ Expected = CASE n = 1 -> <<"ocw", "ocw">>
                     [] n = 2 -> <<"vector", "ocw">>
                     [] n = 3 -> <<"vector", "vector">>
                     [] n = 4 -> <<"cascade", "vector">>
                     [] n = 5 -> <<"cascade", "cascade">>
                     [] n = 6 -> <<"mode", "cascade">>
                     [] n = 7 -> <<"mode", "mode">>
                     [] n = 8 -> <<"ocw", "mode">>
  BY <1>1 DEF IInv, InSequence, Expected
<1>3. /\ pic \in [Chips -> Chip] /\ "master" \in Chips /\ "slave" \in Chips
      /\ pic["master"] \in Chip /\ pic["slave"] \in Chip
      /\ pic["master"].service = {} /\ pic["slave"].service = {}
      /\ n >= 4 => pic["master"].base = 32
  BY <1>1 DEF IInv, TypeOK, Programmed, Quiet, ServiceMatches, Running, Chips
<1>4. /\ pic' \in [Chips -> Chip] /\ pic'["master"].service = {} /\ pic'["slave"].service = {}
      /\ n >= 3 => pic'["master"].base = 32
      /\ <<pic'["master"].next, pic'["slave"].next>> =
           CASE n = 1 -> <<"vector", "ocw">>
             [] n = 2 -> <<"vector", "vector">>
             [] n = 3 -> <<"cascade", "vector">>
             [] n = 4 -> <<"cascade", "cascade">>
             [] n = 5 -> <<"mode", "cascade">>
             [] n = 6 -> <<"mode", "mode">>
             [] n = 7 -> <<"ocw", "mode">>
             [] n = 8 -> <<"ocw", "ocw">>
  <2>1. CASE n = 1
    <3> DEFINE word == BeginInit(pic["master"])
    <3>1. pic' = [pic EXCEPT !["master"] = word]
      BY <1>1, <2>1 DEF RemapWrite, PIC_remap, Command, Data
    <3>2. pic["master"].next = "ocw" /\ pic["slave"].next = "ocw"
      BY <1>2, <2>1
    <3>3. word \in Chip /\ word.next = "vector" /\ word.service = {} /\ word.base = pic["master"].base
      BY <1>3, <3>2, InitWritten
    <3> HIDE DEF word
    <3>4. pic' \in [Chips -> Chip] /\ pic'["master"] = word /\ pic'["slave"] = pic["slave"]
      BY <1>3, <3>1, <3>3, ChipUpdate
    <3> QED BY <1>3, <2>1, <3>2, <3>3, <3>4
  <2>2. CASE n = 2
    <3> DEFINE word == BeginInit(pic["slave"])
    <3>1. pic' = [pic EXCEPT !["slave"] = word]
      BY <1>1, <2>2 DEF RemapWrite, PIC_remap, Command, Data
    <3>2. pic["master"].next = "vector" /\ pic["slave"].next = "ocw"
      BY <1>2, <2>2
    <3>3. word \in Chip /\ word.next = "vector" /\ word.service = {}
      BY <1>3, <3>2, InitWritten
    <3> HIDE DEF word
    <3>4. pic' \in [Chips -> Chip] /\ pic'["slave"] = word /\ pic'["master"] = pic["master"]
      BY <1>3, <3>1, <3>3, ChipUpdate
    <3> QED BY <1>3, <2>2, <3>2, <3>3, <3>4
  <2>3. CASE n = 3
    <3> DEFINE word == DataWrite(pic["master"], 32)
    <3>1. pic' = [pic EXCEPT !["master"] = word]
      BY <1>1, <2>3 DEF RemapWrite, PIC_remap, Command, Data
    <3>2. pic["master"].next = "vector" /\ pic["slave"].next = "vector"
      BY <1>2, <2>3
    <3>3. word \in Chip /\ word.next = "cascade" /\ word.service = {} /\ word.base = 32
      BY <1>3, <3>2, VectorWritten
    <3> HIDE DEF word
    <3>4. pic' \in [Chips -> Chip] /\ pic'["master"] = word /\ pic'["slave"] = pic["slave"]
      BY <1>3, <3>1, <3>3, ChipUpdate
    <3> QED BY <1>3, <2>3, <3>2, <3>3, <3>4
  <2>4. CASE n = 4
    <3> DEFINE word == DataWrite(pic["slave"], 40)
    <3>1. pic' = [pic EXCEPT !["slave"] = word]
      BY <1>1, <2>4 DEF RemapWrite, PIC_remap, Command, Data
    <3>2. pic["master"].next = "cascade" /\ pic["slave"].next = "vector"
      BY <1>2, <2>4
    <3>3. word \in Chip /\ word.next = "cascade" /\ word.service = {}
      BY <1>3, <3>2, VectorWritten
    <3> HIDE DEF word
    <3>4. pic' \in [Chips -> Chip] /\ pic'["slave"] = word /\ pic'["master"] = pic["master"]
      BY <1>3, <3>1, <3>3, ChipUpdate
    <3> QED BY <1>3, <2>4, <3>2, <3>3, <3>4
  <2>5. CASE n = 5
    <3> DEFINE word == DataWrite(pic["master"], 4)
    <3>1. pic' = [pic EXCEPT !["master"] = word]
      BY <1>1, <2>5 DEF RemapWrite, PIC_remap, Command, Data
    <3>2. pic["master"].next = "cascade" /\ pic["slave"].next = "cascade"
      BY <1>2, <2>5
    <3>3. word \in Chip /\ word.next = "mode" /\ word.service = {} /\ word.base = pic["master"].base
      BY <1>3, <3>2, OtherWritten
    <3> HIDE DEF word
    <3>4. pic' \in [Chips -> Chip] /\ pic'["master"] = word /\ pic'["slave"] = pic["slave"]
      BY <1>3, <3>1, <3>3, ChipUpdate
    <3> QED BY <1>3, <2>5, <3>2, <3>3, <3>4
  <2>6. CASE n = 6
    <3> DEFINE word == DataWrite(pic["slave"], 2)
    <3>1. pic' = [pic EXCEPT !["slave"] = word]
      BY <1>1, <2>6 DEF RemapWrite, PIC_remap, Command, Data
    <3>2. pic["master"].next = "mode" /\ pic["slave"].next = "cascade"
      BY <1>2, <2>6
    <3>3. word \in Chip /\ word.next = "mode" /\ word.service = {}
      BY <1>3, <3>2, OtherWritten
    <3> HIDE DEF word
    <3>4. pic' \in [Chips -> Chip] /\ pic'["slave"] = word /\ pic'["master"] = pic["master"]
      BY <1>3, <3>1, <3>3, ChipUpdate
    <3> QED BY <1>3, <2>6, <3>2, <3>3, <3>4
  <2>7. CASE n = 7
    <3> DEFINE word == DataWrite(pic["master"], 1)
    <3>1. pic' = [pic EXCEPT !["master"] = word]
      BY <1>1, <2>7 DEF RemapWrite, PIC_remap, Command, Data
    <3>2. pic["master"].next = "mode" /\ pic["slave"].next = "mode"
      BY <1>2, <2>7
    <3>3. word \in Chip /\ word.next = "ocw" /\ word.service = {} /\ word.base = pic["master"].base
      BY <1>3, <3>2, OtherWritten
    <3> HIDE DEF word
    <3>4. pic' \in [Chips -> Chip] /\ pic'["master"] = word /\ pic'["slave"] = pic["slave"]
      BY <1>3, <3>1, <3>3, ChipUpdate
    <3> QED BY <1>3, <2>7, <3>2, <3>3, <3>4
  <2>8. CASE n = 8
    <3> DEFINE word == DataWrite(pic["slave"], 1)
    <3>1. pic' = [pic EXCEPT !["slave"] = word]
      BY <1>1, <2>8 DEF RemapWrite, PIC_remap, Command, Data
    <3>2. pic["master"].next = "ocw" /\ pic["slave"].next = "mode"
      BY <1>2, <2>8
    <3>3. word \in Chip /\ word.next = "ocw" /\ word.service = {}
      BY <1>3, <3>2, OtherWritten
    <3> HIDE DEF word
    <3>4. pic' \in [Chips -> Chip] /\ pic'["slave"] = word /\ pic'["master"] = pic["master"]
      BY <1>3, <3>1, <3>3, ChipUpdate
    <3> QED BY <1>3, <2>8, <3>2, <3>3, <3>4
  <2> QED BY <1>1, <2>1, <2>2, <2>3, <2>4, <2>5, <2>6, <2>7, <2>8
<1>5. InSequence'
  BY <1>1, <1>4 DEF InSequence, Expected
<1>6. TypeOK' /\ CounterOK'
  BY <1>1, <1>4 DEF IInv, TypeOK, CounterOK
<1>7. Quiet' /\ GatesSet' /\ Programmed' /\ ServiceMatches'
  BY <1>1, <1>4 DEF IInv, Quiet, GatesSet, Programmed, ServiceMatches, Running, Loading
<1> QED BY <1>5, <1>6, <1>7 DEF IInv

LEMMA MasksKeep == ASSUME IInv, SaveMasks \/ RestoreMasks \/ SetMasks PROVE IInv'
<1>1. /\ pc \in {"save", "remap", "mask"} /\ pc' \in {"remap", "mask", "sti"} /\ n' = 1
      /\ UNCHANGED <<CHS_LOAD, dma, ram, errors, gates, idt_loaded, interrupts, handler, at, full>>
  BY DEF SaveMasks, RestoreMasks, SetMasks, Goto, load_vars, cpu_vars
<1>2. pic["master"].next = "ocw" /\ pic["slave"].next = "ocw"
  <2>1. pc = "remap" => n = 9
    <3>1. Len(PIC_remap) = 8
      BY DEF PIC_remap
    <3> QED BY <3>1 DEF SaveMasks, RestoreMasks, SetMasks, Goto, IInv, CounterOK, TypeOK
  <2> QED BY <1>1, <2>1 DEF IInv, InSequence, Expected
<1>3. /\ pic \in [Chips -> Chip] /\ Chips = {"master", "slave"} /\ masks \in [Chips -> SUBSET Lines]
      /\ \A c \in Chips : pic[c] \in Chip /\ pic[c].mask \in SUBSET Lines
      /\ pic["master"].service = {} /\ pic["slave"].service = {}
  BY <1>1 DEF IInv, TypeOK, Quiet, ServiceMatches, Running, Chips, Chip
<1>4. Quiet' /\ GatesSet' /\ CounterOK'
  BY <1>1 DEF IInv, Quiet, GatesSet, CounterOK, Running, Loading
<1>5. CASE SaveMasks
  <2>1. pc' = "remap" /\ pic' = pic /\ masks' = [c \in Chips |-> pic[c].mask] /\ pc = "save"
    BY <1>5 DEF SaveMasks, Goto
  <2>2. masks' \in [Chips -> SUBSET Lines]
    BY <1>3, <2>1
  <2>3. InSequence' /\ ServiceMatches' /\ Programmed'
    BY <1>1, <1>2, <1>3, <2>1 DEF IInv, Quiet, InSequence, Expected, ServiceMatches,
                                  Programmed, Running, Loading
  <2>4. TypeOK'
    BY <1>1, <1>3, <2>1, <2>2 DEF IInv, TypeOK
  <2> QED BY <1>4, <2>3, <2>4 DEF IInv
<1>6. CASE RestoreMasks \/ SetMasks
  <2>1. PICK set \in [Chips -> SUBSET Lines] :
          /\ pic' = [c \in Chips |-> DataWrite(pic[c], set[c])]
          /\ SetMasks => set["master"] = Lines \ {Timer, Keyboard} /\ set["slave"] = Lines
    <3>1. CASE RestoreMasks
      <4>1. ~SetMasks
        BY <3>1 DEF RestoreMasks, SetMasks, Goto
      <4> QED BY <1>3, <3>1, <4>1 DEF RestoreMasks
    <3>2. CASE SetMasks
      <4> DEFINE set == [c \in Chips |-> IF c = "master" THEN Lines \ {Timer, Keyboard} ELSE Lines]
      <4>1. set \in [Chips -> SUBSET Lines]
        OBVIOUS
      <4>2. pic' = [c \in Chips |-> DataWrite(pic[c], set[c])]
        BY <3>2 DEF SetMasks
      <4> QED BY <1>3, <4>1, <4>2
    <3> QED BY <1>6, <3>1, <3>2
  <2>2. \A c \in Chips : /\ pic'[c] \in Chip /\ pic'[c].next = "ocw" /\ pic'[c].mask = set[c]
                         /\ pic'[c].base = pic[c].base /\ pic'[c].service = {}
    <3>1. SUFFICES ASSUME NEW c \in Chips
                   PROVE  /\ pic'[c] \in Chip /\ pic'[c].next = "ocw" /\ pic'[c].mask = set[c]
                          /\ pic'[c].base = pic[c].base /\ pic'[c].service = {}
      OBVIOUS
    <3>2. pic'[c] = DataWrite(pic[c], set[c]) /\ set[c] \in SUBSET Lines
      BY <2>1
    <3>3. pic[c] \in Chip /\ pic[c].next = "ocw" /\ pic[c].service = {}
      BY <1>2, <1>3
    <3> QED BY <3>2, <3>3, MaskWritten
  <2>3. /\ pc \in {"remap", "mask"} /\ masks' = masks
        /\ pc = "remap" => pc' = "mask" /\ n >= 4
        /\ pc = "mask" => pc' = "sti" /\ SetMasks
    <3>1. Len(PIC_remap) = 8
      BY DEF PIC_remap
    <3>2. CASE RestoreMasks
      <4>1. n > 8 /\ pc = "remap" /\ pc' = "mask" /\ masks' = masks
        BY <3>1, <3>2 DEF RestoreMasks, Goto
      <4>2. n \in 1 .. 11
        BY DEF IInv, TypeOK
      <4> QED BY <4>1, <4>2
    <3>3. CASE SetMasks
      BY <3>3 DEF SetMasks, Goto
    <3> QED BY <1>6, <3>2, <3>3
  <2>4. pic' \in [Chips -> Chip]
    BY <2>1, <2>2
  <2>5. InSequence' /\ ServiceMatches'
    BY <1>1, <1>3, <2>2, <2>3 DEF IInv, Quiet, InSequence, Expected, ServiceMatches, Running
  <2>6. Programmed'
    BY <1>1, <1>3, <2>1, <2>2, <2>3 DEF IInv, Programmed, Running, Loading
  <2>7. TypeOK'
    BY <1>1, <2>3, <2>4 DEF IInv, TypeOK
  <2> QED BY <1>4, <2>5, <2>6, <2>7 DEF IInv
<1> QED BY <1>5, <1>6

LEMMA UpKeeps ==
  ASSUME IInv, handler = "none",
         Sti \/ DisablePort \/ DrainOutput \/ SendCommand \/ test_interrupts \/ NoTest \/ shell
  PROVE  IInv'
<1>1. /\ pc \in {"sti", "keyboard", "commands", "jingle"} /\ pc' \in Running
      /\ n' \in 1 .. 7 /\ (pc' = "keyboard" => n' <= 3)
      /\ UNCHANGED <<CHS_LOAD, dma, ram, errors, gates, idt_loaded, pic, masks>>
      /\ full' \in BOOLEAN /\ interrupts' \in BOOLEAN
  <2>1. n \in 1 .. 11 /\ full \in BOOLEAN /\ interrupts \in BOOLEAN
    BY DEF IInv, TypeOK
  <2>2. /\ pc \in {"sti", "keyboard", "commands", "jingle"} /\ pc' \in Running
        /\ n' \in 1 .. 7 /\ (pc' = "keyboard" => n' <= 3)
    BY <2>1 DEF Sti, DisablePort, DrainOutput, SendCommand, test_interrupts, NoTest, shell, Goto, Running,
                Commands, Ports
  <2>3. UNCHANGED <<CHS_LOAD, dma, ram, errors, gates, idt_loaded, pic, masks>>
    BY DEF Sti, DisablePort, DrainOutput, SendCommand, test_interrupts, NoTest, shell, load_vars, cpu_vars
  <2>4. full' = full \/ full' = FALSE
    BY DEF Sti, DisablePort, DrainOutput, SendCommand, test_interrupts, NoTest, shell
  <2>5. interrupts' = interrupts \/ interrupts' = TRUE \/ interrupts' = FALSE
    BY DEF Sti, DisablePort, DrainOutput, SendCommand, test_interrupts, NoTest, shell, cpu_vars, Enter
  <2>6. full' \in BOOLEAN /\ interrupts' \in BOOLEAN
    BY <2>1, <2>4, <2>5
  <2> QED BY <2>2, <2>3, <2>6
<1>2. /\ at = "none"
      /\ \/ handler' = "none" /\ at' = "none"
         \/ handler' = "syscall" /\ at' = "start" /\ ~interrupts'
  <2>1. CASE test_interrupts
    <3>1. Gates[3] = [vector |-> 51, calls |-> "syscall"] /\ 3 \in 1 .. 3
      BY DEF Gates
    <3>2. pc \notin Loading \cup {"gates"}
      BY <1>1 DEF Loading
    <3>3. 51 \in DOMAIN gates /\ gates[51] = "syscall" /\ idt_loaded
      BY <3>1, <3>2 DEF IInv, GatesSet, Programmed
    <3> QED BY <2>1, <3>3 DEF test_interrupts, Enter, IInv, Quiet
  <2>2. CASE Sti \/ DisablePort \/ DrainOutput \/ SendCommand \/ NoTest \/ shell
    BY <2>2 DEF Sti, DisablePort, DrainOutput, SendCommand, NoTest, shell, cpu_vars, IInv, Quiet
  <2> QED BY <2>1, <2>2
<1>3. pic["master"].service = {} /\ pic["slave"].service = {}
  BY <1>2 DEF IInv, ServiceMatches
<1>4. Quiet' /\ ServiceMatches' /\ CounterOK'
  BY <1>1, <1>2, <1>3 DEF Quiet, ServiceMatches, CounterOK, Running
<1>5. GatesSet' /\ InSequence' /\ Programmed'
  BY <1>1 DEF IInv, GatesSet, InSequence, Expected, Programmed, Running, Loading
<1>6. TypeOK'
  BY <1>1, <1>2 DEF IInv, TypeOK, Running
<1> QED BY <1>4, <1>5, <1>6 DEF IInv

LEMMA Unchanged ==
  ASSUME Placed, UNCHANGED <<CHS_LOAD, dma, ram, errors>>,
         pc' \in {"load", "lost"} => UNCHANGED <<pc, n>>
  PROVE  Placed'
<1>1. /\ Reads' = Reads /\ Loadable' = Loadable
      /\ \A m : Refused(Reads[m])' = Refused(Reads[m]) /\ Span(Reads[m])' = Span(Reads[m])
  BY DEF Reads, Loadable, Refused, Span, Crosses, Place
<1> QED BY <1>1 DEF Placed

\* When the reads have all been made without a failure, every sector that they can
\* put in place is there; the one behind the last never is.
LEMMA AllPlaced ==
  ASSUME IInv, Placed, pc = "load", n > Len(Reads)
  PROVE  /\ errors = 0 => InPlace(Loadable)
         /\ ~InPlace(Loadable + 1)
<1>1. FirstSector = 9 /\ CHS_LOAD \in BOOLEAN /\ dma \in BOOLEAN /\ Len(Reads) \in Nat /\ n \in Nat
  BY NineSectors DEF IInv, TypeOK, Reads, HardDiskReads, FloppyReads
<1>2. Loadable \in {45, 54, 171, 180}
  BY <1>1, LoadableIs
<1>3. ASSUME errors = 0 PROVE InPlace(Loadable)
  <2> SUFFICES ASSUME NEW k \in -8 .. Loadable - 1 PROVE k \in Area /\ ram[k] = 9 + k
    BY <1>1 DEF InPlace
  <2>1. k \in Area /\ k < 180
    BY <1>2 DEF Area
  <2>2. CASE k < 0
    <3>1. k \in -8 .. -1
      BY <1>2, <2>2
    <3> QED BY <2>1, <3>1 DEF Placed
  <2>3. CASE k >= 0
    <3>1. k \in 0 .. Loadable - 1
      BY <1>2, <2>3
    <3>2. PICK m \in 1 .. Len(Reads) : ~Refused(Reads[m]) /\ k \in Span(Reads[m])
      BY <1>1, <3>1, ReadsCover
    <3>3. m < n
      BY <1>1
    <3>4. ram[k] = 9 + k
      BY <1>3, <2>1, <3>2, <3>3, Zenon DEF Placed
    <3> QED BY <2>1, <3>4
  <2> QED BY <1>2, <2>2, <2>3
<1>4. ~InPlace(Loadable + 1)
  <2>1. Loadable \in -8 .. (Loadable + 1) - 1
    BY <1>2
  <2> QED BY <1>1, <2>1 DEF InPlace, Placed
<1> QED BY <1>3, <1>4

\* If no read has failed, only a kernel that is too long is not whole.
LEMMA EnteredWhole ==
  ASSUME IInv, Placed, EnterKernel, errors = 0, KernelSectors <= Loadable
  PROVE  pc' = "gates"
<1>1. InPlace(Loadable)
  BY AllPlaced DEF EnterKernel
<1>2. Loadable \in Int /\ KernelSectors \in Int
  <2>1. Loadable \in Int
    BY LoadableIs DEF IInv, TypeOK
  <2> QED BY <2>1, KernelSectorsType
<1>3. ram' = ram
  BY DEF EnterKernel, load_vars
<1>4. \A k \in -8 .. KernelSectors - 1 : k \in -8 .. Loadable - 1
  BY <1>2
<1>5. InPlace(KernelSectors)'
  BY <1>1, <1>3, <1>4 DEF InPlace
<1> QED BY <1>5 DEF EnterKernel, JumpTo

LEMMA Step ==
  ASSUME IInv, Placed, [Next]_vars
  PROVE  IInv' /\ Placed'
<1>1. CASE LoadLoader \/ LoadSectors
  BY <1>1, LoadingKeeps
<1>2. CASE UNCHANGED vars
  <2>1. IInv'
    BY <1>2 DEF vars, load_vars, cpu_vars, IInv, TypeOK, CounterOK, Quiet, GatesSet, InSequence,
                Expected, Programmed, ServiceMatches, Reads
  <2>2. UNCHANGED <<CHS_LOAD, dma, ram, errors, pc, n>>
    BY <1>2 DEF vars, load_vars
  <2> QED BY <2>1, <2>2, Unchanged
<1>3. CASE Handlers \/ \E q \in IRQs : DeviceRequests(q) \/ Accept(q)
  <2>1. IInv'
    BY <1>3, HandlersKeep, RequestKeeps, AcceptKeeps
  <2>2. UNCHANGED <<CHS_LOAD, dma, ram, errors, pc, n>>
    <3>1. CASE Handlers
      BY <3>1 DEF Handlers, interrupt_timer_handler, ReadScancode, AcknowledgeKeyboard,
                  interrupt_syscall_handler, ReturnFromInterrupt, handler_vars, load_vars
    <3>2. CASE \E q \in IRQs : DeviceRequests(q) \/ Accept(q)
      BY <3>2 DEF DeviceRequests, Accept, load_vars
    <3> QED BY <1>3, <3>1, <3>2
  <2> QED BY <2>1, <2>2, Unchanged
<1>4. CASE EnterKernel
  <2>1. IInv'
    BY <1>4, GatesKeep
  <2>2. UNCHANGED <<CHS_LOAD, dma, ram, errors>> /\ pc = "load" /\ pc' \in {"gates", "lost"}
    BY <1>4 DEF EnterKernel, JumpTo, load_vars
  <2>3. CASE pc' = "gates"
    BY <2>1, <2>2, <2>3, Unchanged
  <2>4. CASE pc' = "lost"
    <3>1. errors' > 0 \/ KernelSectors > Loadable
      <4>1. errors \in Nat /\ Loadable \in Int /\ errors' = errors
        BY <2>2, LoadableIs, ErrorsAssumption DEF IInv, TypeOK
      <4>2. ~(errors = 0 /\ KernelSectors <= Loadable)
        BY <1>4, <2>4, EnteredWhole
      <4>3. KernelSectors \in Int
        BY KernelSectorsType
      <4> QED BY <4>1, <4>2, <4>3
    <3>2. Loadable' = Loadable
      BY <2>2 DEF Loadable
    <3> QED BY <2>1, <2>2, <2>4, <3>1, <3>2 DEF Placed
  <2> QED BY <2>2, <2>3, <2>4
<1>5. CASE /\ handler = "none"
           /\ \/ set_idt_entry \/ load_idt
              \/ SaveMasks \/ RemapWrite \/ RestoreMasks \/ SetMasks \/ Sti
              \/ DisablePort \/ DrainOutput \/ SendCommand \/ test_interrupts \/ NoTest \/ shell
  <2>1. IInv'
    BY <1>5, GatesKeep, MasksKeep, RemapKeeps, UpKeeps
  <2>2. UNCHANGED <<CHS_LOAD, dma, ram, errors>> /\ pc' \notin Loading
    BY <1>5 DEF set_idt_entry, load_idt, SaveMasks, RestoreMasks, SetMasks,
                RemapWrite, Sti, DisablePort, DrainOutput, SendCommand, test_interrupts, NoTest,
                shell, Goto, Loading, load_vars
  <2> QED BY <2>1, <2>2, Unchanged DEF Loading
<1> QED BY <1>1, <1>2, <1>3, <1>4, <1>5 DEF Next, Thread

\* The invariant.
THEOREM BootInvariant == Spec => [](IInv /\ Placed)
<1>1. Init => IInv /\ Placed
  <2> SUFFICES ASSUME Init PROVE Placed
    BY Initially
  <2>1. Loadable \in {45, 54, 171, 180}
    BY LoadableIs DEF Init
  <2>2. \A k \in Area : ram[k] = Unread
    BY DEF Init
  <2>3. /\ \A k \in -8 .. 179 : ram[k] \in {Unread, 9 + k}
        /\ ram[Loadable] = Unread /\ Unread # 9 + Loadable
    BY <2>1, <2>2 DEF Area, Unread
  <2> QED BY <2>3 DEF Init, Placed
<1>2. IInv /\ Placed /\ [Next]_vars => (IInv /\ Placed)'
  BY Step
<1> QED BY <1>1, <1>2, PTL DEF Spec

\* The types of all the variables.
THEOREM BootTypeCorrect == Spec => []TypeOK
<1>1. IInv => TypeOK
  BY DEF IInv
<1> QED BY BootInvariant, <1>1, PTL

\* Whatever devices request, whatever the BIOS has left unmasked and whenever it
\* happens, no interrupt finds the machine without a handler for it.
THEOREM NeverCrashes == Spec => []NoCrash
<1>1. IInv => NoCrash
  BY DEF IInv, NoCrash, Quiet, ServiceMatches
<1> QED BY BootInvariant, <1>1, PTL

\* Handlers never nest, and each acknowledges the one line in service: its own.
THEOREM ServiceAlwaysMatches == Spec => []ServiceMatches
<1>1. IInv => ServiceMatches
  BY DEF IInv
<1> QED BY BootInvariant, <1>1, PTL

\* For every length of the second stage and of the kernel, both loaders' tables
\* of reads put exactly Loadable sectors in their places, and a read that fails or
\* is refused never puts a wrong sector there.
THEOREM KernelIsInPlace == Spec => []KernelInPlace
<1>1. IInv /\ Placed => KernelInPlace
  BY AllPlaced, NineSectors DEF KernelInPlace, Placed
<1> QED BY BootInvariant, <1>1, PTL

=============================================================================
