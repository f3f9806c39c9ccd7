-------------------------------- MODULE Boot --------------------------------
(***************************************************************************)
(* From the second stage of the boot loader to the shell                   *)
(* (src/bootloader, kmain of src/src/kernel.c, src/src/interrupts.c,       *)
(* src/src/entry.s and initialize_keyboard of src/src/keyboard.c): which   *)
(* sectors are put where, and how interrupts are set up and handled while  *)
(* the timer, the keyboard and other devices go on requesting them.        *)
(*                                                                         *)
(* External, modelled from the way the code uses them: the BIOS's disk     *)
(* service, the two 8259 interrupt controllers, the processor's interrupt  *)
(* flag, and the keyboard controller's output buffer.                      *)
(***************************************************************************)
EXTENDS Integers, Sequences, FiniteSets

CONSTANTS
  LoaderBytes,    \* length of the second stage of the loader
  KernelBytes,    \* length of kernel.bin
  MaxErrors,      \* reads that fail before the kernel is entered
  IRQs            \* the lines on which devices request interrupts

Timer == 0
Keyboard == 1
Cascade == 2

ASSUME ImageAssumption == LoaderBytes \in 0 .. 4096 /\ KernelBytes \in Nat
ASSUME ErrorsAssumption == MaxErrors \in Nat
ASSUME IRQAssumption ==
  /\ IRQs \subseteq 0 .. 15
  /\ {Timer, Keyboard} \subseteq IRQs
  /\ Cascade \notin IRQs

VARIABLES
  CHS_LOAD,           \* which of the two loaders is built; never changes
  dma,                \* the BIOS refuses reads across 64 KB; never changes
  pc, n,              \* the place in the code, and a counter in it
  ram,                \* around 0x8E00, the disk's sector each 512 bytes hold
  errors,             \* ghost: reads that have failed
  gates, idt_loaded,  \* the interrupt descriptor table, and lidt
  interrupts,         \* the processor's interrupt flag
  pic,                \* the two controllers
  masks,              \* locals a1 and a2 of PIC_remap
  handler, at,        \* the interrupt handler that runs, and its next step
  full                \* the keyboard's byte waits at port 0x60

load_vars == <<CHS_LOAD, dma, ram, errors>>
cpu_vars == <<gates, idt_loaded, interrupts, handler, at>>
vars == <<load_vars, pc, n, cpu_vars, pic, masks, full>>

-----------------------------------------------------------------------------
(* The loader. *)

\* Padding of a file: to a size, or for -1 to a multiple of 512.
pad(size, padding) ==
  CASE padding = -1 -> ((size + 511) \div 512) * 512
    [] padding # -1 -> IF size < padding THEN padding ELSE size

\* Boot sector, second stage and kernel follow one another in the image.
FirstSector == (512 + pad(LoaderBytes, 4096)) \div 512
KernelSectors == pad(FirstSector * 512 + KernelBytes, -1) \div 512 - FirstSector
Unread == -1

\* Segment, sectors, cylinder, head and first sector of a call of int 0x13.
Read(seg, count, cylinder, head, sector) ==
  [seg |-> seg, count |-> count, cylinder |-> cylinder, head |-> head, sector |-> sector]

\* The boot sector's own, to 0x7E00.
LoaderRead == Read(2016, 8, 0, 0, 2)

HardDiskReads ==
  << Read(2272, 54, 0, 0, 10),   \* 0x08E0
     Read(4000, 63, 0, 1, 1),    \* 0x0FA0
     Read(6016, 63, 0, 2, 1),    \* 0x1780
     Read(8032, 24, 0, 2, 1) >>  \* 0x1F60; the head is that of the third

FloppyReads ==
  << Read(2272,  9, 0, 0, 10),   \* 0x08E0
     Read(2560, 18, 0, 1, 1),    \* 0x0A00
     Read(3136, 18, 1, 0, 1),    \* 0x0C40
     Read(3712, 18, 1, 1, 1),    \* 0x0E80
     Read(4288, 18, 2, 0, 1),    \* 0x10C0
     Read(4864, 18, 2, 1, 1),    \* 0x1300
     Read(5440, 18, 3, 0, 1),    \* 0x1540
     Read(6016, 18, 3, 1, 1),    \* 0x1780
     Read(6592, 18, 4, 0, 1),    \* 0x19C0
     Read(7168, 18, 4, 1, 1) >>  \* 0x1C00

Reads == IF CHS_LOAD THEN FloppyReads ELSE HardDiskReads

\* Mutant: the sectors of a track are counted from 0.
Logical_FromZero(r) ==
  IF CHS_LOAD THEN (r.cylinder * 2 + r.head) * 18 + r.sector
              ELSE (r.cylinder * 16 + r.head) * 63 + r.sector

\* The disk's geometry: a hard disk's 16 heads and 63 sectors, a floppy's 2 and 18.
Logical(r) ==
  IF CHS_LOAD THEN (r.cylinder * 2 + r.head) * 18 + r.sector - 1
              ELSE (r.cylinder * 16 + r.head) * 63 + r.sector - 1

\* Where a read begins, in sectors from 0x8E00, which is segment 0x08E0.
Place(r) == (r.seg - 2272) \div 32

\* The first m sectors of a read in memory.
Transfer(r, m) ==
  [k \in DOMAIN ram |-> IF k - Place(r) \in 0 .. m - 1
                          THEN Logical(r) + (k - Place(r)) ELSE ram[k]]

Area == -8 .. 203

\* The loader and the first s sectors of the kernel are where they belong.
InPlace(s) == \A k \in -8 .. s - 1 : k \in Area /\ ram[k] = FirstSector + k

\* A transfer by DMA cannot cross a multiple of 64 KB: for a floppy, and for some
\* hard disks, int 0x13 refuses it (status 0x09).
Crosses(r) == (r.seg * 16) \div 65536 # (r.seg * 16 + r.count * 512 - 1) \div 65536
Refused(r) == dma /\ Crosses(r)

-----------------------------------------------------------------------------
(* The interrupt controllers and the processor. *)

Chips == {"master", "slave"}
ChipOf(q) == IF q < 8 THEN "master" ELSE "slave"
Lines == IRQs \cup {Cascade}

\* What a controller starts as: initialised by the BIOS, with any mask.
BiosBase == [c \in Chips |-> IF c = "master" THEN 8 ELSE 112]

Init ==
  /\ CHS_LOAD \in BOOLEAN /\ dma \in BOOLEAN
  /\ pc = "boot" /\ n = 1
  /\ ram = [k \in Area |-> Unread]
  /\ errors = 0
  /\ gates = [v \in {} |-> "none"] /\ idt_loaded = FALSE
  /\ interrupts = FALSE
  /\ \E masked \in SUBSET IRQs :
       pic = [c \in Chips |-> [next |-> "ocw", base |-> BiosBase[c],
                               mask |-> masked, request |-> {}, service |-> {}]]
  /\ masks = [c \in Chips |-> {}]
  /\ handler = "none" /\ at = "none"
  /\ full = FALSE

\* The first word of an initialisation sequence forgets the requests made before
\* it: a line that is still high must go low and high again to count.
BeginInit(chip) ==
  [chip EXCEPT !.next = "vector", !.mask = {}, !.request = {}, !.service = {}]

\* A write to the data port is the next word of a running sequence, or the mask.
DataWrite(chip, value) ==
  CASE chip.next = "vector"  -> [chip EXCEPT !.next = "cascade", !.base = value]
    [] chip.next = "cascade" -> [chip EXCEPT !.next = "mode"]
    [] chip.next = "mode"    -> [chip EXCEPT !.next = "ocw"]
    [] chip.next = "ocw"     -> [chip EXCEPT !.mask = value]

\* A lower line is served first, and none while it or a lower one is in service.
InService == pic["master"].service \cup pic["slave"].service
Requested(q) ==
  LET chip == pic[ChipOf(q)]
  IN  /\ q \in chip.request
      /\ q \notin chip.mask
      /\ chip.next = "ocw"
      /\ q >= 8 => pic["master"].next = "ocw" /\ Cascade \notin pic["master"].mask
      /\ \A p \in InService : p > q

Vector(q) == pic[ChipOf(q)].base + (q % 8)

\* Mutant: the acknowledgement never reaches the controller.
PIC_sendEOI_Lost == UNCHANGED pic

\* The line in service with the highest priority is acknowledged; the kernel has
\* no handler for a line of the slave.
PIC_sendEOI ==
  pic' = [pic EXCEPT !["master"].service =
            @ \ {q \in @ : \A p \in @ : q <= p}]

\* A device requests an interrupt.  The timer does not while its handler runs:
\* its period is tens of milliseconds.  The keyboard does with each byte, a key
\* or the reply to a command, and sends none before the last one has been read.
\* Up to cli, at the end of the loader, requests go to the BIOS.
DeviceRequests(q) ==
  /\ pc \notin {"boot", "load", "lost"}
  /\ q = Timer => handler # "timer"
  /\ q = Keyboard => ~full
  /\ full' = (full \/ q = Keyboard)
  /\ pic' = [pic EXCEPT ![ChipOf(q)].request = @ \cup {q}]
  /\ UNCHANGED <<load_vars, pc, n, cpu_vars, masks>>

\* An interrupt gate: the handler runs with interrupts off.  Without a gate, or
\* with the BIOS's vectors still in place, the machine crashes.
Enter(v) ==
  /\ handler' = IF idt_loaded /\ v \in DOMAIN gates THEN gates[v] ELSE "crash"
  /\ at' = "start"
  /\ interrupts' = FALSE

Accept(q) ==
  /\ interrupts /\ handler = "none"
  /\ Requested(q)
  /\ \A p \in IRQs : p < q => ~Requested(p)
  /\ Enter(Vector(q))
  /\ pic' = [pic EXCEPT ![ChipOf(q)].request = @ \ {q}, ![ChipOf(q)].service = @ \cup {q}]
  /\ UNCHANGED <<load_vars, pc, n, gates, idt_loaded, masks, full>>

-----------------------------------------------------------------------------
(* The handlers. *)

handler_vars == <<load_vars, pc, n, gates, idt_loaded, masks>>

interrupt_timer_handler ==
  /\ handler = "timer" /\ at = "start"
  /\ PIC_sendEOI
  /\ at' = "iret"
  /\ UNCHANGED <<handler_vars, interrupts, handler, full>>

\* What process_scancode does with the byte is the subject of Keyboard.
ReadScancode ==
  /\ handler = "keyboard" /\ at = "start"
  /\ full' = FALSE
  /\ at' = "acknowledge"
  /\ UNCHANGED <<handler_vars, interrupts, handler, pic>>

AcknowledgeKeyboard ==
  /\ handler = "keyboard" /\ at = "acknowledge"
  /\ PIC_sendEOI
  /\ at' = "iret"
  /\ UNCHANGED <<handler_vars, interrupts, handler, full>>

\* interrupt_syscall_handler blackens a part of the screen.
interrupt_syscall_handler ==
  /\ handler = "syscall" /\ at = "start"
  /\ at' = "iret"
  /\ UNCHANGED <<handler_vars, interrupts, handler, pic, full>>

\* popa and iret, which restores the interrupt flag that was set on entry.
ReturnFromInterrupt ==
  /\ at = "iret"
  /\ handler' = "none" /\ at' = "none"
  /\ interrupts' = TRUE
  /\ UNCHANGED <<handler_vars, pic, full>>

Handlers ==
  \/ interrupt_timer_handler \/ ReadScancode \/ AcknowledgeKeyboard
  \/ interrupt_syscall_handler \/ ReturnFromInterrupt

-----------------------------------------------------------------------------
(* The thread: the loader, then kmain up to the shell. *)

Goto(from, to) == pc = from /\ pc' = to /\ n' = 1

\* The carry flag of int 0x13 is never looked at: after a read that is refused, or
\* that fails when some sectors have been read, the code goes on.
CallDisk(r) ==
  \/ /\ Refused(r)
     /\ UNCHANGED <<ram, errors>>
  \/ /\ ~Refused(r)
     /\ \E m \in {0, 1, r.count} :
          /\ m < r.count => errors < MaxErrors
          /\ errors' = IF m < r.count THEN errors + 1 ELSE errors
          /\ ram' = Transfer(r, m)

\* The boot sector and the loader jump to what they have loaded, whatever it is;
\* nothing is known of what runs when sectors are missing.
JumpTo(place, s) == pc' = (IF InPlace(s)' THEN place ELSE "lost") /\ n' = 1

LoadLoader ==
  /\ pc = "boot"
  /\ CallDisk(LoaderRead)
  /\ JumpTo("load", 0)
  /\ UNCHANGED <<CHS_LOAD, dma, cpu_vars, pic, masks, full>>

LoadSectors ==
  /\ pc = "load" /\ n <= Len(Reads)
  /\ CallDisk(Reads[n])
  /\ n' = n + 1
  /\ UNCHANGED <<CHS_LOAD, dma, pc, cpu_vars, pic, masks, full>>

EnterKernel ==
  /\ pc = "load" /\ n > Len(Reads)
  /\ UNCHANGED <<load_vars, cpu_vars, pic, masks, full>>
  /\ JumpTo("gates", KernelSectors)

Gates == <<[vector |-> 32, calls |-> "timer"],     \* 0x20
           [vector |-> 33, calls |-> "keyboard"],  \* 0x21
           [vector |-> 51, calls |-> "syscall"]>>  \* 0x33

set_idt_entry ==
  /\ pc = "gates" /\ n <= Len(Gates)
  /\ gates' = [v \in DOMAIN gates \cup {Gates[n].vector} |->
                 IF v = Gates[n].vector THEN Gates[n].calls ELSE gates[v]]
  /\ n' = n + 1
  /\ UNCHANGED <<load_vars, pc, idt_loaded, interrupts, handler, at, pic, masks, full>>

load_idt ==
  /\ n > Len(Gates) /\ Goto("gates", "save")
  /\ idt_loaded' = TRUE
  /\ UNCHANGED <<load_vars, gates, interrupts, handler, at, pic, masks, full>>

SaveMasks ==
  /\ Goto("save", "remap")
  /\ masks' = [c \in Chips |-> pic[c].mask]
  /\ UNCHANGED <<load_vars, cpu_vars, pic, full>>

Command(chip) == [chip |-> chip, port |-> "command", value |-> 17]  \* ICW1, 0x11
Data(chip, value) == [chip |-> chip, port |-> "data", value |-> value]

\* Mutant: the cascade is set up before the vectors.
PIC_remap_CascadeFirst ==
  << Command("master"),  Command("slave"),
     Data("master", 4),  Data("slave", 2),
     Data("master", 32), Data("slave", 40),
     Data("master", 1),  Data("slave", 1) >>

PIC_remap ==
  << Command("master"),  Command("slave"),
     Data("master", 32), Data("slave", 40),    \* 0x20, 0x28
     Data("master", 4),  Data("slave", 2),
     Data("master", 1),  Data("slave", 1) >>   \* ICW4_8086

RemapWrite ==
  /\ pc = "remap" /\ n <= Len(PIC_remap)
  /\ LET w == PIC_remap[n]
     IN  pic' = [pic EXCEPT ![w.chip] =
                   IF w.port = "command" THEN BeginInit(@) ELSE DataWrite(@, w.value)]
  /\ n' = n + 1
  /\ UNCHANGED <<load_vars, pc, cpu_vars, masks, full>>

RestoreMasks ==
  /\ n > Len(PIC_remap) /\ Goto("remap", "mask")
  /\ pic' = [c \in Chips |-> DataWrite(pic[c], masks[c])]
  /\ UNCHANGED <<load_vars, cpu_vars, masks, full>>

\* Mutant: the masks of the BIOS are what stays.
SetMasks_Saved ==
  /\ Goto("mask", "sti")
  /\ pic' = [c \in Chips |-> DataWrite(pic[c], masks[c])]
  /\ UNCHANGED <<load_vars, cpu_vars, masks, full>>

\* 0b11111100 and 0b11111111: only the timer and the keyboard are let through.
SetMasks ==
  /\ Goto("mask", "sti")
  /\ pic' = [c \in Chips |->
               DataWrite(pic[c], IF c = "master" THEN Lines \ {Timer, Keyboard} ELSE Lines)]
  /\ UNCHANGED <<load_vars, cpu_vars, masks, full>>

Sti ==
  /\ Goto("sti", "keyboard")
  /\ interrupts' = TRUE
  /\ UNCHANGED <<load_vars, gates, idt_loaded, handler, at, pic, masks, full>>

\* The keyboard and the mouse port are disabled; a byte may be on its way.
Ports == 2

DisablePort ==
  /\ pc = "keyboard" /\ n <= Ports
  /\ n' = n + 1
  /\ UNCHANGED <<load_vars, pc, cpu_vars, pic, masks, full>>

\* Mutant: the output buffer is not read.
DrainOutput_Not ==
  /\ n > Ports /\ Goto("keyboard", "commands")
  /\ UNCHANGED <<load_vars, cpu_vars, pic, masks, full>>

\* What the output buffer holds is thrown away.
DrainOutput ==
  /\ n > Ports /\ Goto("keyboard", "commands")
  /\ full' = FALSE
  /\ UNCHANGED <<load_vars, cpu_vars, pic, masks>>

\* Reset, enable scanning, set 2, and the lights, each with a delay behind it.
Commands == 6

SendCommand ==
  /\ pc = "commands" /\ n <= Commands
  /\ n' = n + 1
  /\ UNCHANGED <<load_vars, pc, cpu_vars, pic, masks, full>>

\* A DEBUG build tests the gate of the system call vector.
test_interrupts ==
  /\ n > Commands /\ Goto("commands", "jingle")
  /\ Enter(51)
  /\ UNCHANGED <<load_vars, gates, idt_loaded, pic, masks, full>>

NoTest ==
  /\ n > Commands /\ Goto("commands", "jingle")
  /\ UNCHANGED <<load_vars, cpu_vars, pic, masks, full>>

shell ==
  /\ Goto("jingle", "shell")
  /\ UNCHANGED <<load_vars, cpu_vars, pic, masks, full>>

Thread ==
  /\ handler = "none"
  /\ \/ LoadLoader \/ LoadSectors \/ EnterKernel
     \/ set_idt_entry \/ load_idt
     \/ SaveMasks \/ RemapWrite \/ RestoreMasks \/ SetMasks \/ Sti
     \/ DisablePort \/ DrainOutput \/ SendCommand \/ test_interrupts \/ NoTest \/ shell

Next ==
  \/ \E q \in IRQs : DeviceRequests(q) \/ Accept(q)
  \/ Handlers \/ Thread

Spec == Init /\ [][Next]_vars

\* A handler runs to its end.  The timer's period is much longer than a handler,
\* so between two ticks the processor gets to the thread, and to the keyboard's
\* request when that is the one it takes next.
FairSpec ==
  Spec /\ WF_vars(Handlers) /\ SF_vars(Thread) /\ SF_vars(Accept(Timer)) /\ SF_vars(Accept(Keyboard))

-----------------------------------------------------------------------------
(* Properties. *)

Chip == [next : {"ocw", "vector", "cascade", "mode"}, base : {8, 32, 40, 112},
         mask : SUBSET Lines, request : SUBSET IRQs, service : SUBSET IRQs]

TypeOK ==
  /\ CHS_LOAD \in BOOLEAN /\ dma \in BOOLEAN
  /\ pc \in {"boot", "load", "lost", "gates", "save", "remap", "mask", "sti", "keyboard",
             "commands", "jingle", "shell"}
  /\ n \in 1 .. 11
  /\ ram \in [Area -> Nat \cup {Unread}]
  /\ errors \in 0 .. MaxErrors
  /\ DOMAIN gates \subseteq {32, 33, 51}
  /\ \A v \in DOMAIN gates : gates[v] \in {"timer", "keyboard", "syscall"}
  /\ {idt_loaded, interrupts, full} \subseteq BOOLEAN
  /\ pic \in [Chips -> Chip]
  /\ masks \in [Chips -> SUBSET Lines]
  /\ handler \in {"none", "timer", "keyboard", "syscall", "crash"}
  /\ at \in {"none", "start", "acknowledge", "iret"}

\* How many sectors of the kernel each loader can put in place: all ten tracks of
\* a floppy, and three of the four reads of a hard disk, the last of which
\* repeats sectors; where reads across 64 KB are refused, what comes before the
\* fourth track, and before the second read.  README.md:9 and README.md:55 say
\* that loading from a floppy does not work: with a kernel of more than 45
\* sectors it does not, where the BIOS refuses that track.
Loadable ==
  CASE CHS_LOAD /\ ~dma -> 171
    [] CHS_LOAD /\ dma -> 45
    [] ~CHS_LOAD /\ ~dma -> 180
    [] ~CHS_LOAD /\ dma -> 54

\* After the reads, if none has failed, Loadable sectors of the kernel are at their
\* addresses, and never more.  No read, failing or not, puts a wrong sector over
\* one of the 180 that the hard disk can load, so a sector can only be missing
\* there; and code that is not whole is jumped to only after a failed read, or
\* if the kernel is longer than the loader can load.
KernelInPlace ==
  /\ \A k \in -8 .. 179 : ram[k] \in {Unread, FirstSector + k}
  /\ pc = "load" /\ n > Len(Reads) =>
       /\ errors = 0 => InPlace(Loadable)
       /\ ~InPlace(Loadable + 1)
  /\ pc = "lost" => errors > 0 \/ KernelSectors > Loadable

\* No interrupt ever finds the machine without a handler for it: not one that the
\* BIOS has left unmasked, nor one that was requested before the kernel was ready.
NoCrash == handler # "crash"

\* A line is in service exactly while its handler runs and has not acknowledged
\* it, so handlers never nest and none blocks the lines behind it.
ServiceMatches ==
  /\ pic["master"].service =
       CASE handler = "timer" /\ at = "start" -> {Timer}
         [] handler = "keyboard" /\ at \in {"start", "acknowledge"} -> {Keyboard}
         [] OTHER -> {}
  /\ pic["slave"].service = {}
  /\ handler # "none" => ~interrupts

\* A byte that waits at port 0x60 is always read in the end.  One whose request
\* was forgotten when the controllers were initialised would stay there, and the
\* keyboard sends no other before it has been read.
KeyboardLives == full ~> ~full

=============================================================================
