# Mono98 in TLA+

A verification project for the Mono98 kernel: TLA+ modules translated from the
C sources, TLC configurations that check them on small instances, and proofs
that TLAPS checks for every value of the constants. Paths are relative to the
repository's root; the kernel is in `src/`'s own subdirectory, so its files are
named `src/src/...`.

## The system

Mono98 is a single-tasking 32-bit kernel. One thread runs from the boot sector
through `kmain` into the shell's endless loop; the only concurrency is that of the
devices and of the interrupt handlers, which run on top of that thread, to their
end, with interrupts off.

| component | state | operations | interacts with |
|---|---|---|---|
| terminal driver (`terminal.c`) | rows of cells (a linked list), cursor, colour, `show_cursor` | `init_terminal`, `tputs`, `terminal_scroll`, `refresh_terminal`, `clear_terminal`, `set_colour_terminal` | paints through the graphics driver; called by shell, `kgetline`, system calls |
| graphics driver (`graphics.c`) | video memory, the pixels saved under the cursor (`area`, `area_x`, `area_y`) | `draw_background`, `display_bitmap`, `save_area`, `restore_area` | called by the terminal driver |
| keyboard driver (`keyboard.c`) | `scancode_buffer` (256 elements), `scancode_read`, `scancode_write`, `shift`, `ctrl` | interrupt handler and `process_scancode`; `kgetline`; its polling loop in the `KEYBOARD_POLLING` build; `initialize_keyboard` | shared memory between the handler and the kernel's readers; port 0x60 |
| shell (`kernel.c`) | `command`, `program_args` | `shell`, `handle_command`, `text_sandbox`, `display_romdisk` | reads lines, prints, starts programs |
| system calls, programs (`process.c`, `libc/`) | `errno`, `MALLOC_START`, the terminal's `text_buffer` | `syscall`, `load_program` | called by programs, call `tputs` |
| ROMDISK (`romdisk.c`, `romdisk/packer.c`) | a read-only image | `get_romdisk_file`, `list_romdisk`; the packer | packer writes what the kernel reads |
| string library (`std/string.c`) | none | `split_string`, `itoa`, `strlen`, `strcmp`, `mem*` | used everywhere |
| interrupt setup (`interrupts.c`, `entry.s`) | IDT, PIC masks | `init_idt`, `PIC_remap`, `PIC_sendEOI` | decides when the handler may run |
| boot (`bootloader/`, `utils/pad.c`) | memory image | sector loads, mode switch | loads the kernel and its ROMDISK |
| heap and delays (`std/stdlib.c`), speaker (`audio.c`), `utils/`, `libc/math.c` | bump pointer; none | `kmalloc`, `__asleep`, `beep`, converters | - |

What is hard in it:

* the handler and the thread share the ring without any lock: `kgetline` resets
  it in three stores, gives an element back before reading it five times, and
  keeps an index of its own; the handler never tests for a full ring;
* in the polling build nothing masks IRQ 1: the thread and the handler both read
  port 0x60 and both store into the ring, each step of one between any two of the other;
* the ring's limits: wraparound by conversion to `uint8_t`, a reader that
  compares indices by order (`text_sandbox`), an off-by-one in the length;
* the screen is repainted without clearing it, so what it shows depends on the
  cursor's pixels being saved, restored and forgotten at the right moments;
* the wrap of a full row is put off to the next character, whatever that is;
* two copies of the line being edited: `kgetline`'s buffer and the screen;
* the packer takes every file's length in a first pass and its content in a
  second, while whoever builds the kernel may still be editing the files;
* the arguments of a line go to buffers of fixed number and length, in a function that is
  given neither;
* between the loader and the shell devices request interrupts all the time, first of
  controllers that are set up as the BIOS left them, without a vector for the request or
  with half of an initialisation sequence written; a byte whose request is forgotten
  would silence the keyboard for good;
* three sizes must fit one another: the padding of the image's parts, the geometry of the
  disk, and the addresses of the reads, of which none is checked for failure;
* programs share `errno`, the heap pointer and the terminal's text buffer with
  the kernel and with the programs before and after them.

Nothing is stored at run time, so there is no crash recovery, and no network. PROJECT.json
lists each hazard with its line and the properties for it.

What makes each component correct: the terminal shows its text and nothing
else, and loses none of it; the ring delivers each key once and in order; a line
read is what was typed, and ends when Enter is pressed; the screen and the line
agree; system calls transfer what they report; a packed file is found and
returned as it was; the string functions compute what their names say; the
handler never runs before it is installed, and every request is acknowledged; the kernel is
at its address when it is entered.

## Modules

| module | models |
|---|---|
| `ControlCharacters` | newline and backspace, which the keyboard yields and `tputs` treats apart |
| `TerminalDriver` | terminal and graphics drivers, as operators on a terminal |
| `Terminal` | the drivers with any sequence of calls |
| `TerminalDriverProofs` | what each operator of the drivers keeps |
| `TerminalProofs` | the five theorems about `Terminal` |
| `Scancodes` | keys, ring elements and the two character tables |
| `Keyboard` | ring, interrupt handler, `kgetline`, `text_sandbox`, the shell's loop |
| `LineReader` | abstract specification of `kgetline` |
| `KeyboardProofs` | the five invariants of `Keyboard`, and that it implements `LineReader` |
| `KeyboardPolling` | the polling build: `Keyboard` with the controller and a second reader of its port |
| `PollingProofs` | its invariants, and that it implements `LineReader` |
| `Console` | `Keyboard` with the terminal of `TerminalDriver` |
| `ConsoleProofs` | that it is `Keyboard`, and its three invariants |
| `Romdisk` | the ROMDISK format and the kernel's readers of it |
| `Packer` | the packer, with files that change under it |
| `PackerProofs` | its four theorems |
| `Arguments` | taking a line apart into arguments (`split_string`), and what a line says |
| `Programs` | listing the ROMDISK, starting programs with their arguments, system calls |
| `ProgramsProofs` | the seven theorems about `Programs` and its `Arguments` |
| `Boot` | the loaders, IDT, PICs, handlers' entry and exit, the keyboard's initialisation, devices |
| `BootProofs` | its four theorems |
| `MCTerminal`, `MCKeyboard`, `MCKeyboardPolling`, `MCConsole`, `MCPacker`, `MCPrograms`, `MCBoot` | constants for TLC |

A definition with a suffix after an underscore and a comment that begins with
"Mutant" (`EraseCell_Kept`) is a variant of the definition that follows it with
a bug of the kind one makes there. Nothing uses it; put in the place of the
original it makes TLC report the property named with it in PROJECT.json, which
shows that the property can fail.

### Terminal

The C functions take a `struct terminal *`; the operators of `TerminalDriver` take and
return a terminal record. `Terminal` makes them steps. `area*` and video memory are fields of the record, because only
these functions write them. Rows are a function from row numbers; rotating the
linked list in `terminal_scroll` is a shift of that function. A bitmap is the set
of what it sets (a glyph in a colour, or the cursor block), a cell of video
memory the set of what was painted on it since the background, so overprinting
is visible as a set of two. One pass of `refresh_terminal` visits the cells in row
order; `Paint` gives its result in one expression, including whether the saved
cell is met before `save_area` moves it (`Restored`). `cursor_x` is a `uint16_t`
and wraps below 0, which `StepBack` models. Each character of a string is one
step (`PutNext`), so that the invariants hold inside `tputs` as well.

### Keyboard

A step of the thread makes at most one access to a variable it shares with the
handler; what follows until the next access is part of the step. The handler is
one step and enabled everywhere: `init_idt` unmasks IRQ 1 before the shell
starts, nothing masks it again, and its gate keeps interrupts off while it runs.
`i` and `len` are the locals of the running reader; `i` is set to 0 where its
scope ends. `command` has the two bytes behind it as well, because `kgetline` can
write them. `overrun` is a ghost variable: the ring became full, and thereby
empty, while this line was being read. Ctrl is left out (its bit is stored and
never read), keys without a character and key releases are the one key "dead",
and "shift" in `Pressed` allows the shift keys. What the steps print is left to
`Console`, since the driver reads nothing back from the terminal.

`LineReader` says what a caller of `kgetline` may rely on: keys pressed while it
reads are taken in order and once, until the line is "spoiled"; keys pressed at other
times are dropped. It serves both builds, which differ in how many keys may wait
(`Limit`), from how many on the line can be spoiled (`SpoilFrom`: 255 waiting, in this
build) and how many the hardware keeps while no line is read (`Held`: none here). Under the
refinement mapping (`LR` in `Keyboard`) the queue is the elements from
`scancode_read` to `scancode_write`, preceded by the one under examination, whose
slot the code has given back already; a key leaves the queue when its effect on
the line is decided.

### KeyboardPolling

`Keyboard` with the controller: `full` and `data` are bit 0 of port 0x64 and the byte at
port 0x60, which stays there after it has been read, `irq` the request for IRQ 1. Whether the
request is withdrawn when the thread has read the byte differs between machines, so
`ReadByte` leaves it open; and `irqs_work` says whether the machine delivers IRQ 1 at all,
since the build is made for machines on which it does not. The polling loop and
`process_scancode` called from it are one step per access to the ring, to `shift` or to a
port; the locals between two accesses are `scancode`, `bit` and `index`. The rest of the
shell's loop is `Keyboard`'s (`Unpolled`). `raced` is a ghost: the two readers of the port
have met. `PLR` maps to the same `LineReader`: here a key counts as pressed when it reaches
the controller, which holds one while no line is read, the keys pending are those in the ring,
in `process_scancode` and in the controller, and the line may be spoiled whenever the two
readers have met.

### Boot

`Thread` runs from the boot sector to the shell, a call of int 0x13 or a port write at a
time. Sectors have no content, only their number on the disk: `ram` is indexed by sectors from
0x8E00, where the kernel belongs, and `Reads` are the operands of the loader's own calls, with
the segments in decimal, for a hard disk and for a floppy. A read may fail and leave some or
none of its sectors (`errors` counts them), and where `dma` is set, one whose transfer crosses a
multiple of 64 KB is refused; the code looks at neither and goes on. What it jumps to in the end
is followed only if it is whole: with a sector missing, nothing is known of what runs ("lost").
Each controller has the next word it expects, its
vector base, mask, requests and lines in service; the BIOS's disk service, controllers and
processor are external, modelled as the code uses them. A DEBUG build's
`test_interrupts` is a choice. What `process_scancode` does with a byte is the subject of
`Keyboard`; here it is read, so that the next one may come.

### Console

Each step of `Keyboard`'s thread, together with what the code does to the terminal in it:
the two refreshes of the blinking cursor, the echo of a character or of a backspace that
removed one, the newline at the end, the prompt, and what a command prints. A
call of `tputs` is one step (`Printed`, a fold over the string), since the handler does not
touch the terminal. Commands other than CLEAR and SANDBOX print a fixed reply.
`ShowsBefore` counts cells back from the cursor, along the rows.

### Romdisk and Packer

`Romdisk` has no state: an image is a record of the header's number of entries,
the table and the bytes behind it, and the functions of `romdisk.c` are operators
on it. Offsets are real offsets (header of 9 bytes, entries of 72), so that what
the packer adds up and what the kernel adds to the image's address are compared
as the code does it. A name is a value with a length; `terminated` says whether
`strncpy` left room for the terminator. `Packer` is `main` of `packer.c`, one
action per turn of its loops; a file is copied a block at a time (`BlockSize`, 4096 in the
code), up to the first block that is not full. Paths in `unreadable` can be opened and not
read, as a directory, or a file on a failing disk: `fread` then returns nothing and never meets
the end, and the loop stays there (`ReadFails`). `EditFile` and
`RemoveFile`, the only actions that are not the packer's, may happen between any
two steps from the first `stat` on; an edit of the open file may change what is left to read
(`rest`). A path is the sequence of its parts between
slashes: `basename` crashes without a slash, returns the name with one and loops
with more. `copied` is a ghost: the contents as they were when copied. Sums of
lengths are taken to stay below 2^32.

### Programs

A running program is any sequence of calls of `syscall`; it runs to its end before
the shell goes on, as in the code. `kgetline` and the terminal are left out: the
shell's prompt is the place where a command line arrives (`Lines`). It is split character by
character ("split", the actions of `Arguments`): the buffers are the one piece of memory
that `kmalloc` made of them, so a word that is too long runs into the next buffer, and a
write to no buffer at all ends the model ("stray"), because nothing can be said of what it
hits. `j`, which the code never sets, is 0: at -O2, the build's level, gcc zeroes it; the
hazard is listed. Addresses are numbers below `MemLimit`, and additions
wrap there. `call`, `blocks` and `wrapped` are ghosts: the last call, the memory the
program was given, and that the heap pointer has wrapped (after which the blocks
mean nothing). Nothing in the kernel but `SYS_READ` writes the text buffer, so it
is empty for ever, which `TypeOK` states and the proofs use. Names that are not
found and files without the magic are reported and leave only the buffers changed
(`RefuseCommand`). `itoa` is its two loops, the divisions by 10 and the swaps, of which the second is written
as what it does to one digit or more, a reversal; for 0 it swaps 256 bytes around the buffer,
so `NoEmptyFile` keeps empty files off the ROMDISK.

In `Arguments` the second half says what a line means, position by position and without a
loop: spaces outside quotes are breaks, an argument is what lies between two of them without
its quotes, and a line fits if it has no more and no longer arguments than there is room for.
`ArgumentsOfLine` and `StrayOnlyIfLong` compare the code with it.

## What is checked

| run | bounds | shows |
|---|---|---|
| `terminal` | 3 x 2 cells, one glyph, two colours, strings of one or two characters | type, cursor, no overprinting, screen shows the text, no text lost |
| `keyboard` | ring of 2, capacity 1, one letter, all kinds of keys, shift | type, `InStep`, `SlotStays`, `LineText`, `LengthBound`, `LineReader` implemented, an Enter in the ring ends the line |
| `keyboard_order` | ring of 3, two letters, Enter, Backspace | `LineReader` implemented with several keys waiting, over the wraparound |
| `keyboard_sandbox` | ring of 3 | `text_sandbox` stalls after the wraparound (finding) |
| `keyboard_fits` | as `keyboard` | `kgetline` writes two bytes past the capacity it is given (finding) |
| `console` | ring of 2, capacity 1, 3 x 2 cells | the screen shows the line being read, and no cursor block when a command runs |
| `polling` | ring of 2, capacity 1, one letter, Enter, shift, with and without IRQ 1 | polling alone loses no key; `LineReader` implemented and an Enter ends the line unless the two readers meet |
| `boot` | both loaders, a loader of 3,000 and a kernel of 87,500 bytes (171 sectors), one failing read, BIOSes with and without a limit of 64 KB, requests on lines 0, 1, 6 and 8 | how many sectors of the kernel each loader puts in place, and that none is wrong; no interrupt without a handler, acknowledgements, a waiting byte of the keyboard is read |
| `packer` | up to 4 arguments, files of nothing, of a block of 2 bytes and of one and a half, readable or not, a counter of entries that wraps at 4, paths without, with one and with two slashes | spans apart, files and names found although files change; the packer ends, unless it stays at a path with two slashes or at a file that opens and cannot be read |
| `programs` | a ROMDISK of a picture, two programs and a name of 19 characters; 3 buffers of 4 characters, every line of up to 3 characters and ten longer ones; 12 bytes of ROMDISK from address 2, heap from 14, `MemLimit` 17; a text buffer of 2, lengths up to 3 | arguments, stray writes, heap, `errno` (after every call but SYS_ENTROPY), what a program starts with, what a listing prints and that it ends |
| `programs_list` | a name of 20 characters | the listing at boot never ends (finding) |
| `programs_read` | as `programs` | reads deliver zeroes at once (finding) |

Why the bounds are enough. Three rows have a first, a middle and a last; two
columns have a first and a last, so every case of wrap, scroll and backspace
occurs and a line can span rows. Nothing in the driver compares two glyphs or
two colours. Longer strings only postpone the refresh at the end of `tputs`, and
two characters already put a refresh before, between and after two cursor
movements. A ring of two holds one waiting key besides the one examined, and
overflows at the next: the smallest size with torn elements; a ring of three
adds order among waiting keys. Capacity 1 allows lines of 0, 1 and 2 characters:
empty, up to the capacity, past it. Three files have a first, a middle and a last;
a fourth is one more than the counter can hold. A block of two bytes distinguishes the
empty file, the full block, which takes an empty read more, and the file of two reads. Three bytes of heap and lengths up to 3 give
several blocks, empty ones and the wrap of the pointer; a text buffer of 2 is
shorter than the longest read. Every line of three characters has every order of a letter, a
space and a quote; the longer ones are one too many arguments, one too long, both in quotes
and without, and a word that runs through all the buffers and past them. In `polling` shift is
what may pair with the wrong key, so Backspace and dead keys, which the scan treats as in
`keyboard`, are left out to keep the 1.5 million states. In `boot` two lines of the first
controller have handlers and one has none, and one belongs to the second; the BIOS may have
masked any of them; 171 sectors of kernel is what both loaders can put in place, so each of
their reads counts, and where reads are refused both fall short.
The theorems then hold for every size.

Fairness. `Keyboard`: only `WF_vars(KernelThread)`, because the CPU runs the thread
whenever it is not in the handler, and the handler is finite; nobody is assumed
to press a key. `Packer`: only `WF_vars(main)`, a process that the machine
schedules; nobody has to edit a file. `Programs`: only `WF_vars(display_romdisk)`,
the thread within the listing; no command has to be typed and no program has to
return. `KeyboardPolling`: only `WF_poll_vars(PollingThread)`, as in `Keyboard`; a request
for an interrupt may stay pending for as long as it likes. `Boot`: weak fairness of the
handlers, which run to their end, and strong fairness of the thread and of the acceptance of
the timer's and of the keyboard's request, because interrupts may disable these again and
again. It is justified by the divisors that `__asleep` (`std/stdlib.c`) gives the timer on the way
to the shell, 24334 or more (1193 per millisecond, of 250 and 350, by 18 in an emulator, as a
`uint16_t`), which make a tick last at least 20 milliseconds, while a handler takes
microseconds: between two ticks the processor gets to the thread, and to a keyboard request
that was waiting. Other devices are masked by then.

Deadlock is checked in `terminal`, `keyboard`, `keyboard_order` and `console`, where the
kernel never stops. It is not in the others: the packer ends, a stray write ends `Programs`, a
jump to code that is not whole ends `Boot`, since nothing is known of what runs then; in `polling`, without IRQ 1, the system stops when the controller holds
a byte and `text_sandbox`, which does not poll, waits for it (below).

## What is proved

`TerminalProofs`, for every screen of at least two rows and one column, every
set of glyphs, colours and messages: `TypeOK`, `CursorReachable`, `BlankAhead`,
`ScreenShowsText` and `TextKept`. `ScreenShowsText` speaks of the moments between
calls only, and is not inductive: inside `tputs` the picture lags behind the text.
The invariant that carries it is `Good`: a cell of video memory shows nothing, its
own glyph, or the cursor block (`CellOk`); the latter only if it is the saved cell
and the cursor has not moved back before it, so that the next pass meets it
before it saves another; and what is saved is bare background (`Layers`). The
saved pixels are blank because the cell under the cursor is (`BlankAhead`), which
needs the cursor to be where `CursorReachable` says. Each operator of the driver
has a lemma that it keeps `Good` (`TerminalDriverProofs`); `Invariant` combines them.

`KeyboardProofs`, for every ring of at least two elements, every capacity and set
of keys: `TypeOK`, `InStep`, `SlotStays`, `LengthBound` and `LineText`. The
argument for `SlotStays`: while an element is examined, `scancode_read` is the
index after it (`InStep`); an interrupt that stores into that slot has
`scancode_write` there, so it moves `scancode_write` onto `scancode_read`, which is
an overflow. `AtReset` and `AtHandle` are what the line's text needs around the
reset and the return.

The last part of `KeyboardProofs`, for the same parameters: `Keyboard` implements `LineReader`
(`ReadsLines`). The ring as a sequence (`Rest`) is settled first, with all of the index
arithmetic: a store that moves `scancode_write` appends to it (`StoreAppends`), giving back a
slot takes its first element (`TakeTakes`). Then each step is either one of `LineReader` or
none: the reset starts a line, a store is a key pressed or, when it overflows, spoils the line,
the test that decides an element's turn takes it from the queue with its effect on the line
(`TestsDecide`). Two facts are needed besides `IInv` (`Ready`): the ring is empty when the reset
ends, and a slot that is about to be taken holds a key.

`PollingProofs`, for the same parameters: `PollingTypeOK`, `SlotStays` with a second writer
of the ring, `PollingAlone`, and `PollingReadsLines`, the refinement of `LineReader`. An element is examined only while the thread is not storing
(`Apart`), so the thread's own stores disturb none, and the argument for the handler's is that of
`KeyboardProofs`, with `IInv` of `Keyboard` as a part of the invariant. `Alone` strengthens
`PollingAlone`: without IRQ 1 the thread stores only into an empty ring, and each key
stored is scanned, up to the end of the ring, before the next is polled for. The refinement uses
the lemmas of `KeyboardProofs` for the ring and the line; what it adds is a key's way from
the controller through the thread's locals into the ring (`StoresAtEnd`): until the two readers
of the port have met, the byte that has been polled for is still there and the thread stores at
the end of the ring.

`ConsoleProofs`, for every ring, buffer, set of keys, screen and reply within the
assumptions: `ConsoleIsKeyboard`, and `ScreenIsCurrent`, `CursorHidden` and `EchoMatchesLine`.
A step of `Console` is one of `Keyboard`, so `IInv` and everything proved from it holds here
too, and `EchoMatchesLine` needs it: the length of the line bounds how far back the prompt is,
and its characters are printable ones, each of which takes a cell. `Current` (the terminal is `Good` and video
memory shows it) follows for every string from the lemmas of `TerminalDriverProofs`, by way of
the first character after which it would not hold. `CursorOff` says where `show_cursor` may be
set at all. `EchoMatchesLine` is not inductive: the prompt is printed three steps before
`kgetline` reads its first key, so `Echo` has it before the cursor from there on. Then one
character printed moves every earlier one a cell further from the cursor, whether or not the
row was full and the screen scrolled, and a backspace one cell nearer, also over the end of a
row; `LineOnScreen` keeps the prompt from leaving the screen at its top.

`PackerProofs`, for every set of names, command lines, contents and edits:
`TypeOK`, `SpansApart`, `FilesFound` and `FoundIfPacked`. An offset is a sum of
lengths, but no sum occurs in the proof: `Chain` says that each span begins where
the one before it ends and the first behind the table, `DataEnd` that the bytes
written so far end as far behind the offset of the file being copied as it has been copied, if
the files before it were steady, and `Intact` that the bytes copied from each file, the last
one in part, are at its offset. The second pass keeps `Intact` because it only appends
(`Concatenation`), and a block and what is left make up what there was (`Tails`).

`ProgramsProofs`, for every ROMDISK whose files fit below the heap, every layout
and every set of lengths, descriptors and lines: `TypeOK`, `HeapApart`, `FreshStart`,
`ErrnoTells`, `StrayOnlyIfLong`, `ArgumentsOfLine` and `ListingTells`. `HeapGrows` strengthens `HeapApart`; `Idle` (the
heap is whole between programs) gives `FreshStart`; `Loaded` says that the running
program is a file that was found, so that it ends below the heap (`FileFits`, with
the well-foundedness of the subset order in place of an induction). `StrayOnlyIfLong` rests on
the lemmas about `Arguments`: after each character, `i` is the number of breaks before it and `k` the
number of characters of the word so far (`Counted`), both of which are bounded by what a line
that fits allows (`StrayMeansLong`), whatever the numbers and lengths of the buffers.

`ArgumentsOfLine` has the same counts and `InPlace`: the arguments that have ended
stand in their buffers, each with a zero behind it (`Finished`), the one being read stands there
as far as it has been read (`Copied`), and from the place of the next write on all is
zero, of which the clearing before the split is the first instance. A line that fits gives every
argument room for that zero (`BufferOf`), so no write touches an argument before it
(`SplittingInvariant`). `argc` is then a matter of the line's last character.
`ListingTells` rests on `DigitsTell`: the divisions by 10 end (`DigitsIs`: the recursive function
exists, being the union of its restrictions to the numbers below), and one more of them puts
one more digit behind those of the tenth (`TellsContinues`); since the digits are swapped, Horner's
rule over them gives the number back.

`BootProofs`, for every length of the loader's second stage and of the kernel, any number of
failing reads, with and without refused ones, and any set of lines in use: `TypeOK`, `NoCrash`, `ServiceMatches` and
`KernelInPlace`. `Quiet` says that nothing interrupts before `sti`, `GatesSet`, `InSequence` and
`Programmed` what has been written to the table and to each controller so far: only when all of
it has been does `sti` let a request through, and the only lines that are then unmasked are
those with a gate. `Placed` says what the reads made so far have put in memory; two table lemmas
(`HardDiskTable`, `FloppyTable`) give where each read begins and whether it crosses 64 KB, and
`ReadsCover` that those which are not refused leave no gap below `Loadable`; the sector at that
limit is no read's, so the limit is exact.

The assumptions are the named ASSUMEs of the modules: sizes, disjointness of the
sets of characters, `LineOnScreen` (16 rows of 32 hold the longest line),
`ProgramsFit` (the ROMDISK is part of a floppy image, the space below the heap is
more than 38 megabytes), `NoEmptyFile`, paths with at least one part, no letter that is
also a code of a shift key (`ShiftCodesAssumption`).

No theorem of the library that takes an operator can be used, so there is no
induction over a string or a number as such. Where one is needed, the proofs argue from the least
counterexample: the set of places, or of numbers, at which the claim fails is finite, so it has a
least element (a lemma, from the well-foundedness of the subset order), and the claim holds one
step before it.

`Console` assumes that the characters of the keys and the prompt are among those the terminal
knows, with a shape or as a `Space` without one (`FontAssumption`), and the same of what a
command prints (`ReplyAssumption`).

Model-checked only: the five properties under fairness (`EnterReturns`, `PollingEnterReturns`,
`PackerEnds`, `PromptReached` and `KeyboardLives`), which rest on ENABLED and are out of the
prover's reach. All other properties of the passing runs are theorems. The runs that
find a violation have nothing to prove.

## Findings

Each of these is shown by a run.

* `kernel.c:42`: `text_sandbox` compares the indices of the circular buffer by
  order and stalls after the wraparound.
* `keyboard.c:510`: the length test is one too generous, and the terminator adds
  one more: two bytes past the capacity.
* `kernel.c:31`: a name of 20 characters or more keeps the listing from its end.
* `process.c:42`: `SYS_READ` returns zeroes without waiting for a line;
  README.md:17 describes line-buffered reading.

Others are visible in the definitions without a run:

* `terminal.c:102`: a newline after a row that is exactly full wraps first and then
  moves down: a blank row (`PutNewLine`).
* `process.c:105`: a file shorter than the magic is started if its neighbour on the
  ROMDISK completes it (`HasMagic`), though README.md:13 says that "the kernel considers a valid
  program to be one which contains a 3 byte magic" at its beginning. No property is stated: with
  files of three bytes or more on the ROMDISK it would only repeat the comparison.
* `process.c:85`: `SYS_ENTROPY` succeeds without clearing `errno`, so an older error outlives it
  (`Entropy`; `ErrnoTells` leaves the call out).
* `process.c:42`: `SYS_READ` copies the length asked for, past the end of
  `text_buffer`, although `safe_len` is computed above (`ReadText`, `Beyond`).
* `process.c:14`: `SYS_WRITE` refuses descriptor 2, which README.md:17 calls stderr
  (`Write`); the program library gives its `stderr` descriptor 1.
* `packer.c:103`: `strncpy` leaves no terminator behind a name of 64 characters or more, which
  romdisk.h:18 demands (`terminated`; the kernel compares such a name into the entry's offset).
* `packer.c:22`: `basename` never returns for a path with two slashes (`BasenameLoops`).
* `packer.c:115`: `while (!feof(input_fp))` looks for the end of the file only. A read that fails
  (of a directory, which `stat` and `fopen` accept, or an I/O error) never sets it, and the packer
  spins (`ReadFails`). `PackerEnds` names these two as the only places where it stays.
* `kernel.c:28`: an empty file on the ROMDISK makes `itoa` swap 256 bytes of the stack
  (`NoEmptyFile`), and `string.c:28` takes an empty string to have a character (`strlen`), so
  an empty line has one argument (`argc`).
* `kernel.c:40`: in the polling build nothing polls while `text_sandbox` runs, so without IRQ 1
  it never receives a key.
* `kernel.c:81`: `split_string` is given neither the number nor the length of the buffers
  (`StrayWrite`).
* `bootloader.s:71`: the last read from a hard disk repeats the head of the third, so a kernel of
  more than 180 sectors is loaded with wrong sectors at its end (`HardDiskReads`, `Loadable`).
* `bootloader.s:38`: no read is tested for failure: whatever failed, the loader jumps to what is
  in memory (`CallDisk`, `JumpTo`).
* README.md:9 and README.md:55 say that CHS loading does not work, and TODO:1 lists it; none says
  why. The operands of the ten reads of `chs_load.s` agree with one another and with a floppy's
  geometry: without a limit on transfers they put 171 sectors of the kernel in place. But the
  fourth read (`chs_load.s:45`) goes to 0xE800 and on across 0x10000, which a transfer by
  DMA cannot do and the BIOS of a real floppy drive refuses; its error is not looked at, so every
  kernel of more than 45 sectors lacks a track (`Crosses`, `Loadable`). That is how the model
  accounts for those lines; it does not rule out another reason in what it leaves out, as the
  drive number, the mode switch or the medium. `chs_load.s:5` speaks of logical sectors 2 to
  2880, while the reads end at sector 179.
* README.md:15 puts the pointer of the system call at 0x333335 and `errno` at 0x333331; the code
  has them 4 and 8 bytes below 0x333999.
* `process.c:117`: `load_program` replaces a program's bytes only, and nothing clears what it
  calls its uninitialised data; the kernel's own is not cleared either.
* `romdisk.c:5`: `valid_romdisk`, which nothing calls, returns 1 for a wrong magic
  and 0 for the right one.

## Not modelled

The copy of a program's bytes to its address and its own memory are left out: a program is
whatever calls it makes. The mode switch and `load.c` are straight-line code without state
to check, the speaker and `__asleep` are port writes and busy waits (the timer's ticks are in
`Boot`), `kmalloc` is called a fixed number of times at boot (`Arguments` takes from it that the
buffers lie one behind the other);
`libc/math.c` is
floating point, as is `utils/imgconvert.c`, which converts a picture once per build;
`utils/pad.c` is the operator `pad` of `Boot`. `LOLCAT` and `NO_BACKGROUND`
builds differ only in colours. Bytes 0x80 to 0xEF passed to `tputs` index
`default_font` below its start; no caller in the kernel passes one.

## Plan

Done: the modules above, `Terminal` and `Keyboard` first, then what runs on them
(`Console`), what they run programs with (`Romdisk`, `Packer`, `Programs`, `Arguments`), the
other build (`KeyboardPolling`), and what comes before the shell (`Boot`); the proofs above, of
every safety property that a run checks.

Left, in this order:

1. `TerminalList`: the pool and pointers of the rows, refining `Terminal`, whose rows are a
   function from row numbers.
2. The quantisation of `imgconvert.c` over a small palette, in integers.
