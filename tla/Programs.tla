------------------------------ MODULE Programs ------------------------------
(***************************************************************************)
(* Programs: the listing of the ROMDISK and the last branch of             *)
(* handle_command (src/src/kernel.c), with the arguments it splits off,    *)
(* load_program and syscall (src/src/process.c), as the program library    *)
(* calls them (src/libc).                                                  *)
(*                                                                         *)
(* A program runs to its end before the shell goes on, and makes any calls *)
(* in any order.  Addresses are numbers below MemLimit.  What is printed   *)
(* belongs to Terminal and is left out.                                    *)
(***************************************************************************)
EXTENDS Romdisk, Arguments

CONSTANTS
  main_romdisk,     \* the image built into the kernel
  INJECTION,        \* PROGRAM_INJECTION_ADDRESS, 0x333999
  DEFAULT_MALLOC,   \* DEFAULT_MALLOC_LOCATION, 0x2800000
  MemLimit,         \* values of a uint32_t, 2^32
  TextSize,         \* bytes of the terminal's text_buffer, 256
  Lengths,          \* the lengths programs ask for
  Fds               \* the file descriptors they name

ASSUME DiskAssumption ==
  /\ main_romdisk \in Images
  /\ main_romdisk.entries = Len(main_romdisk.table)
\* itoa of 0 swaps 256 bytes of the stack; nothing is said of what follows.
ASSUME NoEmptyFile ==
  \A m \in 1 .. Len(main_romdisk.table) : main_romdisk.table[m].length > 0
ASSUME MemoryAssumption ==
  /\ INJECTION \in Nat /\ DEFAULT_MALLOC \in Nat /\ MemLimit \in Nat
  /\ INJECTION < DEFAULT_MALLOC /\ DEFAULT_MALLOC < MemLimit
ASSUME ProgramsFit ==
  \A n \in 1 .. Len(main_romdisk.table) :
    INJECTION + main_romdisk.table[n].length <= DEFAULT_MALLOC
ASSUME CallsAssumption == TextSize \in Nat /\ Lengths \subseteq Nat /\ Fds \subseteq Nat

Magic == <<"50", "5C", "DE">>
Beyond == "beyond"     \* a byte behind text_buffer

Addresses == 0 .. MemLimit - 1
MinusOne == MemLimit - 1          \* -1 as a uint32_t
Errnos == {"EOKAY", "ESYSCALLNOENT", "EINVALIDOPERATION"}

VARIABLES
  pc, n,           \* n: the next entry to list
  program,         \* the name of the program started last
  errno, MALLOC_START,
  text_buffer, text_buflen, text_offset,   \* of kernel_terminal
  result, buf,     \* what a call returned, and what a read put into its buffer
  call,            \* ghost: the last call of the running program
  blocks,          \* ghost: the memory handed to the running program
  wrapped          \* ghost: ... and that it has passed the end of the memory

text_vars == <<text_buffer, text_buflen, text_offset>>
ghosts == <<call, blocks, wrapped>>
vars == <<pc, n, program, errno, MALLOC_START, text_vars, result, buf, ghosts,
          argument_vars>>

NoCall == [no |-> "none", fd |-> 0, length |-> 0]
EmptyText == [m \in 1 .. TextSize |-> Nul]

\* errno is a word of memory that nothing sets before a program is loaded.
Init ==
  /\ pc = "list" /\ n = 1
  /\ program = <<>>
  /\ errno \in Errnos
  /\ MALLOC_START = DEFAULT_MALLOC
  /\ text_buffer = EmptyText /\ text_buflen = 0 /\ text_offset = 0
  /\ result = 0 /\ buf = <<>>
  /\ call = NoCall /\ blocks = {} /\ wrapped = FALSE
  /\ ArgumentsInit

-----------------------------------------------------------------------------
(* display_romdisk, at boot and as the command LS-ROMDISK. *)

listing_unchanged ==
  UNCHANGED <<program, errno, MALLOC_START, text_vars, result, buf, ghosts, argument_vars>>

\* The remainders of the divisions by 10, the last digit first.
Digits[number \in Nat] ==
  IF number = 0 THEN <<>> ELSE <<number % 10>> \o Digits[number \div 10]

\* Mutant: the digits are left as the divisions yield them.
itoa_Unswapped(number) == Digits[number]

\* The loop behind swaps the first digit with the last, and so on.
itoa(number) ==
  LET digits == Digits[number] IN [m \in DOMAIN digits |-> digits[Len(digits) + 1 - m]]

\* Mutant: one space fewer, so that a name of 19 characters does not end.
PaddingEnds_Short(length) == 11 + 8 - length > 0

\* The number of spaces is a uint32_t: negative is huge, and an 8-bit counter
\* never reaches it.
PaddingEnds(length) == 11 + 8 - length >= 0

__list_romdisk ==
  /\ pc = "list" /\ n <= main_romdisk.entries
  /\ \/ /\ PaddingEnds(NameLength[main_romdisk.table[n].filename])
        /\ n' = n + 1
     \/ /\ ~PaddingEnds(NameLength[main_romdisk.table[n].filename])
        /\ UNCHANGED n
  /\ UNCHANGED pc
  /\ listing_unchanged

EndOfList ==
  /\ pc = "list" /\ n > main_romdisk.entries
  /\ pc' = "prompt"
  /\ UNCHANGED n
  /\ listing_unchanged

display_romdisk == __list_romdisk \/ EndOfList

LsRomdisk ==
  /\ pc = "prompt"
  /\ pc' = "list" /\ n' = 1
  /\ listing_unchanged

-----------------------------------------------------------------------------
(* A command that is none of the shell's own.  A name that is not found, and a
   file without the magic, are reported and change nothing. *)

File(name) == get_romdisk_file(main_romdisk, name)

\* memcmp compares three bytes from the file's start, however long it is: a
\* file shorter than the magic is started if its neighbour on the ROMDISK
\* completes it, against README.md:13, "the kernel considers a valid program to
\* be one which contains a 3 byte magic of 0x50, 0x5C, 0xDE at its beginning".
HasMagic(f) == \A m \in 1 .. 3 : ByteAt(main_romdisk, f.file + m - 1) = Magic[m]

\* Mutant: the errno of the program before is left.
StartErrno_Kept == errno

StartErrno == "EOKAY"

split_unchanged ==
  UNCHANGED <<n, program, errno, MALLOC_START, text_vars, result, buf, ghosts>>

StartCommand(line) ==
  /\ pc = "prompt"
  /\ pc' = "split"
  /\ StartSplit(line)
  /\ split_unchanged

SplitCommand ==
  /\ pc = "split"
  /\ split_string
  /\ UNCHANGED pc
  /\ split_unchanged

\* Something of the kernel's, or of nobody's, is overwritten; nothing is said of
\* what it does from now on.
SplitStrays ==
  /\ pc = "split"
  /\ StrayWrite
  /\ pc' = "stray"
  /\ UNCHANGED argument_vars
  /\ split_unchanged

Startable(name) == ~File(name).noent /\ HasMagic(File(name))

load_program ==
  /\ pc = "split" /\ AtEnd
  /\ Startable(Argument(0))
  /\ pc' = "running"
  /\ program' = Argument(0)
  /\ errno' = StartErrno
  /\ call' = NoCall
  /\ UNCHANGED <<n, MALLOC_START, text_vars, result, buf, blocks, wrapped, argument_vars>>

RefuseCommand ==
  /\ pc = "split" /\ AtEnd
  /\ ~Startable(Argument(0))
  /\ pc' = "prompt"
  /\ UNCHANGED argument_vars
  /\ split_unchanged

handle_command ==
  \/ \E line \in Lines : StartCommand(line)
  \/ SplitCommand \/ SplitStrays \/ load_program \/ RefuseCommand

\* The program's main returns to load_program.
ProgramReturns ==
  /\ pc = "running"
  /\ pc' = "prompt"
  /\ MALLOC_START' = DEFAULT_MALLOC
  /\ call' = NoCall /\ blocks' = {} /\ wrapped' = FALSE
  /\ result' = 0 /\ buf' = <<>>
  /\ UNCHANGED <<n, program, errno, text_vars, argument_vars>>

-----------------------------------------------------------------------------
(* syscall. *)

Call(no, fd, length) ==
  /\ pc = "running"
  /\ call' = [no |-> no, fd |-> fd, length |-> length]
  /\ UNCHANGED <<pc, n, program, argument_vars>>

Returns(error, value) == errno' = error /\ result' = value

\* Only 1 is written to.
Write(fd) ==
  /\ Call("write", fd, 0)
  /\ IF fd = 1 THEN Returns("EOKAY", 0) ELSE Returns("EINVALIDOPERATION", MinusOne)
  /\ UNCHANGED <<MALLOC_START, text_vars, buf, blocks, wrapped>>

\* Mutant: text_offset is not kept within the text.
SafeLength_Unclipped(length) == length

\* safe_len is added to text_offset, but length bytes are copied.  The
\* comparison is one of uint32_t, text_offset a uint8_t.
SafeLength(length) ==
  IF (text_offset + length) % MemLimit >= text_buflen
    THEN text_buflen - text_offset
    ELSE length

ReadText(length) ==
  /\ buf' = [m \in 1 .. length |-> IF m <= TextSize THEN text_buffer[m] ELSE Beyond]
  /\ LET next == (text_offset + SafeLength(length)) % 256
     IN  IF next = text_buflen
           THEN text_buflen' = 0 /\ text_offset' = 0 /\ text_buffer' = EmptyText
           ELSE text_offset' = next /\ UNCHANGED <<text_buflen, text_buffer>>

Read(fd, length) ==
  /\ Call("read", fd, length)
  /\ \/ /\ fd = 0
        /\ ReadText(length)
        /\ Returns("EOKAY", 0)
     \/ /\ fd # 0
        /\ UNCHANGED <<text_vars, buf>>
        /\ Returns("EINVALIDOPERATION", MinusOne)
  /\ UNCHANGED <<MALLOC_START, blocks, wrapped>>

\* Mutant: the address behind the block is returned.
BlockStart_After(length) == (MALLOC_START + length) % MemLimit

BlockStart(length) == MALLOC_START

\* The blocks are forgotten once the addresses have wrapped.
Malloc(length) ==
  /\ Call("malloc", 0, length)
  /\ Returns("EOKAY", BlockStart(length))
  /\ MALLOC_START' = (MALLOC_START + length) % MemLimit
  /\ wrapped' = (wrapped \/ MALLOC_START + length >= MemLimit)
  /\ blocks' = IF wrapped' THEN {}
               ELSE blocks \cup {[start |-> BlockStart(length), length |-> length]}
  /\ UNCHANGED <<text_vars, buf>>

\* errno is not set; the value may be any.
Entropy ==
  /\ Call("entropy", 0, 0)
  /\ result' \in Addresses
  /\ UNCHANGED <<errno, MALLOC_START, text_vars, buf, blocks, wrapped>>

\* Mutant: the error is not reported.
NoSuchCall_Silent == Returns(errno, MinusOne)

NoSuchCall == Returns("ESYSCALLNOENT", MinusOne)

\* SYS_EXIT, SYS_OPEN, SYS_EXEC and every number without a name.
OtherCall ==
  /\ Call("other", 0, 0)
  /\ NoSuchCall
  /\ UNCHANGED <<MALLOC_START, text_vars, buf, blocks, wrapped>>

syscall ==
  \/ \E fd \in Fds : Write(fd)
  \/ \E fd \in Fds, length \in Lengths : Read(fd, length)
  \/ \E length \in Lengths : Malloc(length)
  \/ Entropy
  \/ OtherCall

-----------------------------------------------------------------------------
Next ==
  \/ display_romdisk
  \/ LsRomdisk
  \/ handle_command
  \/ ProgramReturns
  \/ syscall

Spec == Init /\ [][Next]_vars

\* The kernel's thread goes on listing; nobody has to type a command, and a
\* program need not return.
FairSpec == Spec /\ WF_vars(display_romdisk)

-----------------------------------------------------------------------------
(* Properties. *)

Calls ==
  [no : {"none", "write", "read", "malloc", "entropy", "other"},
   fd : Nat, length : Nat]

\* Every variable has its type; text_offset stays within text_buflen.
TypeOK ==
  /\ pc \in {"list", "prompt", "split", "stray", "running"}
  /\ n \in 1 .. main_romdisk.entries + 1
  /\ program \in Seq(Characters \cup {Nul})
  /\ command \in Lines \cup {<<>>}
  /\ program_args \in [Memory -> Characters \cup {Nul}]
  /\ i \in Nat /\ j \in 0 .. Len(command) /\ k \in Nat /\ escaped \in BOOLEAN
  /\ errno \in Errnos
  /\ MALLOC_START \in Addresses
  /\ text_buffer = EmptyText
  /\ text_buflen \in 0 .. 255 /\ text_offset \in 0 .. text_buflen
  /\ result \in Addresses
  /\ buf \in Seq({Nul, Beyond})
  /\ call \in Calls
  /\ blocks \in SUBSET [start : Nat, length : Nat]
  /\ wrapped \in BOOLEAN

\* The blocks that SYS_MALLOC has handed to the running program overlap neither
\* one another nor the program nor the memory still to be handed out, until
\* the addresses wrap.
HeapApart ==
  ~wrapped =>
    /\ \A b \in blocks :
         /\ INJECTION + File(program).length <= b.start
         /\ b.start + b.length <= MALLOC_START
    /\ \A a, b \in blocks :
         a # b => a.start + a.length <= b.start \/ b.start + b.length <= a.start

\* A program finds errno clear and the whole heap free when it is started,
\* whatever programs and errors came before it.
FreshStart ==
  pc = "running" /\ call = NoCall =>
    errno = "EOKAY" /\ MALLOC_START = DEFAULT_MALLOC /\ blocks = {}

\* After every call but SYS_ENTROPY, errno says whether it has failed: no error
\* of an earlier call is left, and none of this one is missing.  SYS_ENTROPY
\* returns from within the switch (process.c:85) and leaves errno as it was.
ErrnoTells ==
  /\ call.no \in {"write", "read", "other"} =>
       (errno # "EOKAY" <=> result = MinusOne)
  /\ call.no = "malloc" => errno = "EOKAY"

\* The shell comes to its prompt after it has listed the ROMDISK, at boot and
\* again: romdisk.h:18 gives names 64 bytes, so names up to 63 are listed.
PromptReached == pc = "list" ~> pc = "prompt"

\* split_string writes outside the buffers only for a line with more arguments,
\* or a longer one, than they have room for.
StrayOnlyIfLong == pc = "stray" => ~Fits

\* A program gets the arguments that stand between the spaces of the line that
\* started it, a space within quotes being part of one, and nothing of an
\* earlier line: if the line fits the buffers and ends what it quotes.
ArgumentsOfLine ==
  pc = "running" /\ Fits /\ Balanced =>
    /\ argc = Cardinality(Ends)
    /\ \A e \in Ends : IsWord(Argument(Index(e)), e)

\* What decimal digits stand for.
Number(digits) ==
  LET value[p \in 0 .. Len(digits)] ==
        IF p = 0 THEN 0 ELSE 10 * value[p - 1] + digits[p]
  IN  value[Len(digits)]

\* A listing shows the length of every file in decimal, without leading zeroes.
ListingTells ==
  pc = "list" /\ n <= main_romdisk.entries =>
    LET digits == itoa(main_romdisk.table[n].length)
    IN  /\ digits \in Seq(0 .. 9) /\ digits[1] # 0
        /\ Number(digits) = main_romdisk.table[n].length

\* README.md:17: "Programs can read from the terminal/keyboard in a
\* line-buffered manner by issuing a system call to the SYS_READ system call for
\* file descriptor 0": such a read ends with a character of a line.
ReadDelivers ==
  call.no = "read" /\ call.fd = 0 /\ call.length > 0 => buf[1] # Nul

=============================================================================
