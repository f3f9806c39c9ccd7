----------------------------- MODULE Arguments -----------------------------
(***************************************************************************)
(* How the shell takes a line apart into the arguments of a program:       *)
(* handle_command (src/src/kernel.c) and split_string                      *)
(* (src/src/std/string.c).                                                 *)
(*                                                                         *)
(* kmalloc hands out the buffers of the arguments one after the other, so  *)
(* they are one piece of memory, and a buffer written past its end runs    *)
(* into the next.                                                          *)
(***************************************************************************)
EXTENDS Integers, Sequences, FiniteSetsExt

CONSTANTS
  Characters,    \* what a line can contain, Delimiter and Escape among them
  Lines,         \* the lines typed, none of them a command of the shell's own
  MaxArgs,       \* MAX_PROGRAM_ARGS, 32
  ArgLength      \* MAX_PROGRAM_ARG_LENGTH, 64

Delimiter == "space"
Escape == "quote"
Nul == "nul"

ASSUME CharactersAssumption ==
  /\ {Delimiter, Escape} \subseteq Characters /\ Nul \notin Characters
  /\ Lines \subseteq Seq(Characters)
ASSUME BuffersAssumption == MaxArgs \in Nat \ {0} /\ ArgLength \in Nat \ {0}

VARIABLES
  command,          \* the line without its terminator
  program_args,     \* the memory of all the buffers
  i, j, k, escaped  \* locals of split_string

argument_vars == <<command, program_args, i, j, k, escaped>>

Memory == 0 .. MaxArgs * ArgLength - 1

Zeroes == [a \in Memory |-> Nul]

ArgumentsInit ==
  /\ command = <<>> /\ program_args = Zeroes
  /\ i = 0 /\ j = 0 /\ k = 0 /\ escaped = FALSE

\* Mutant: what the command before has left is not cleared.
Cleared_Kept == program_args

Cleared == Zeroes

\* The last branch of handle_command, up to the loop of split_string.  Nothing
\* sets j there: at -O2 gcc zeroes a register that is read before it is written.
StartSplit(line) ==
  /\ command' = line
  /\ program_args' = Cleared
  /\ i' = 0 /\ j' = 0 /\ k' = 0 /\ escaped' = FALSE

\* str[p]; behind the line the command is zero.
CharacterAt(p) == IF p < Len(command) THEN command[p + 1] ELSE Nul

\* out[i][k]; out has no element MaxArgs.
Place == i * ArgLength + k
InBuffers == i < MaxArgs /\ Place \in Memory

Put(c) == program_args' = [program_args EXCEPT ![Place] = c]

ToggleEscape ==
  /\ CharacterAt(j) = Escape
  /\ escaped' = ~escaped
  /\ j' = j + 1
  /\ UNCHANGED <<command, program_args, i, k>>

AtDelimiter == CharacterAt(j) = Delimiter /\ ~escaped

\* Mutant: k goes on counting.
EndArgument_KeepsK ==
  /\ AtDelimiter /\ InBuffers
  /\ Put(Nul)
  /\ i' = i + 1 /\ j' = j + 1 /\ k' = k + 1
  /\ UNCHANGED <<command, escaped>>

EndArgument ==
  /\ AtDelimiter /\ InBuffers
  /\ Put(Nul)
  /\ i' = i + 1 /\ j' = j + 1 /\ k' = 0
  /\ UNCHANGED <<command, escaped>>

AtCharacter == CharacterAt(j) \notin {Nul, Escape} /\ ~AtDelimiter

PutCharacter ==
  /\ AtCharacter /\ InBuffers
  /\ Put(CharacterAt(j))
  /\ j' = j + 1 /\ k' = k + 1
  /\ UNCHANGED <<command, i, escaped>>

split_string == ToggleEscape \/ EndArgument \/ PutCharacter

\* The next write goes to no buffer.
StrayWrite == (AtDelimiter \/ AtCharacter) /\ ~InBuffers

AtEnd == CharacterAt(j) = Nul

\* The string is taken to have a character, whatever it is.
strlen == Min({p \in 1 .. Len(command) + 1 : CharacterAt(p) = Nul})

\* What split_string returns.
argc == IF CharacterAt(strlen - 1) = Delimiter THEN i ELSE i + 1

\* The string in the w-th buffer; behind the last buffer memory is zero.
Argument(w) ==
  LET start == w * ArgLength
      size == MaxArgs * ArgLength - start
      ends == {n \in 1 .. size + 1 : n = size + 1 \/ program_args[start + n - 1] = Nul}
  IN  [n \in 1 .. Min(ends) - 1 |-> program_args[start + n - 1]]

-----------------------------------------------------------------------------
(* What a line says, position by position. *)

Escapes(p) == {q \in 1 .. p : command[q] = Escape}
Quoted(p) == Cardinality(Escapes(p)) % 2 = 1

\* The spaces that separate arguments.
Breaks == {p \in 1 .. Len(command) : command[p] = Delimiter /\ ~Quoted(p)}

\* An argument is known by the position behind it.  Nothing follows a space at
\* the end.
Ends == IF Len(command) \in Breaks THEN Breaks ELSE Breaks \cup {Len(command) + 1}

Before(e) == {b \in Breaks : b < e}
Index(e) == Cardinality(Before(e))

\* Its characters up to position p, without the quotes.
Letters(e, p) == {q \in 1 .. p : command[q] # Escape /\ \A b \in Before(e) : b < q}
WordLength(e) == Cardinality(Letters(e, e - 1))

\* arg is the argument that ends before e: its characters in their order.
IsWord(arg, e) ==
  /\ Len(arg) = WordLength(e)
  /\ \A p \in Letters(e, e - 1) : arg[Cardinality(Letters(e, p))] = command[p]

Balanced == ~Quoted(Len(command))

\* The line has no more and no longer arguments than there is room for.
Fits ==
  /\ Cardinality(Ends) <= MaxArgs
  /\ \A e \in Ends : WordLength(e) < ArgLength

=============================================================================
