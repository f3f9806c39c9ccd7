------------------------------ MODULE Romdisk ------------------------------
(***************************************************************************)
(* The ROMDISK format and its readers (src/src/romdisk.h, romdisk.c).      *)
(*                                                                         *)
(* An image is the number in its header, the table that follows it and the *)
(* bytes of the files behind the table.  Offsets count bytes from the      *)
(* start of the header, as in the code.  A file name is a value with a     *)
(* length; of the bytes of a file only Data is told apart.                 *)
(***************************************************************************)
EXTENDS Integers, Sequences, FiniteSetsExt

CONSTANTS
  Names,         \* file names
  NameLength,    \* their lengths
  Data           \* the bytes of files

Foreign == "foreign"     \* a byte that belongs to no file

ASSUME NamesAssumption == NameLength \in [Names -> Nat]
ASSUME DataAssumption == Foreign \notin Data

header_size == 9
entry_size == 72
filename_size == 64

\* filename is filled by strncpy, which leaves out the terminator when the name
\* has filename_size characters or more.
Entries ==
  [filename : Names, terminated : BOOLEAN, offset : Nat, length : Nat]

Images == [entries : Nat, table : Seq(Entries), data : Seq(Data)]

\* Where the bytes of the files begin.
DataStart(image) == header_size + entry_size * Len(image.table)

ByteAt(image, position) ==
  LET d == position - DataStart(image) + 1
  IN  IF d \in 1 .. Len(image.data) THEN image.data[d] ELSE Foreign

\* Mutant: the loop ends before the last entry.
Listed_Short(image) == (1 .. image.entries - 1) \cap (1 .. Len(image.table))

\* The entries that list_romdisk and get_romdisk_file visit.  Behind a table
\* cut short they would read on into other memory; nothing is said of that.
Listed(image) == (1 .. image.entries) \cap (1 .. Len(image.table))

\* strcmp runs past the end of a name without a terminator; no name that the
\* kernel looks up is that long.
Matches(image, name) ==
  {n \in Listed(image) :
     image.table[n].terminated /\ image.table[n].filename = name}

Found(matches) == Min(matches)

get_romdisk_file(image, name) ==
  LET matches == Matches(image, name)
      entry == image.table[Found(matches)]
  IN  IF matches = {}
        THEN [file |-> 0, length |-> 0, noent |-> TRUE]
        ELSE [file |-> entry.offset, length |-> entry.length, noent |-> FALSE]

\* The bytes of a struct romdisk_file.
Contents(image, f) == [k \in 1 .. f.length |-> ByteAt(image, f.file + k - 1)]

=============================================================================
