------------------------------- MODULE Packer -------------------------------
(***************************************************************************)
(* The ROMDISK packer (src/romdisk/packer.c), a program of the build, with *)
(* the files it packs, which somebody may edit or remove while it runs: it *)
(* takes every length in a first pass and every content in a second.       *)
(***************************************************************************)
EXTENDS Romdisk

CONSTANTS
  Sane,            \* names of the letters A-Z only
  EntryLimit,      \* values of the uint16_t that counts entries, 65536
  BlockSize,       \* bytes that one fread asks for, 4096
  CommandLines,    \* the files named on the command line: sequences of paths
  FileContents     \* what the files can contain

ASSUME SaneAssumption == Sane \subseteq Names
ASSUME EntryLimitAssumption == EntryLimit \in Nat /\ EntryLimit >= 1
ASSUME BlockSizeAssumption == BlockSize \in Nat /\ BlockSize >= 1

\* A path is its parts between slashes; the last is the file's name.
ASSUME CommandLinesAssumption ==
  CommandLines \subseteq Seq(Seq(Names) \ {<<>>})
ASSUME FileContentsAssumption == FileContents \subseteq Seq(Data)

VARIABLES
  argv,       \* the command line's files
  files,      \* the file system: existing paths to contents
  unreadable, \* paths that open and cannot be read: directories, bad sectors
  image,      \* what has been written to the output
  offset, i,  \* locals of main
  pc,
  rest,       \* what the open input still has to yield
  copied      \* ghost: the bytes copied from each file opened, in order

vars == <<argv, files, unreadable, image, offset, i, pc, rest, copied>>

PathsOf(line) == {line[n] : n \in DOMAIN line}
FileSystems(paths) == UNION {[S -> FileContents] : S \in SUBSET paths}

Name(path) == path[Len(path)]

Path == argv[i]

Init ==
  /\ argv \in CommandLines
  /\ files \in FileSystems(PathsOf(argv))
  /\ unreadable \in SUBSET PathsOf(argv)
  /\ image = [entries |-> 0, table |-> <<>>, data |-> <<>>]
  /\ offset = 0 /\ i = 1
  /\ pc = "start"
  /\ rest = <<>> /\ copied = <<>>

-----------------------------------------------------------------------------
(* The files change under the packer. *)

\* What the open input has left is of the new contents if they were written in
\* place, and of the old ones if a new file took the path.
EditFile ==
  /\ pc \in {"stat", "basename", "copy", "read"}
  /\ \E p \in PathsOf(argv), c \in FileContents :
       /\ files' = [q \in DOMAIN files \cup {p} |-> IF q = p THEN c ELSE files[q]]
       /\ \/ UNCHANGED rest
          \/ /\ pc = "read" /\ p = Path /\ p \in DOMAIN files
             /\ rest' = SubSeq(c, Len(copied[i]) + 1, Len(c))
  /\ UNCHANGED <<argv, unreadable, image, offset, i, pc, copied>>

\* An open file keeps its contents.
RemoveFile ==
  /\ pc \in {"stat", "basename", "copy", "read"}
  /\ \E p \in DOMAIN files : files' = [q \in DOMAIN files \ {p} |-> files[q]]
  /\ UNCHANGED <<argv, unreadable, image, offset, i, pc, rest, copied>>

-----------------------------------------------------------------------------
(* main, when it packs; "--read" only prints what Romdisk's readers return. *)

TooFewArguments ==
  /\ pc = "start" /\ Len(argv) = 0
  /\ pc' = "failed"
  /\ UNCHANGED <<argv, files, unreadable, image, offset, i, rest, copied>>

\* Mutant: room for one entry only.
FirstOffset_OneEntry(entries) == header_size + entry_size

FirstOffset(entries) == header_size + entry_size * entries

WriteHeader ==
  /\ pc = "start" /\ Len(argv) > 0
  /\ LET entries == Len(argv) % EntryLimit
     IN  /\ image' = [image EXCEPT !.entries = entries]
         /\ offset' = FirstOffset(entries)
  /\ pc' = "stat"
  /\ UNCHANGED <<argv, files, unreadable, i, rest, copied>>

StatFails ==
  /\ pc = "stat" /\ i <= Len(argv)
  /\ Path \notin DOMAIN files
  /\ pc' = "failed"
  /\ UNCHANGED <<argv, files, unreadable, image, offset, i, rest, copied>>

\* Mutant: the offset is not advanced.
NextOffset_Same(length) == offset

NextOffset(length) == offset + length

\* The length taken here is the one of the entry.  basename(): without a slash
\* it follows a null pointer; with a second one its loop finds that slash again
\* and again; only a path with one slash gets a name.
Stat ==
  /\ pc = "stat" /\ i <= Len(argv)
  /\ Path \in DOMAIN files
  /\ \/ /\ Len(Path) = 1
        /\ pc' = "crashed"
        /\ UNCHANGED <<image, offset, i>>
     \/ /\ Len(Path) > 2
        /\ pc' = "basename"
        /\ UNCHANGED <<image, offset, i>>
     \/ /\ Len(Path) = 2 /\ Name(Path) \notin Sane
        /\ pc' = "failed"
        /\ UNCHANGED <<image, offset, i>>
     \/ /\ Len(Path) = 2 /\ Name(Path) \in Sane
        /\ LET length == Len(files[Path])
           IN  /\ image' = [image EXCEPT !.table =
                              Append(@, [filename |-> Name(Path),
                                         terminated |-> NameLength[Name(Path)] < filename_size,
                                         offset |-> offset,
                                         length |-> length])]
               /\ offset' = NextOffset(length)
        /\ i' = i + 1
        /\ UNCHANGED pc
  /\ UNCHANGED <<argv, files, unreadable, rest, copied>>

\* The loop of basename finds nothing new and has no other way out.
BasenameLoops == pc = "basename" /\ UNCHANGED vars

\* Mutant: the second loop starts with the output file.
EndOfTable_FromOutput ==
  /\ pc = "stat" /\ i > Len(argv)
  /\ i' = 0
  /\ pc' = "copy"
  /\ UNCHANGED <<argv, files, unreadable, image, offset, rest, copied>>

EndOfTable ==
  /\ pc = "stat" /\ i > Len(argv)
  /\ i' = 1
  /\ pc' = "copy"
  /\ UNCHANGED <<argv, files, unreadable, image, offset, rest, copied>>

\* Mutant: the copying goes on until an end of file that never comes.
CopyCrashes_Spins ==
  /\ pc = "copy" /\ i <= Len(argv)
  /\ Path \notin DOMAIN files
  /\ UNCHANGED vars

\* fopen fails and feof is called with a null pointer.
CopyCrashes ==
  /\ pc = "copy" /\ i <= Len(argv)
  /\ Path \notin DOMAIN files
  /\ pc' = "crashed"
  /\ UNCHANGED <<argv, files, unreadable, image, offset, i, rest, copied>>

OpenInput ==
  /\ pc = "copy" /\ i <= Len(argv)
  /\ Path \in DOMAIN files
  /\ rest' = files[Path]
  /\ copied' = Append(copied, <<>>)
  /\ pc' = "read"
  /\ UNCHANGED <<argv, files, unreadable, image, offset, i>>

\* What fread returns.
Block == SubSeq(rest, 1, IF Len(rest) < BlockSize THEN Len(rest) ELSE BlockSize)

\* Only a block that was not filled meets the end of the file: one whose length
\* is a multiple of BlockSize takes an empty read more.
ReadBlock ==
  /\ pc = "read" /\ Path \notin unreadable
  /\ image' = [image EXCEPT !.data = @ \o Block]
  /\ copied' = [copied EXCEPT ![i] = @ \o Block]
  /\ rest' = SubSeq(rest, Len(Block) + 1, Len(rest))
  /\ IF Len(Block) < BlockSize
       THEN pc' = "copy" /\ i' = i + 1
       ELSE UNCHANGED <<pc, i>>
  /\ UNCHANGED <<argv, files, unreadable, offset>>

\* A read that fails sets no end of file, and the loop asks for nothing else; of
\* a file that fails half way, the half before is left out.
ReadFails == pc = "read" /\ Path \in unreadable /\ UNCHANGED vars

Exit ==
  /\ pc = "copy" /\ i > Len(argv)
  /\ pc' = "done"
  /\ UNCHANGED <<argv, files, unreadable, image, offset, i, rest, copied>>

main ==
  \/ TooFewArguments \/ WriteHeader
  \/ StatFails \/ Stat \/ BasenameLoops \/ EndOfTable
  \/ CopyCrashes \/ OpenInput \/ ReadBlock \/ ReadFails \/ Exit

Next == EditFile \/ RemoveFile \/ main

Spec == Init /\ [][Next]_vars

\* The packer is a process that the machine runs; nobody has to edit a file.
FairSpec == Spec /\ WF_vars(main)

-----------------------------------------------------------------------------
(* Properties. *)

PCs == {"start", "stat", "basename", "copy", "read", "done", "failed", "crashed"}

\* Every variable has its type; no entry is written past the end of the table.
TypeOK ==
  /\ argv \in CommandLines
  /\ files \in FileSystems(PathsOf(argv))
  /\ unreadable \subseteq PathsOf(argv)
  /\ image \in Images
  /\ offset \in Nat
  /\ i \in 1 .. Len(argv) + 1
  /\ pc \in PCs
  /\ rest \in Seq(Data) /\ copied \in Seq(Seq(Data))
  /\ Len(image.table) <= Len(argv) /\ Len(copied) <= Len(argv)

\* The spans that the entries describe never overlap and, if there are fewer
\* files than an uint16_t counts, none reaches back into the table, whatever
\* happens to the files meanwhile.
SpansApart ==
  /\ \A m, n \in DOMAIN image.table :
       m < n => image.table[m].offset + image.table[m].length <= image.table[n].offset
  /\ \A n \in DOMAIN image.table :
       Len(argv) < EntryLimit => image.table[n].offset >= DataStart(image)

Packed == pc = "done" /\ Len(argv) < EntryLimit

\* As many bytes were copied from each file up to the j-th as the table says.
Steady(j) == \A n \in 1 .. j : Len(copied[n]) = image.table[n].length

\* What the kernel finds under the name of a packed file is what was copied
\* from that file, if no earlier file has the same name or changed its length
\* while the packer ran: changes of content and of later files do no harm.
FilesFound ==
  Packed =>
    \A j \in DOMAIN argv :
      LET name == Name(argv[j])
          f == get_romdisk_file(image, name)
      IN  (/\ NameLength[name] < filename_size
           /\ Steady(j)
           /\ \A n \in 1 .. j - 1 : Name(argv[n]) # name)
          => ~f.noent /\ Contents(image, f) = copied[j]

\* A name is found exactly if a file of that name was packed, even when the
\* files changed meanwhile.
FoundIfPacked ==
  Packed =>
    \A name \in Names :
      NameLength[name] < filename_size =>
        (~get_romdisk_file(image, name).noent
           <=> \E j \in DOMAIN argv : Name(argv[j]) = name)

\* The packer comes to an end, whether its files are edited or removed under it,
\* and there are two places where it can stay for good instead: basename, at a
\* path with two slashes, and the copying, at a file that opens and cannot be
\* read.  What the files can contain is bounded: a file that grows for ever,
\* faster than it is read, is left out.
PackerEnds ==
  <>(\/ pc \in {"done", "failed", "crashed"}
     \/ pc = "basename" /\ Len(Path) > 2
     \/ pc = "read" /\ Path \in unreadable)

=============================================================================
