---------------------------- MODULE PackerProofs ----------------------------
(***************************************************************************)
(* Proofs about Packer, for any command line, any files and any edits of   *)
(* them while it runs.                                                     *)
(*                                                                         *)
(* FilesFound says where a file is in the image, and its offset is a sum   *)
(* of lengths.  No sum is needed: Chain says that each span begins where   *)
(* the one before ends, and DataEnd that the bytes written so far end in   *)
(* the span of the file opened last, as far from its start as bytes of it  *)
(* were copied, as long as the lengths of the files before were steady.    *)
(***************************************************************************)
EXTENDS Packer, TLAPS, SequenceTheorems

entries == Len(argv) % EntryLimit

End(n) == image.table[n].offset + image.table[n].length

\* The table: each span begins where the one before it ends.
Chain ==
  /\ \A n \in DOMAIN image.table :
       /\ image.table[n].offset >= FirstOffset(entries)
       /\ n = 1 => image.table[n].offset = FirstOffset(entries)
       /\ n > 1 => image.table[n].offset = End(n - 1)
       /\ End(n) <= offset
  /\ Len(image.table) = 0 /\ pc # "start" /\ pc # "failed" => offset = FirstOffset(entries)
  /\ Len(image.table) > 0 => offset = End(Len(image.table))

Apart ==
  \A m, n \in DOMAIN image.table :
    m < n => image.table[m].offset + image.table[m].length <= image.table[n].offset

Described ==
  \A n \in DOMAIN image.table :
    /\ image.table[n].filename = Name(argv[n])
    /\ image.table[n].terminated = (NameLength[Name(argv[n])] < filename_size)

\* How far each pass has come.
Progress ==
  /\ pc = "start" => i = 1 /\ image.table = <<>>
  /\ pc \in {"start", "stat"} => copied = <<>> /\ image.data = <<>>
  /\ pc = "stat" => Len(image.table) = i - 1
  /\ pc = "copy" => Len(copied) = i - 1
  /\ pc = "read" => Len(copied) = i /\ i <= Len(argv)
  /\ pc = "done" => Len(copied) = Len(argv)
  /\ pc \in {"copy", "read", "done"} => image.entries = entries /\ Len(image.table) = Len(argv)
  /\ pc \in {"stat", "basename"} => image.entries = entries
  /\ copied # <<>> => Len(image.table) = Len(argv)

DataEnd ==
  Len(argv) < EntryLimit =>
    /\ copied = <<>> => image.data = <<>>
    /\ copied # <<>> /\ Steady(Len(copied) - 1) =>
         DataStart(image) + Len(image.data)
           = image.table[Len(copied)].offset + Len(copied[Len(copied)])

Intact ==
  Len(argv) < EntryLimit =>
    \A j \in 1 .. Len(copied) :
      Steady(j - 1) =>
        \A k \in 1 .. Len(copied[j]) :
          ByteAt(image, image.table[j].offset + k - 1) = copied[j][k]

IInv == TypeOK /\ Chain /\ Apart /\ Described /\ Progress /\ DataEnd /\ Intact

-----------------------------------------------------------------------------
(* Types. *)

LEMMA Remainder ==
  ASSUME NEW a \in Nat, NEW b \in Nat, b >= 1
  PROVE  a % b \in Nat /\ (a < b => a % b = a)
  BY SMT

LEMMA LineTypes ==
  ASSUME TypeOK
  PROVE  /\ argv \in Seq(Seq(Names) \ {<<>>}) /\ Len(argv) \in Nat
         /\ \A n \in 1 .. Len(argv) : Name(argv[n]) \in Names
         /\ entries \in Nat /\ FirstOffset(entries) \in Nat
         /\ Len(argv) < EntryLimit => entries = Len(argv)
<1>1. argv \in Seq(Seq(Names) \ {<<>>})
  BY CommandLinesAssumption DEF TypeOK
<1>2. \A n \in 1 .. Len(argv) : Name(argv[n]) \in Names
  <2> TAKE n \in 1 .. Len(argv)
  <2>1. argv[n] \in Seq(Names) /\ argv[n] # <<>>
    BY <1>1
  <2>2. Len(argv[n]) \in 1 .. Len(argv[n])
    BY <2>1
  <2> QED BY <2>1, <2>2 DEF Name
<1>3. Len(argv) \in Nat
  BY <1>1
<1>4. entries \in Nat /\ (Len(argv) < EntryLimit => entries = Len(argv))
  BY <1>3, EntryLimitAssumption, Remainder DEF entries
<1> QED BY <1>1, <1>2, <1>3, <1>4 DEF FirstOffset, header_size, entry_size

LEMMA ImageTypes ==
  ASSUME TypeOK
  PROVE  /\ image.entries \in Nat
         /\ image.table \in Seq(Entries) /\ Len(image.table) \in Nat
         /\ DOMAIN image.table = 1 .. Len(image.table)
         /\ \A n \in 1 .. Len(image.table) :
              image.table[n].offset \in Nat /\ image.table[n].length \in Nat
                /\ End(n) \in Nat
         /\ image.data \in Seq(Data) /\ Len(image.data) \in Nat
         /\ copied \in Seq(Seq(Data)) /\ Len(copied) \in Nat
         /\ DataStart(image) \in Nat
<1>1. image.entries \in Nat /\ image.table \in Seq(Entries) /\ image.data \in Seq(Data)
  BY DEF TypeOK, Images
<1>2. \A n \in 1 .. Len(image.table) : image.table[n] \in Entries
  BY <1>1
<1>3. copied \in Seq(Seq(Data))
  BY DEF TypeOK
<1>4. Len(image.table) \in Nat /\ Len(image.data) \in Nat /\ Len(copied) \in Nat
        /\ DOMAIN image.table = 1 .. Len(image.table)
  BY <1>1, <1>3
<1>5. DataStart(image) \in Nat
  BY <1>4 DEF DataStart, header_size, entry_size
<1>6. \A n \in 1 .. Len(image.table) :
        image.table[n].offset \in Nat /\ image.table[n].length \in Nat /\ End(n) \in Nat
  BY <1>2 DEF Entries, End
<1> QED BY <1>1, <1>3, <1>4, <1>5, <1>6

LEMMA FileTypes ==
  ASSUME TypeOK, NEW p \in DOMAIN files
  PROVE  files[p] \in FileContents /\ files[p] \in Seq(Data) /\ Len(files[p]) \in Nat
<1>1. PICK S \in SUBSET PathsOf(argv) : files \in [S -> FileContents]
  BY DEF TypeOK, FileSystems
<1> QED BY <1>1, FileContentsAssumption

-----------------------------------------------------------------------------
(* The first state. *)

LEMMA InitIInv == Init => IInv
<1> SUFFICES ASSUME Init PROVE IInv
  OBVIOUS
<1> USE DEF Init
<1>1. TypeOK
  <2>1. Len(argv) \in Nat
    BY CommandLinesAssumption
  <2>2. image \in Images
    BY DEF Images
  <2> QED BY <2>1, <2>2 DEF TypeOK, PCs
<1>2. Chain /\ Apart /\ Described
  BY DEF Chain, Apart, Described
<1>3. Progress
  BY DEF Progress
<1>4. DataEnd /\ Intact
  BY DEF DataEnd, Intact
<1> QED BY <1>1, <1>2, <1>3, <1>4 DEF IInv

-----------------------------------------------------------------------------
(* The steps that leave the image alone: all but WriteHeader, Stat's last case
   OpenInput and ReadBlock. *)

LEMMA SameImage ==
  ASSUME IInv, TypeOK', Progress', UNCHANGED <<argv, image, offset, copied>>,
         pc \in {"start", "failed"} => pc' \in {"start", "failed"}
  PROVE  IInv'
<1>1. entries' = entries /\ \A n : End(n)' = End(n)
  BY DEF entries, End
<1>2. Chain'
  BY <1>1 DEF IInv, Chain
<1>3. Apart' /\ Described'
  BY DEF IInv, Apart, Described
<1>4. \A j : Steady(j)' = Steady(j)
  BY DEF Steady
<1>5. DataEnd'
  BY <1>1, <1>4 DEF IInv, DataEnd, DataStart
<1>6. Intact'
  BY <1>4 DEF IInv, Intact, ByteAt, DataStart
<1> QED BY <1>2, <1>3, <1>5, <1>6 DEF IInv

LEMMA Tails ==
  ASSUME NEW S, NEW s \in Seq(S), NEW n \in Nat
  PROVE  SubSeq(s, n + 1, Len(s)) \in Seq(S)
  BY SMT

LEMMA FilesChange == ASSUME IInv, EditFile \/ RemoveFile PROVE IInv'
<1>1. Progress' /\ UNCHANGED <<argv, image, offset, copied, pc, i>> /\ entries' = entries
  BY DEF IInv, Progress, EditFile, RemoveFile, entries
<1>2. PICK S \in SUBSET PathsOf(argv) : files \in [S -> FileContents]
  BY DEF IInv, TypeOK, FileSystems
<1>3. files' \in FileSystems(PathsOf(argv))
  <2>1. CASE EditFile
    <3>1. PICK p \in PathsOf(argv), c \in FileContents :
            files' = [q \in DOMAIN files \cup {p} |-> IF q = p THEN c ELSE files[q]]
      BY <2>1 DEF EditFile
    <3>2. files' \in [S \cup {p} -> FileContents] /\ S \cup {p} \in SUBSET PathsOf(argv)
      BY <1>2, <3>1
    <3> QED BY <3>2 DEF FileSystems
  <2>2. CASE RemoveFile
    <3>1. PICK p \in DOMAIN files : files' = [q \in DOMAIN files \ {p} |-> files[q]]
      BY <2>2 DEF RemoveFile
    <3>2. files' \in [S \ {p} -> FileContents] /\ S \ {p} \in SUBSET PathsOf(argv)
      BY <1>2, <3>1
    <3> QED BY <3>2 DEF FileSystems
  <2> QED BY <2>1, <2>2
<1>6. rest' \in Seq(Data)
  <2>1. CASE UNCHANGED rest
    BY <2>1 DEF IInv, TypeOK
  <2>2. CASE pc = "read" /\ \E c \in FileContents : rest' = SubSeq(c, Len(copied[i]) + 1, Len(c))
    <3>1. PICK c \in FileContents : rest' = SubSeq(c, Len(copied[i]) + 1, Len(c))
      BY <2>2
    <3>2. c \in Seq(Data)
      BY FileContentsAssumption
    <3>3. copied[i] \in Seq(Data)
      BY <2>2 DEF IInv, TypeOK, Progress
    <3> QED BY <3>1, <3>2, <3>3, Tails
  <2> QED BY <2>1, <2>2 DEF EditFile, RemoveFile
<1>4. TypeOK'
  BY <1>1, <1>3, <1>6 DEF IInv, TypeOK, EditFile, RemoveFile
<1>5. pc \notin {"start", "failed"}
  BY DEF EditFile, RemoveFile
<1> QED BY <1>1, <1>4, <1>5, SameImage

LEMMA OtherSteps ==
  ASSUME IInv,
         TooFewArguments \/ StatFails \/ BasenameLoops \/ EndOfTable \/ CopyCrashes
           \/ ReadFails \/ Exit
  PROVE  IInv'
<1> USE LineTypes, ImageTypes DEF IInv
<1>1. UNCHANGED <<argv, files, unreadable, image, offset, rest, copied>> /\ entries' = entries
  BY DEF TooFewArguments, StatFails, BasenameLoops, EndOfTable, CopyCrashes,
         ReadFails, Exit, vars, entries
<1>2. TypeOK'
  <2>1. i' \in 1 .. Len(argv) + 1 /\ pc' \in PCs
    BY DEF TooFewArguments, StatFails, BasenameLoops, EndOfTable, CopyCrashes,
         ReadFails, Exit, vars,
           TypeOK, PCs
  <2> QED BY <1>1, <2>1 DEF TypeOK
<1>3. Progress'
  <2>1. CASE TooFewArguments \/ StatFails \/ CopyCrashes
    BY <1>1, <2>1 DEF TooFewArguments, StatFails, CopyCrashes, Progress
  <2>2. CASE BasenameLoops \/ ReadFails
    BY <1>1, <2>2 DEF BasenameLoops, ReadFails, vars, Progress
  <2>3. CASE EndOfTable
    BY <1>1, <2>3 DEF EndOfTable, Progress, TypeOK
  <2>4. CASE Exit
    BY <1>1, <2>4 DEF Exit, Progress, TypeOK
  <2> QED BY <2>1, <2>2, <2>3, <2>4
<1>4. pc \in {"start", "failed"} => pc' \in {"start", "failed"}
  BY DEF TooFewArguments, StatFails, BasenameLoops, EndOfTable, CopyCrashes,
         ReadFails, Exit
<1> QED BY <1>1, <1>2, <1>3, <1>4, SameImage

-----------------------------------------------------------------------------
(* The steps that write. *)

LEMMA WriteHeaderStep == ASSUME IInv, WriteHeader PROVE IInv'
<1> USE LineTypes, ImageTypes DEF IInv, WriteHeader
<1>1. entries' = entries /\ offset' = FirstOffset(entries) /\ image'.entries = entries
  <2>1. image'.entries = entries
    BY DEF entries, TypeOK, Images
  <2> QED BY <2>1 DEF entries
<1>2. image' \in Images /\ image'.table = <<>> /\ image'.data = <<>> /\ copied' = <<>>
  BY <1>1 DEF Progress, TypeOK, Images
<1>3. TypeOK'
  BY <1>1, <1>2 DEF TypeOK, PCs, Progress
<1>4. Chain' /\ Apart' /\ Described'
  <2>1. Len(image'.table) = 0 /\ DOMAIN image'.table = {}
    BY <1>2
  <2>2. Chain'
    <3>1. Len(image'.table) = 0 => offset' = FirstOffset(entries')
      BY <1>1
    <3>2. ~(Len(image'.table) > 0)
      BY <2>1
    <3> QED BY <2>1, <3>1, <3>2 DEF Chain
  <2>3. Apart'
    BY <2>1 DEF Apart
  <2>4. Described'
    BY <2>1 DEF Described
  <2> QED BY <2>2, <2>3, <2>4
<1>5. Progress'
  BY <1>1, <1>2 DEF Progress
<1>6. DataEnd' /\ Intact'
  BY <1>2 DEF DataEnd, Intact
<1> QED BY <1>3, <1>4, <1>5, <1>6

LEMMA StatStops ==
  ASSUME IInv, Stat, UNCHANGED <<image, offset, i>>, pc' \in {"crashed", "basename", "failed"}
  PROVE  IInv'
<1> USE DEF IInv, Stat
<1>1. TypeOK'
  BY DEF TypeOK, PCs
<1>2. Progress'
  BY DEF Progress, entries
<1> QED BY <1>1, <1>2, SameImage

LEMMA StatWrites ==
  ASSUME IInv, pc = "stat", i <= Len(argv), Path \in DOMAIN files, Name(Path) \in Sane,
         NEW length, length = Len(files[Path]),
         NEW entry,
         entry = [filename |-> Name(Path),
                  terminated |-> NameLength[Name(Path)] < filename_size,
                  offset |-> offset, length |-> length],
         image' = [image EXCEPT !.table = Append(@, entry)],
         offset' = NextOffset(length), i' = i + 1,
         UNCHANGED <<argv, files, unreadable, pc, rest, copied>>
  PROVE  IInv'
<1> USE DEF IInv
<1>0. PICK n : n = Len(image.table)
  OBVIOUS
<1>1. /\ n = Len(image.table) /\ n \in Nat /\ n + 1 = i /\ i <= Len(argv) /\ i \in Nat
      /\ image.table \in Seq(Entries)
      /\ copied = <<>> /\ image.data = <<>>
  BY <1>0, ImageTypes DEF Progress, TypeOK
<1>2. length \in Nat /\ offset \in Nat /\ entry \in Entries
      /\ entry.offset = offset /\ entry.length = length
  BY FileTypes, SaneAssumption DEF TypeOK, Entries
<1>3. /\ image' \in Images
      /\ image'.table = Append(image.table, entry)
      /\ image'.data = image.data /\ image'.entries = image.entries
  <2>1. Append(image.table, entry) \in Seq(Entries)
    BY <1>1, <1>2
  <2> HIDE <1>2
  <2> QED BY <2>1 DEF TypeOK, Images
<1>4. /\ Len(image'.table) = n + 1 /\ DOMAIN image'.table = 1 .. n + 1
      /\ image'.table[n + 1] = entry
      /\ \A m \in 1 .. n : image'.table[m] = image.table[m]
  BY <1>1, <1>2, <1>3
<1>5. TypeOK'
  <2>1. offset' \in Nat
    BY <1>2 DEF NextOffset
  <2>2. Len(argv) \in Nat
    BY LineTypes
  <2>3. i' \in 1 .. Len(argv) + 1 /\ Len(image'.table) <= Len(argv)
    BY <1>1, <1>4, <2>2
  <2> QED BY <1>3, <2>1, <2>3 DEF TypeOK
<1>6. /\ entries' = entries
      /\ \A m \in 1 .. n : End(m)' = End(m) /\ End(m) <= offset /\ End(m) \in Nat
      /\ End(n + 1)' = offset + length /\ offset' = offset + length
  BY <1>1, <1>2, <1>4, ImageTypes DEF entries, End, Chain, NextOffset
<1>14. \A m \in 1 .. n :
        /\ image.table[m].offset \in Nat /\ image.table[m].length \in Nat
        /\ image.table[m].offset >= FirstOffset(entries)
        /\ m = 1 => image.table[m].offset = FirstOffset(entries)
        /\ m > 1 => image.table[m].offset = End(m - 1)
  BY <1>1, ImageTypes DEF Chain
<1>7. offset = IF n = 0 THEN FirstOffset(entries) ELSE End(n)
  BY <1>1 DEF Chain
<1>8. offset >= FirstOffset(entries)
  <2>1. CASE n = 0
    BY <1>7, <2>1, LineTypes
  <2>2. CASE n > 0
    <3>1. image.table[n].offset >= FirstOffset(entries) /\ image.table[n].offset \in Nat
          /\ image.table[n].length \in Nat
      BY <1>1, <2>2, ImageTypes DEF Chain
    <3> QED BY <1>7, <2>2, <3>1, LineTypes DEF End
  <2> QED BY <1>1, <2>1, <2>2
<1>9. Chain'
  <2> SUFFICES ASSUME NEW m \in 1 .. n + 1
               PROVE  /\ image'.table[m].offset >= FirstOffset(entries)
                      /\ m = 1 => image'.table[m].offset = FirstOffset(entries)
                      /\ m > 1 => image'.table[m].offset = End(m - 1)'
                      /\ End(m)' <= offset'
    BY <1>1, <1>4, <1>6 DEF Chain
  <2>1. CASE m = n + 1
    <3>1. image'.table[m].offset = offset /\ End(m)' = offset'
      BY <1>2, <1>4, <1>6, <2>1
    <3>2. m = 1 => offset = FirstOffset(entries)
      BY <1>1, <1>7, <2>1
    <3>3. m > 1 => offset = End(m - 1)'
      BY <1>1, <1>6, <1>7, <2>1
    <3>4. offset' <= offset'
      BY <1>2, <1>6
    <3> QED BY <1>8, <3>1, <3>2, <3>3, <3>4
  <2>2. CASE m \in 1 .. n
    <3>1. m > 1 => m - 1 \in 1 .. n
      BY <1>1, <2>2
    <3>2. End(m)' <= offset'
      BY <1>2, <1>6, <2>2
    <3> QED BY <1>4, <1>6, <1>14, <2>2, <3>1, <3>2
  <2> QED BY <1>1, <2>1, <2>2
<1>10. Apart'
  <2> SUFFICES ASSUME NEW a \in 1 .. n + 1, NEW b \in 1 .. n + 1, a < b
               PROVE  End(a)' <= image'.table[b].offset
    BY <1>4 DEF Apart, End
  <2>1. CASE b = n + 1
    BY <1>1, <1>2, <1>4, <1>6, <2>1
  <2>2. CASE b \in 1 .. n
    <3>1. a \in 1 .. n /\ End(a) <= image.table[b].offset
      BY <1>1, <2>2 DEF Apart, End
    <3> QED BY <1>4, <1>6, <2>2, <3>1
  <2> QED BY <1>1, <2>1, <2>2
<1>11. Described'
  <2> SUFFICES ASSUME NEW m \in 1 .. n + 1
               PROVE  /\ image'.table[m].filename = Name(argv[m])
                      /\ image'.table[m].terminated
                           = (NameLength[Name(argv[m])] < filename_size)
    BY <1>4 DEF Described
  <2>1. CASE m = n + 1
    BY <1>1, <1>4, <2>1 DEF Path
  <2>2. CASE m \in 1 .. n
    BY <1>1, <1>4, <2>2 DEF Described
  <2> QED BY <1>1, <2>1, <2>2
<1>12. Progress'
  BY <1>1, <1>3, <1>4, <1>6 DEF Progress
<1>13. DataEnd' /\ Intact'
  BY <1>1, <1>3 DEF DataEnd, Intact
<1> QED BY <1>5, <1>9, <1>10, <1>11, <1>12, <1>13

LEMMA StatStep == ASSUME IInv, Stat PROVE IInv'
<1>1. CASE UNCHANGED <<image, offset, i>> /\ pc' \in {"crashed", "basename", "failed"}
  BY <1>1, StatStops
<1>2. CASE /\ Name(Path) \in Sane /\ i' = i + 1 /\ UNCHANGED pc
           /\ image' = [image EXCEPT !.table =
                 Append(@, [filename |-> Name(Path),
                            terminated |-> NameLength[Name(Path)] < filename_size,
                            offset |-> offset, length |-> Len(files[Path])])]
           /\ offset' = NextOffset(Len(files[Path]))
  BY <1>2, StatWrites DEF Stat
<1> QED BY <1>1, <1>2 DEF Stat

LEMMA Concatenation ==
  ASSUME NEW S, NEW s \in Seq(S), NEW t \in Seq(S)
  PROVE  /\ s \o t \in Seq(S) /\ Len(s \o t) = Len(s) + Len(t)
         /\ \A d \in 1 .. Len(s) : (s \o t)[d] = s[d]
         /\ \A d \in 1 .. Len(t) : (s \o t)[Len(s) + d] = t[d]
  BY SMT

(* Copying. *)

\* A file is opened where its entry says that it begins, if the lengths of all
\* files before it were steady.
LEMMA OpenInputStep == ASSUME IInv, OpenInput PROVE IInv'
<1>0. TypeOK /\ Chain /\ Apart /\ Described /\ Progress /\ DataEnd /\ Intact
  BY DEF IInv
<1>1. PICK m : m = i
  OBVIOUS
<1>2. files[Path] \in Seq(Data)
  BY <1>0, FileTypes DEF OpenInput
<1>3. /\ m = i /\ i' = m /\ m \in Nat /\ m >= 1 /\ m <= Len(argv) /\ Len(argv) \in Nat
      /\ Len(image.table) = Len(argv) /\ Len(copied) = m - 1
      /\ copied \in Seq(Seq(Data)) /\ image.table \in Seq(Entries)
      /\ UNCHANGED <<argv, image, offset>>
  BY <1>0, <1>1, ImageTypes, LineTypes DEF Progress, TypeOK, OpenInput
<1>4. /\ copied' = Append(copied, <<>>) /\ copied' \in Seq(Seq(Data))
      /\ Len(copied') = m /\ copied' # <<>> /\ copied'[m] = <<>>
      /\ \A j \in 1 .. m - 1 : copied'[j] = copied[j]
  BY <1>3 DEF OpenInput
<1>5. TypeOK'
  BY <1>0, <1>2, <1>3, <1>4 DEF TypeOK, PCs, OpenInput
<1>6. entries' = entries /\ DataStart(image)' = DataStart(image) /\ \A n : End(n)' = End(n)
  BY <1>3 DEF entries, DataStart, End
<1>7. Chain' /\ Apart' /\ Described'
  <2>1. Chain'
    BY <1>0, <1>3, <1>6 DEF Chain, OpenInput
  <2> QED BY <1>0, <1>3, <2>1 DEF Apart, Described
<1>8. Progress'
  BY <1>0, <1>3, <1>4, <1>6 DEF Progress, OpenInput
<1>9. \A n \in 0 .. m - 1 : Steady(n)' => Steady(n)
  BY <1>3, <1>4 DEF Steady
<1>10. DataEnd'
  <2> SUFFICES ASSUME Len(argv) < EntryLimit, Steady(m - 1)'
               PROVE  DataStart(image) + Len(image.data) = image.table[m].offset + 0
    <3>1. Len(copied'[m]) = 0
      BY <1>4
    <3> QED BY <1>3, <1>4, <1>6, <3>1 DEF DataEnd, Steady
  <2>1. image.table[m].offset \in Nat /\ DataStart(image) \in Nat
    <3>1. m \in 1 .. Len(image.table)
      BY <1>3
    <3> QED BY <1>0, <3>1, ImageTypes
  <2>2. CASE m = 1
    <3>1. copied = <<>> /\ Len(image.data) = 0
      BY <1>0, <1>3, <2>2 DEF DataEnd
    <3>2. image.table[1].offset = FirstOffset(Len(argv))
      BY <1>0, <1>3, <2>2, LineTypes DEF Chain
    <3>3. DataStart(image) = FirstOffset(Len(argv))
      BY <1>0, <1>3, ImageTypes DEF DataStart, FirstOffset
    <3> QED BY <2>1, <2>2, <3>1, <3>2, <3>3
  <2>3. CASE m > 1
    <3>1. copied # <<>> /\ Steady(m - 1) /\ m - 1 \in 1 .. m - 1
      BY <1>3, <1>9, <2>3
    <3>2. Steady(m - 2) /\ Len(copied[m - 1]) = image.table[m - 1].length
      BY <1>3, <3>1 DEF Steady
    <3>3. DataStart(image) + Len(image.data) = image.table[m - 1].offset + Len(copied[m - 1])
      BY <1>0, <1>3, <3>1, <3>2 DEF DataEnd
    <3>5. m \in DOMAIN image.table
      BY <1>3
    <3>4. image.table[m].offset = End(m - 1)
      BY <1>0, <2>3, <3>5 DEF Chain
    <3> QED BY <2>1, <3>2, <3>3, <3>4 DEF End
  <2> QED BY <1>3, <2>2, <2>3
<1>11. Intact'
  <2> SUFFICES ASSUME Len(argv) < EntryLimit, NEW j \in 1 .. m, Steady(j - 1)',
                      NEW k \in 1 .. Len(copied'[j])
               PROVE  ByteAt(image, image.table[j].offset + k - 1) = copied'[j][k]
    BY <1>3, <1>4 DEF Intact
  <2>1. j \in 1 .. m - 1 /\ copied'[j] = copied[j]
    BY <1>3, <1>4
  <2>2. Steady(j - 1)
    BY <1>3, <1>9, <2>1
  <2> QED BY <1>0, <1>3, <2>1, <2>2 DEF Intact
<1> QED BY <1>5, <1>7, <1>8, <1>10, <1>11 DEF IInv

\* Each block lands behind what its file's entry already has, if the lengths of
\* all files before were steady.
LEMMA ReadBlockStep == ASSUME IInv, ReadBlock PROVE IInv'
<1>0. TypeOK /\ Chain /\ Apart /\ Described /\ Progress /\ DataEnd /\ Intact
  BY DEF IInv
<1>1. PICK c, m, old : c = Block /\ m = i /\ old = copied[m]
  OBVIOUS
<1>2. c \in Seq(Data) /\ Len(c) \in Nat
  <2>1. rest \in Seq(Data) /\ Len(rest) \in Nat
    BY <1>0 DEF TypeOK
  <2>2. SubSeq(rest, 1, Len(rest)) \in Seq(Data)
    BY <2>1
  <2>3. ~(Len(rest) < BlockSize) => SubSeq(rest, 1, BlockSize) \in Seq(Data)
    BY <2>1, BlockSizeAssumption
  <2>4. c \in Seq(Data)
    BY <1>1, <2>2, <2>3 DEF Block
  <2> QED BY <2>4
<1>3. /\ m = i /\ i' \in {m, m + 1} /\ m \in Nat /\ m >= 1 /\ m <= Len(argv)
      /\ Len(argv) \in Nat
      /\ Len(image.table) = Len(argv) /\ Len(copied) = m
      /\ image.data \in Seq(Data) /\ copied \in Seq(Seq(Data)) /\ image.table \in Seq(Entries)
      /\ old = copied[m] /\ old \in Seq(Data)
  BY <1>0, <1>1, ImageTypes, LineTypes DEF Progress, TypeOK, ReadBlock
<1>4. /\ image' \in Images
      /\ image'.table = image.table /\ image'.entries = image.entries
      /\ image'.data = image.data \o c
  <2>1. image.data \o c \in Seq(Data)
    BY <1>2, <1>3
  <2> QED BY <1>0, <1>1, <2>1 DEF TypeOK, Images, ReadBlock
<1>5. /\ Len(image'.data) = Len(image.data) + Len(c)
      /\ \A d \in 1 .. Len(image.data) : image'.data[d] = image.data[d]
      /\ \A d \in 1 .. Len(c) : image'.data[Len(image.data) + d] = c[d]
  <2>1. /\ Len(image.data \o c) = Len(image.data) + Len(c)
        /\ \A d \in 1 .. Len(image.data) : (image.data \o c)[d] = image.data[d]
        /\ \A d \in 1 .. Len(c) : (image.data \o c)[Len(image.data) + d] = c[d]
    BY <1>2, <1>3, Concatenation
  <2> QED BY <1>4, <2>1
<1>15. /\ old \o c \in Seq(Data) /\ Len(old \o c) = Len(old) + Len(c)
       /\ \A d \in 1 .. Len(old) : (old \o c)[d] = old[d]
       /\ \A d \in 1 .. Len(c) : (old \o c)[Len(old) + d] = c[d]
  BY <1>2, <1>3, Concatenation
<1>6. /\ copied' \in Seq(Seq(Data)) /\ Len(copied') = m /\ copied' # <<>>
      /\ copied'[m] = old \o c
      /\ \A j \in 1 .. m - 1 : copied'[j] = copied[j]
  <2>1. copied' = [copied EXCEPT ![m] = old \o c]
    BY <1>1, <1>3 DEF ReadBlock
  <2> QED BY <1>3, <1>15, <2>1
<1>7. TypeOK'
  <2>1. rest' \in Seq(Data)
    BY <1>0, <1>1, <1>2, Tails DEF TypeOK, ReadBlock
  <2>2. i' \in 1 .. Len(argv) + 1 /\ Len(copied') <= Len(argv) /\ pc' \in PCs
    BY <1>0, <1>3, <1>6 DEF TypeOK, PCs, ReadBlock
  <2> QED BY <1>0, <1>4, <1>6, <2>1, <2>2 DEF TypeOK, ReadBlock
<1>8. entries' = entries /\ DataStart(image)' = DataStart(image)
        /\ \A n : End(n)' = End(n)
  BY <1>4 DEF entries, DataStart, End, ReadBlock
<1>9. Chain' /\ Apart' /\ Described'
  <2>1. Chain'
    BY <1>0, <1>4, <1>8 DEF Chain, ReadBlock
  <2> QED BY <1>0, <1>4, <2>1 DEF Apart, Described, ReadBlock
<1>10. Progress'
  BY <1>0, <1>1, <1>3, <1>4, <1>6, <1>8 DEF Progress, ReadBlock
<1>11. \A n \in 0 .. m - 1 : Steady(n)' => Steady(n)
  BY <1>3, <1>4, <1>6 DEF Steady
<1>12. ASSUME Len(argv) < EntryLimit, Steady(m - 1)
       PROVE  DataStart(image) + Len(image.data) = image.table[m].offset + Len(old)
  <2>1. copied # <<>>
    BY <1>3
  <2> QED BY <1>0, <1>3, <1>12, <2>1 DEF DataEnd
<1>16. image.table[m].offset \in Nat /\ Len(image.data) \in Nat /\ DataStart(image) \in Nat
         /\ Len(old) \in Nat
  <2>1. m \in 1 .. Len(image.table)
    BY <1>3
  <2>2. image.table[m].offset \in Nat
    BY <1>0, <2>1, ImageTypes
  <2>3. Len(old) \in Nat
    BY <1>3
  <2> QED BY <1>0, <2>2, <2>3, ImageTypes
<1>17. PICK start, size, base, got :
         /\ start = DataStart(image) /\ size = Len(image.data)
         /\ base = image.table[m].offset /\ got = Len(old)
  OBVIOUS
<1>18. start \in Nat /\ size \in Nat /\ base \in Nat /\ got \in Nat
  BY <1>16, <1>17
<1>13. DataEnd'
  <2> SUFFICES ASSUME Len(argv) < EntryLimit, Steady(m - 1)'
               PROVE  DataStart(image) + Len(image'.data)
                        = image.table[m].offset + Len(old \o c)
    BY <1>4, <1>6, <1>8 DEF DataEnd, Steady, ReadBlock
  <2>1. Steady(m - 1)
    BY <1>3, <1>11
  <2>2. start + size = base + got
    BY <1>12, <1>17, <2>1
  <2>3. Len(image'.data) = Len(image.data) + Len(c) /\ Len(old \o c) = Len(old) + Len(c)
    BY <1>5, <1>15
  <2>4. start + (size + Len(c)) = base + (got + Len(c))
    BY <1>2, <1>18, <2>2
  <2> QED BY <1>17, <2>3, <2>4
<1>14. Intact'
  <2> SUFFICES ASSUME Len(argv) < EntryLimit, NEW j \in 1 .. m, Steady(j - 1)',
                      NEW k \in 1 .. Len(copied'[j])
               PROVE  ByteAt(image', image.table[j].offset + k - 1) = copied'[j][k]
    <3>1. DataStart(image') = DataStart(image)' /\ UNCHANGED argv
      BY DEF ReadBlock
    <3> QED BY <1>4, <1>6, <3>1 DEF Intact, Steady
  <2> DEFINE p == image.table[j].offset + k - 1
  <2>1. image.table[j].offset \in Nat
    <3>1. \A h \in 1 .. Len(image.table) : image.table[h].offset \in Nat
      BY <1>0, ImageTypes
    <3>2. j \in 1 .. Len(image.table)
      BY <1>3
    <3> QED BY <3>1, <3>2
  <2>2. DataStart(image') = DataStart(image)
    BY <1>8
  <2>3. Steady(j - 1)
    BY <1>3, <1>11
  <2>4. ASSUME k \in 1 .. Len(copied[j]), copied'[j][k] = copied[j][k]
        PROVE  ByteAt(image', p) = copied'[j][k]
    <3>1. copied[j] \in Seq(Data)
      BY <1>3
    <3>2. ByteAt(image, p) = copied[j][k]
      BY <1>0, <1>3, <2>3, <2>4 DEF Intact
    <3>3. copied[j][k] # Foreign
      BY <2>4, <3>1, DataAssumption
    <3>4. p - DataStart(image) + 1 \in 1 .. Len(image.data)
      BY <3>2, <3>3 DEF ByteAt
    <3>5. p - DataStart(image) + 1 \in 1 .. Len(image'.data)
      BY <1>2, <1>5, <1>16, <3>4
    <3>6. ByteAt(image', p) = ByteAt(image, p)
      BY <1>5, <2>2, <3>4, <3>5 DEF ByteAt
    <3> QED BY <2>4, <3>2, <3>6
  <2>5. CASE j \in 1 .. m - 1
    BY <1>6, <2>4, <2>5
  <2>6. CASE j = m /\ k \in 1 .. Len(old)
    BY <1>3, <1>6, <1>15, <2>4, <2>6
  <2>7. CASE j = m /\ k > Len(old)
    <3>1. PICK d : d = k - Len(old)
      OBVIOUS
    <3>2. d \in 1 .. Len(c) /\ k = Len(old) + d
      BY <1>2, <1>6, <1>15, <1>16, <2>7, <3>1
    <3>3. copied'[j][k] = c[d]
      BY <1>6, <1>15, <2>7, <3>2
    <3>4. p - DataStart(image) + 1 = Len(image.data) + d
      <4>1. start + size = base + got
        BY <1>12, <1>17, <2>3, <2>7
      <4>2. d \in Nat /\ p = base + (got + d) - 1
        BY <1>2, <1>17, <2>7, <3>2
      <4> HIDE DEF p
      <4>3. p - start + 1 = size + d
        BY <1>18, <4>1, <4>2
      <4> QED BY <1>17, <4>3
    <3>5. Len(image.data) + d \in 1 .. Len(image'.data)
      BY <1>2, <1>5, <1>16, <3>2
    <3> QED BY <1>5, <2>2, <3>2, <3>3, <3>4, <3>5 DEF ByteAt
  <2> QED BY <1>3, <1>6, <1>15, <1>16, <2>5, <2>6, <2>7
<1> QED BY <1>7, <1>9, <1>10, <1>13, <1>14 DEF IInv

-----------------------------------------------------------------------------
(* The theorems. *)

THEOREM Invariant == Spec => []IInv
<1>1. IInv /\ [Next]_vars => IInv'
  <2> SUFFICES ASSUME IInv, [Next]_vars PROVE IInv'
    OBVIOUS
  <2>1. CASE EditFile \/ RemoveFile
    BY <2>1, FilesChange
  <2>2. CASE \/ TooFewArguments \/ StatFails \/ BasenameLoops \/ EndOfTable
             \/ CopyCrashes \/ ReadFails \/ Exit
    BY <2>2, OtherSteps
  <2>3. CASE WriteHeader
    BY <2>3, WriteHeaderStep
  <2>4. CASE Stat
    BY <2>4, StatStep
  <2>5. CASE OpenInput \/ ReadBlock
    BY <2>5, OpenInputStep, ReadBlockStep
  <2>6. CASE UNCHANGED vars
    <3>1. TypeOK' /\ Progress'
      BY <2>6 DEF IInv, TypeOK, Progress, entries, vars
    <3> QED BY <2>6, <3>1, SameImage DEF vars
  <2> QED BY <2>1, <2>2, <2>3, <2>4, <2>5, <2>6 DEF Next, main
<1> QED BY InitIInv, <1>1, PTL DEF Spec

\* Every variable of the packer keeps its type.
THEOREM TypeCorrect == Spec => []TypeOK
<1>1. IInv => TypeOK
  BY DEF IInv
<1> QED BY Invariant, <1>1, PTL

\* The table's spans never overlap one another or the table, whatever files are
\* packed and however they are edited meanwhile.
THEOREM SpansStayApart == Spec => []SpansApart
<1>1. ASSUME IInv PROVE SpansApart
  <2> USE <1>1 DEF IInv
  <2> SUFFICES ASSUME NEW n \in DOMAIN image.table, Len(argv) < EntryLimit
               PROVE  image.table[n].offset >= DataStart(image)
    BY DEF SpansApart, Apart
  <2>1. image.table[n].offset >= FirstOffset(Len(argv)) /\ image.table[n].offset \in Nat
    BY LineTypes, ImageTypes DEF Chain
  <2>2. Len(image.table) <= Len(argv) /\ Len(image.table) \in Nat /\ Len(argv) \in Nat
    BY LineTypes, ImageTypes DEF TypeOK
  <2> QED BY <2>1, <2>2 DEF DataStart, FirstOffset, header_size, entry_size
<1> QED BY Invariant, <1>1, PTL

\* When the packer has come to its end, the kernel's lookup returns what was
\* copied from a file, for any number of files of any lengths, provided their
\* lengths were steady and the name is the file's alone and short enough.
THEOREM PackedFilesAreFound == Spec => []FilesFound
<1>1. ASSUME IInv PROVE FilesFound
  <2> USE <1>1 DEF IInv
  <2> SUFFICES ASSUME Packed, NEW j \in DOMAIN argv, NEW name, name = Name(argv[j]),
                      NEW f, f = get_romdisk_file(image, name),
                      NameLength[name] < filename_size, Steady(j),
                      \A n \in 1 .. j - 1 : Name(argv[n]) # name
               PROVE  ~f.noent /\ Contents(image, f) = copied[j]
    BY DEF FilesFound
  <2>1. /\ j \in 1 .. Len(argv) /\ Len(argv) \in Nat /\ entries = Len(argv)
        /\ image.entries = Len(argv) /\ Len(image.table) = Len(argv)
        /\ Len(copied) = Len(argv) /\ DOMAIN image.table = 1 .. Len(argv)
    BY LineTypes, ImageTypes DEF Progress, Packed
  <2>2. Listed(image) = 1 .. Len(argv)
    BY <2>1 DEF Listed
  <2>3. j \in Matches(image, name)
    BY <2>1, <2>2 DEF Matches, Described
  <2>4. \A n \in Matches(image, name) : n \in Nat /\ j <= n
    BY <2>1, <2>2 DEF Matches, Described
  <2>5. Found(Matches(image, name)) = j
    BY <2>1, <2>3, <2>4 DEF Found, Min
  <2>6. f = [file |-> image.table[j].offset, length |-> image.table[j].length, noent |-> FALSE]
    BY <2>3, <2>5 DEF get_romdisk_file
  <2>7. copied[j] \in Seq(Data) /\ Len(copied[j]) = image.table[j].length
    <3>1. copied[j] \in Seq(Data)
      BY <2>1, ImageTypes
    <3>2. Len(copied[j]) = image.table[j].length
      BY <2>1 DEF Steady
    <3> QED BY <3>1, <3>2
  <2>8. \A k \in 1 .. Len(copied[j]) :
          ByteAt(image, image.table[j].offset + k - 1) = copied[j][k]
    <3>1. Steady(j - 1)
      BY <2>1 DEF Steady
    <3> QED BY <2>1, <3>1 DEF Intact, Packed
  <2>9. Contents(image, f) = [k \in 1 .. Len(copied[j]) |-> copied[j][k]]
    BY <2>6, <2>7, <2>8 DEF Contents
  <2>10. copied[j] = [k \in 1 .. Len(copied[j]) |-> copied[j][k]]
    BY <2>7
  <2> QED BY <2>6, <2>9, <2>10
<1> QED BY Invariant, <1>1, PTL

\* When the packer has come to its end, the kernel's lookup finds exactly the
\* names of the packed files, whatever happened to the files meanwhile.
THEOREM PackedNamesAreFound == Spec => []FoundIfPacked
<1>1. ASSUME IInv PROVE FoundIfPacked
  <2> USE <1>1 DEF IInv
  <2> SUFFICES ASSUME Packed, NEW name \in Names, NameLength[name] < filename_size
               PROVE  Matches(image, name) # {}
                        <=> \E j \in DOMAIN argv : Name(argv[j]) = name
    BY DEF FoundIfPacked, get_romdisk_file
  <2>1. /\ Len(argv) \in Nat /\ entries = Len(argv) /\ DOMAIN argv = 1 .. Len(argv)
        /\ image.entries = Len(argv) /\ Len(image.table) = Len(argv)
        /\ DOMAIN image.table = 1 .. Len(argv)
    BY LineTypes, ImageTypes DEF Progress, Packed
  <2>2. Listed(image) = 1 .. Len(argv)
    BY <2>1 DEF Listed
  <2> QED BY <2>1, <2>2 DEF Matches, Described
<1> QED BY Invariant, <1>1, PTL

=============================================================================
