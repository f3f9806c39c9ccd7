--------------------------- MODULE ProgramsProofs ---------------------------
(***************************************************************************)
(* Proofs about Programs and the Arguments it takes from a line, for every *)
(* ROMDISK, memory layout, set of calls, line and size of the buffers.     *)
(***************************************************************************)
EXTENDS Programs, TLAPS, FiniteSetTheorems, WellFoundedInduction

-----------------------------------------------------------------------------
(* Arguments: the locals of split_string count what a reader of the line   *)
(* would count, so that they leave the buffers only where the line does    *)
(* not fit them.                                                           *)

\* A set of indices has a least one: 1 .. h is a subset of 1 .. m that shrinks
\* with h.
LEMMA LeastExists ==
  ASSUME NEW m \in Nat, NEW S \in SUBSET (1 .. m), S # {}
  PROVE  Min(S) \in S /\ \A g \in S : Min(S) <= g
<1> DEFINE Prefixes == {1 .. h : h \in S}
<1>1. IsWellFoundedOn(StrictSubsetOrdering(1 .. m), FiniteSubsetsOf(1 .. m))
  BY FS_StrictSubsetOrderingWellFounded
<1>2. FiniteSubsetsOf(1 .. m) = SUBSET (1 .. m)
  <2>1. IsFiniteSet(1 .. m)
    BY FS_Interval
  <2> QED BY <2>1, FS_FiniteSubsetsOfFinite
<1>3. Prefixes \subseteq SUBSET (1 .. m) /\ Prefixes # {}
  <2>1. \A h \in S : 1 .. h \subseteq 1 .. m
    OBVIOUS
  <2>2. PICK h \in S : TRUE
    OBVIOUS
  <2>3. 1 .. h \in Prefixes
    OBVIOUS
  <2> QED BY <2>1, <2>3
<1>4. PICK x \in Prefixes : \A y \in Prefixes : <<y, x>> \notin StrictSubsetOrdering(1 .. m)
  BY <1>1, <1>2, <1>3, WFMin
<1>5. PICK h \in S : x = 1 .. h
  OBVIOUS
<1>6. ASSUME NEW g \in S, g < h PROVE FALSE
  <2>1. 1 .. g \in Prefixes
    OBVIOUS
  <2>2. 1 .. g \subseteq 1 .. h /\ h \in 1 .. h /\ h \notin 1 .. g
    BY <1>6
  <2>3. <<1 .. g, x>> \in StrictSubsetOrdering(1 .. m)
    BY <1>3, <1>5, <2>1, <2>2 DEF StrictSubsetOrdering
  <2> QED BY <1>4, <2>1, <2>3
<1>7. \A g \in S : h <= g
  BY <1>6
<1> QED BY <1>7 DEF Min

-----------------------------------------------------------------------------
(* What is counted. *)

BreaksTo(p) == {b \in Breaks : b <= p}
WordTo(p) == {q \in 1 .. p : command[q] # Escape /\ \A b \in BreaksTo(p) : b < q}

\* The locals of split_string, once it has read j characters.
Counted ==
  /\ i = Cardinality(BreaksTo(j))
  /\ k = Cardinality(WordTo(j))
  /\ escaped = (IF Quoted(j) THEN TRUE ELSE FALSE)

ArgumentsType == command \in Seq(Characters) /\ j \in 0 .. Len(command)

\* Every set of positions is finite.
LEMMA Finite ==
  ASSUME ArgumentsType, NEW p \in Nat
  PROVE  /\ IsFiniteSet(Escapes(p)) /\ Cardinality(Escapes(p)) \in Nat
         /\ IsFiniteSet(BreaksTo(p)) /\ Cardinality(BreaksTo(p)) \in Nat
         /\ IsFiniteSet(WordTo(p)) /\ Cardinality(WordTo(p)) \in Nat
         /\ IsFiniteSet(Breaks) /\ IsFiniteSet(Ends) /\ Cardinality(Ends) \in Nat
<1>1. Len(command) \in Nat
  BY DEF ArgumentsType
<1>2. IsFiniteSet(1 .. p) /\ IsFiniteSet(1 .. Len(command))
  BY <1>1, FS_Interval
<1>3. IsFiniteSet(Escapes(p)) /\ IsFiniteSet(WordTo(p))
  BY <1>2, FS_Subset DEF Escapes, WordTo
<1>4. IsFiniteSet(Breaks)
  BY <1>2, FS_Subset DEF Breaks
<1>5. IsFiniteSet(BreaksTo(p))
  BY <1>4, FS_Subset DEF BreaksTo
<1>6. IsFiniteSet(Ends)
  BY <1>4, FS_AddElement DEF Ends
<1> QED BY <1>3, <1>4, <1>5, <1>6, FS_CardinalityType

\* One more position adds at most one element to a set of positions.
LEMMA Escaped ==
  ASSUME ArgumentsType, j < Len(command)
  PROVE  Quoted(j + 1) <=> (IF command[j + 1] = Escape THEN ~Quoted(j) ELSE Quoted(j))
<1>1. j \in Nat
  BY DEF ArgumentsType
<1>2. CASE command[j + 1] = Escape
  <2>1. Escapes(j + 1) = Escapes(j) \cup {j + 1} /\ j + 1 \notin Escapes(j)
    BY <1>1, <1>2 DEF Escapes
  <2>2. Cardinality(Escapes(j + 1)) = Cardinality(Escapes(j)) + 1
    BY <1>1, <2>1, Finite, FS_AddElement
  <2>3. \A c \in Nat : (c + 1) % 2 = 1 <=> ~(c % 2 = 1)
    OBVIOUS
  <2> QED BY <1>1, <1>2, <2>2, <2>3, Finite DEF Quoted
<1>3. CASE command[j + 1] # Escape
  <2>1. Escapes(j + 1) = Escapes(j)
    BY <1>1, <1>3 DEF Escapes
  <2> QED BY <1>3, <2>1 DEF Quoted
<1> QED BY <1>2, <1>3

\* A character that separates nothing.
LEMMA SameArgument ==
  ASSUME ArgumentsType, j < Len(command), j + 1 \notin Breaks
  PROVE  /\ BreaksTo(j + 1) = BreaksTo(j)
         /\ Cardinality(WordTo(j + 1)) =
              IF command[j + 1] = Escape THEN Cardinality(WordTo(j))
              ELSE Cardinality(WordTo(j)) + 1
<1>1. j \in Nat
  BY DEF ArgumentsType
<1>2. \A b \in Breaks : b \in Nat
  BY DEF Breaks
<1>3. BreaksTo(j + 1) = BreaksTo(j)
  BY <1>1, <1>2 DEF BreaksTo
<1>4. CASE command[j + 1] = Escape
  <2>1. WordTo(j + 1) = WordTo(j)
    BY <1>1, <1>3, <1>4 DEF WordTo
  <2> QED BY <1>3, <1>4, <2>1
<1>5. CASE command[j + 1] # Escape
  <2>1. \A b \in BreaksTo(j) : b < j + 1
    BY <1>1, <1>2 DEF BreaksTo
  <2>2. WordTo(j + 1) = WordTo(j) \cup {j + 1} /\ j + 1 \notin WordTo(j)
    BY <1>1, <1>3, <1>5, <2>1 DEF WordTo
  <2> QED BY <1>1, <1>3, <1>5, <2>2, Finite, FS_AddElement
<1> QED BY <1>4, <1>5

\* A character that ends an argument.
LEMMA NextArgument ==
  ASSUME ArgumentsType, j < Len(command), j + 1 \in Breaks
  PROVE  /\ Cardinality(BreaksTo(j + 1)) = Cardinality(BreaksTo(j)) + 1
         /\ Cardinality(WordTo(j + 1)) = 0
<1>1. j \in Nat
  BY DEF ArgumentsType
<1>2. \A b \in Breaks : b \in Nat
  BY DEF Breaks
<1>3. BreaksTo(j + 1) = BreaksTo(j) \cup {j + 1} /\ j + 1 \notin BreaksTo(j)
  BY <1>1, <1>2 DEF BreaksTo
<1>4. WordTo(j + 1) = {}
  BY <1>1, <1>3 DEF WordTo
<1>5. Cardinality(BreaksTo(j + 1)) = Cardinality(BreaksTo(j)) + 1
  BY <1>1, <1>3, Finite, FS_AddElement
<1> QED BY <1>4, <1>5, FS_EmptySet

\* split_string keeps count.
LEMMA SplitCounts ==
  ASSUME ArgumentsType, Counted, split_string
  PROVE  Counted'
<1>1. j < Len(command) /\ CharacterAt(j) = command[j + 1] /\ j \in Nat
  BY DEF ArgumentsType, split_string, ToggleEscape, EndArgument, PutCharacter, CharacterAt,
         AtDelimiter, AtCharacter, Nul, Escape, Delimiter
<1>2. j + 1 \in 1 .. Len(command)
  BY <1>1 DEF ArgumentsType
<1>3. command' = command /\ j' = j + 1
  BY DEF split_string, ToggleEscape, EndArgument, PutCharacter
<1>4. j + 1 \in Breaks <=> command[j + 1] = Delimiter /\ ~Quoted(j + 1)
  BY <1>2 DEF Breaks
<1>5. Counted' <=> /\ i' = Cardinality(BreaksTo(j + 1))
                   /\ k' = Cardinality(WordTo(j + 1))
                   /\ escaped' = (IF Quoted(j + 1) THEN TRUE ELSE FALSE)
  BY <1>3 DEF Counted, BreaksTo, WordTo, Breaks, Quoted, Escapes
<1>6. /\ i = Cardinality(BreaksTo(j)) /\ k = Cardinality(WordTo(j))
      /\ escaped = (IF Quoted(j) THEN TRUE ELSE FALSE)
  BY DEF Counted
<1>7. CASE ToggleEscape
  <2>1. command[j + 1] = Escape /\ j + 1 \notin Breaks
    BY <1>1, <1>4, <1>7 DEF ToggleEscape, Escape, Delimiter
  <2>2. i' = i /\ k' = k /\ escaped' = ~escaped
    BY <1>7 DEF ToggleEscape
  <2> QED BY <1>1, <1>5, <1>6, <2>1, <2>2, Escaped, SameArgument
<1>8. CASE EndArgument
  <2>1. command[j + 1] = Delimiter /\ ~Quoted(j) /\ command[j + 1] # Escape
    BY <1>1, <1>6, <1>8 DEF EndArgument, AtDelimiter, Escape, Delimiter
  <2>2. j + 1 \in Breaks /\ ~Quoted(j + 1)
    BY <1>1, <1>4, <2>1, Escaped
  <2>3. i' = i + 1 /\ k' = 0 /\ escaped' = escaped
    BY <1>8 DEF EndArgument
  <2> QED BY <1>1, <1>5, <1>6, <2>1, <2>2, <2>3, NextArgument
<1>9. CASE PutCharacter
  <2>1. command[j + 1] # Escape /\ ~(command[j + 1] = Delimiter /\ ~Quoted(j))
    BY <1>1, <1>6, <1>9 DEF PutCharacter, AtCharacter, AtDelimiter
  <2>2. j + 1 \notin Breaks /\ (Quoted(j + 1) <=> Quoted(j))
    BY <1>1, <1>4, <2>1, Escaped
  <2>3. i' = i /\ k' = k + 1 /\ escaped' = escaped
    BY <1>9 DEF PutCharacter
  <2> QED BY <1>1, <1>5, <1>6, <2>1, <2>2, <2>3, SameArgument
<1> QED BY <1>7, <1>8, <1>9 DEF split_string

\* The argument being read has an end, and no break lies between.
LEMMA EndAhead ==
  ASSUME ArgumentsType, j < Len(command)
  PROVE  \E e \in Ends : j < e /\ Before(e) = BreaksTo(j)
<1> DEFINE m == Len(command) + 1
           Ahead == {e \in Ends : j < e}
<1>1. m \in Nat /\ j \in Nat
  BY DEF ArgumentsType
<1>2. \A b \in Breaks : b \in 1 .. Len(command)
  BY DEF Breaks
<1>3. Breaks \subseteq Ends /\ Ends \subseteq 1 .. m /\ Ahead \in SUBSET (1 .. m)
  BY <1>1, <1>2 DEF Ends
<1>4. Ahead # {}
  <2>1. Len(command) \in Ends \/ Len(command) + 1 \in Ends
    BY DEF Ends
  <2> QED BY <1>1, <2>1
<1>5. PICK e \in Ahead : \A g \in Ahead : e <= g
  <2> HIDE DEF Ahead, m
  <2> QED BY <1>1, <1>3, <1>4, LeastExists
<1>6. \A b \in Breaks : b < e <=> b <= j
  BY <1>1, <1>2, <1>3, <1>5
<1> QED BY <1>5, <1>6 DEF Before, BreaksTo

\* Where the next write goes to no buffer, the line does not fit.
LEMMA StrayMeansLong ==
  ASSUME ArgumentsType, Counted, StrayWrite
  PROVE  ~Fits
<1>1. j < Len(command) /\ j \in Nat
  BY DEF ArgumentsType, StrayWrite, CharacterAt, AtDelimiter, AtCharacter, Nul, Escape, Delimiter
<1>2. PICK e \in Ends : j < e /\ Before(e) = BreaksTo(j)
  BY <1>1, EndAhead
<1>3. i \in Nat /\ k \in Nat
  BY <1>1, Finite DEF Counted
<1>4. CASE i >= MaxArgs
  <2>1. BreaksTo(j) \subseteq Ends \ {e}
    <3>1. \A b \in BreaksTo(j) : b \in Ends /\ b <= j /\ b \in Nat
      BY DEF BreaksTo, Ends, Breaks
    <3> QED BY <1>1, <1>2, <3>1
  <2>2. IsFiniteSet(Ends \ {e}) /\ Cardinality(Ends \ {e}) = Cardinality(Ends) - 1
    BY <1>1, <1>2, Finite, FS_RemoveElement
  <2>3. i <= Cardinality(Ends) - 1
    BY <2>1, <2>2, FS_Subset DEF Counted
  <2>4. Cardinality(Ends) \in Nat /\ MaxArgs \in Nat
    BY <1>1, Finite, BuffersAssumption
  <2>5. ~(Cardinality(Ends) <= MaxArgs)
    BY <1>3, <1>4, <2>3, <2>4
  <2> QED BY <2>5 DEF Fits
<1>5. CASE i < MaxArgs
  <2>1. k >= ArgLength
    <3>1. ~(i * ArgLength + k \in 0 .. MaxArgs * ArgLength - 1)
      BY <1>5 DEF StrayWrite, InBuffers, Place, Memory
    <3>2. i * ArgLength + ArgLength <= MaxArgs * ArgLength
      BY <1>3, <1>5, BuffersAssumption
    <3>3. i * ArgLength \in Nat /\ MaxArgs * ArgLength \in Nat
      BY <1>3, BuffersAssumption
    <3> QED BY <1>3, <3>1, <3>2, <3>3, BuffersAssumption
  <2> DEFINE W == Letters(e, e - 1)
  <2>2. e \in Nat /\ IsFiniteSet(W)
    <3>1. e \in Nat
      BY <1>2 DEF Ends, Breaks, ArgumentsType
    <3>2. IsFiniteSet(1 .. e - 1)
      BY <3>1, FS_Interval
    <3>3. W \subseteq 1 .. e - 1
      BY DEF Letters
    <3> QED BY <3>1, <3>2, <3>3, FS_Subset
  <2>3. WordTo(j) \subseteq W
    BY <1>1, <1>2, <2>2 DEF WordTo, Letters
  <2>4. k <= Cardinality(W) /\ Cardinality(W) \in Nat
    BY <2>2, <2>3, FS_Subset, FS_CardinalityType DEF Counted
  <2>5. WordLength(e) >= ArgLength
    BY <1>3, <2>1, <2>4, BuffersAssumption DEF WordLength
  <2> QED BY <1>2, <2>4, <2>5, BuffersAssumption DEF Fits, WordLength
<1> QED BY <1>3, <1>4, <1>5, BuffersAssumption

-----------------------------------------------------------------------------
(* The buffers: an argument that has been read stands in its buffer, and    *)
(* what follows is still zero, as long as the line fits the buffers.        *)

Cell(e, h) == Index(e) * ArgLength + h

\* The argument that ends before e is in its buffer up to position p.
Copied(mem, e, p) ==
  /\ \A q \in Letters(e, p) : mem[Cell(e, Cardinality(Letters(e, q)) - 1)] = command[q]
  /\ \A h \in 0 .. Cardinality(Letters(e, p)) - 1 : mem[Cell(e, h)] # Nul

Finished(mem, e) == Copied(mem, e, e - 1) /\ mem[Cell(e, WordLength(e))] = Nul

\* What mem holds once p characters are read and the next write goes to place.
InPlace(mem, p, place) ==
  /\ \A e \in BreaksTo(p) : Finished(mem, e)
  /\ \A e \in Ends : p < e /\ Before(e) = BreaksTo(p) => Copied(mem, e, p)
  /\ \A a \in Memory : place <= a => mem[a] = Nul

LEMMA EndsType ==
  ASSUME ArgumentsType, NEW e \in Ends
  PROVE  /\ e \in Nat /\ e >= 1 /\ e - 1 \in Nat /\ e <= Len(command) + 1
         /\ IsFiniteSet(Before(e)) /\ Index(e) \in Nat
<1>1. e \in Nat /\ e >= 1 /\ e <= Len(command) + 1
  BY DEF Ends, Breaks, ArgumentsType
<1>2. IsFiniteSet(Breaks)
  BY Finite
<1>3. IsFiniteSet(Before(e))
  BY <1>2, FS_Subset DEF Before
<1> QED BY <1>1, <1>3, FS_CardinalityType DEF Index

\* A place among the letters of an argument is one of its own.
LEMMA LettersCount ==
  ASSUME NEW e, NEW p \in Nat
  PROVE  /\ IsFiniteSet(Letters(e, p)) /\ Cardinality(Letters(e, p)) \in Nat
         /\ \A q \in Letters(e, p) :
              /\ q \in 1 .. p
              /\ Cardinality(Letters(e, q)) \in 1 .. Cardinality(Letters(e, p))
<1>1. \A r \in Nat : IsFiniteSet(Letters(e, r)) /\ Cardinality(Letters(e, r)) \in Nat
  <2> TAKE r \in Nat
  <2>1. IsFiniteSet(1 .. r)
    BY FS_Interval
  <2>2. Letters(e, r) \subseteq 1 .. r
    BY DEF Letters
  <2> QED BY <2>1, <2>2, FS_Subset, FS_CardinalityType
<1>2. ASSUME NEW q \in Letters(e, p)
      PROVE  /\ q \in 1 .. p
             /\ Cardinality(Letters(e, q)) \in 1 .. Cardinality(Letters(e, p))
  <2>1. q \in 1 .. p /\ q \in Nat
    BY DEF Letters
  <2>2. Letters(e, q) \subseteq Letters(e, p) /\ q \in Letters(e, q)
    BY <2>1 DEF Letters
  <2>3. Cardinality(Letters(e, q)) <= Cardinality(Letters(e, p))
    BY <1>1, <2>2, FS_Subset
  <2>4. Cardinality(Letters(e, q)) # 0
    BY <1>1, <2>1, <2>2, FS_EmptySet
  <2> QED BY <1>1, <2>1, <2>3, <2>4
<1> QED BY <1>1, <1>2

\* Each argument of a line that fits has a buffer of its own and room to spare.
LEMMA BufferOf ==
  ASSUME ArgumentsType, Fits, NEW e \in Ends
  PROVE  /\ Index(e) < MaxArgs
         /\ WordLength(e) \in 0 .. ArgLength - 1
         /\ Index(e) * ArgLength \in Nat
         /\ Index(e) * ArgLength + ArgLength <= MaxArgs * ArgLength
         /\ \A h \in 0 .. ArgLength - 1 : Cell(e, h) \in Memory
<1>1. Index(e) \in Nat /\ e \in Nat /\ e - 1 \in Nat
  BY EndsType
<1>2. Index(e) < MaxArgs
  <2>1. Before(e) \subseteq Ends \ {e}
    BY <1>1 DEF Before, Ends, Breaks
  <2>2. IsFiniteSet(Ends)
    BY Finite
  <2>3. IsFiniteSet(Ends \ {e}) /\ Cardinality(Ends \ {e}) = Cardinality(Ends) - 1
    BY <2>2, FS_RemoveElement
  <2>4. Index(e) <= Cardinality(Ends) - 1
    BY <2>1, <2>3, FS_Subset DEF Index
  <2>5. Cardinality(Ends) \in Nat
    BY <2>2, FS_CardinalityType
  <2> QED BY <1>1, <2>4, <2>5, BuffersAssumption DEF Fits
<1>3. WordLength(e) \in 0 .. ArgLength - 1
  <2>1. WordLength(e) \in Nat /\ WordLength(e) < ArgLength
    BY <1>1, LettersCount DEF WordLength, Fits
  <2> QED BY <2>1, BuffersAssumption
<1>4. Index(e) * ArgLength \in Nat /\ MaxArgs * ArgLength \in Nat
  BY <1>1, BuffersAssumption
<1>5. Index(e) * ArgLength + ArgLength <= MaxArgs * ArgLength
  BY <1>1, <1>2, BuffersAssumption
<1>6. \A h \in 0 .. ArgLength - 1 : Cell(e, h) \in Memory
  BY <1>4, <1>5, BuffersAssumption DEF Cell, Memory
<1> QED BY <1>2, <1>3, <1>4, <1>5, <1>6

\* The buffer of an argument that has ended lies before that of the current one.
LEMMA EarlierBuffer ==
  ASSUME ArgumentsType, Counted, Fits, NEW e \in BreaksTo(j)
  PROVE  /\ e \in Ends
         /\ \A h \in 0 .. ArgLength - 1 : Cell(e, h) \in Memory /\ Cell(e, h) < Place
<1>1. j \in Nat
  BY DEF ArgumentsType
<1>2. e \in Ends /\ e \in Nat
  BY DEF BreaksTo, Ends, Breaks
<1>3. Before(e) \subseteq BreaksTo(j) \ {e}
  BY <1>1, <1>2 DEF Before, BreaksTo, Breaks
<1>4. IsFiniteSet(BreaksTo(j)) /\ i = Cardinality(BreaksTo(j)) /\ i \in Nat /\ k \in Nat
  BY <1>1, Finite DEF Counted
<1>5. IsFiniteSet(BreaksTo(j) \ {e}) /\ Cardinality(BreaksTo(j) \ {e}) = i - 1
  BY <1>4, FS_RemoveElement
<1>6. Index(e) <= i - 1 /\ Index(e) \in Nat
  BY <1>2, <1>3, <1>5, FS_Subset, EndsType DEF Index
<1>7. Index(e) * ArgLength + ArgLength <= i * ArgLength
  BY <1>4, <1>6, BuffersAssumption
<1>8. Index(e) * ArgLength \in Nat /\ i * ArgLength \in Nat
  BY <1>4, <1>6, BuffersAssumption
<1>9. \A h \in 0 .. ArgLength - 1 : Cell(e, h) < Place
  BY <1>4, <1>7, <1>8, BuffersAssumption DEF Cell, Place
<1> QED BY <1>2, <1>9, BufferOf

\* The locals of split_string name the buffer of the argument that is read.
LEMMA CurrentBuffer ==
  ASSUME ArgumentsType, Counted, Fits, NEW e \in Ends, j < e, Before(e) = BreaksTo(j)
  PROVE  /\ Index(e) = i /\ k = Cardinality(Letters(e, j)) /\ k <= WordLength(e)
         /\ Place = Cell(e, k) /\ Place \in Memory
         /\ \A h \in 0 .. k - 1 : Cell(e, h) \in Memory /\ Cell(e, h) < Place
<1>1. j \in Nat /\ e \in Nat /\ e - 1 \in Nat
  BY EndsType DEF ArgumentsType
<1>2. Index(e) = i /\ Letters(e, j) = WordTo(j)
  BY DEF Counted, Index, Letters, WordTo
<1>3. k = Cardinality(Letters(e, j)) /\ k \in Nat
  BY <1>1, <1>2, LettersCount DEF Counted
<1>4. Letters(e, j) \subseteq Letters(e, e - 1)
  BY <1>1 DEF Letters
<1>5. k <= WordLength(e)
  BY <1>1, <1>3, <1>4, LettersCount, FS_Subset DEF WordLength
<1>6. k \in 0 .. ArgLength - 1
  BY <1>3, <1>5, BufferOf, BuffersAssumption
<1>7. Place = Cell(e, k)
  BY <1>2 DEF Place, Cell
<1>8. Index(e) * ArgLength \in Nat
  BY BufferOf
<1>9. \A h \in 0 .. k - 1 : h \in 0 .. ArgLength - 1 /\ Cell(e, h) < Cell(e, k)
  BY <1>6, <1>8, BuffersAssumption DEF Cell
<1> QED BY <1>2, <1>3, <1>5, <1>6, <1>7, <1>9, BufferOf

\* Writing elsewhere leaves what has been copied.
LEMMA CopiedElsewhere ==
  ASSUME NEW mem, NEW new, NEW e, NEW p \in Nat, Copied(mem, e, p),
         \A h \in 0 .. Cardinality(Letters(e, p)) - 1 : new[Cell(e, h)] = mem[Cell(e, h)]
  PROVE  Copied(new, e, p)
<1>1. ASSUME NEW q \in Letters(e, p)
      PROVE  new[Cell(e, Cardinality(Letters(e, q)) - 1)] = command[q]
  <2>1. Cardinality(Letters(e, q)) - 1 \in 0 .. Cardinality(Letters(e, p)) - 1
    BY LettersCount
  <2> QED BY <2>1 DEF Copied
<1> QED BY <1>1 DEF Copied

\* What one write leaves.
LEMMA WriteKeeps ==
  ASSUME ArgumentsType, Counted, Fits, j < Len(command),
         program_args \in [Memory -> Characters \cup {Nul}],
         InPlace(program_args, j, Place), NEW c
  PROVE  LET new == [program_args EXCEPT ![Place] = c]
         IN  /\ \A e \in BreaksTo(j) : Finished(new, e)
             /\ \A e \in Ends : j < e /\ Before(e) = BreaksTo(j) => Copied(new, e, j)
             /\ \A a \in Memory : Place < a => new[a] = Nul
             /\ new[Place] = c
<1> DEFINE new == [program_args EXCEPT ![Place] = c]
<1>1. PICK f \in Ends : j < f /\ Before(f) = BreaksTo(j)
  BY EndAhead
<1>2. Place \in Memory
  BY <1>1, CurrentBuffer
<1>3. /\ new[Place] = c
      /\ \A a \in Memory : a # Place => new[a] = program_args[a]
  BY <1>2
<1>4. \A a \in Memory : a \in Int
  BY DEF Memory
<1> HIDE DEF new
<1>5. ASSUME NEW e \in BreaksTo(j) PROVE Finished(new, e)
  <2>1. e \in Ends /\ \A h \in 0 .. ArgLength - 1 : new[Cell(e, h)] = program_args[Cell(e, h)]
    BY <1>2, <1>3, <1>4, EarlierBuffer
  <2>2. WordLength(e) \in 0 .. ArgLength - 1 /\ e - 1 \in Nat
    BY <2>1, BufferOf, EndsType
  <2>3. Finished(program_args, e)
    BY DEF InPlace
  <2>4. \A h \in 0 .. Cardinality(Letters(e, e - 1)) - 1 :
          new[Cell(e, h)] = program_args[Cell(e, h)]
    BY <2>1, <2>2, BuffersAssumption DEF WordLength
  <2>5. Copied(new, e, e - 1)
    BY <2>2, <2>3, <2>4, CopiedElsewhere DEF Finished
  <2> QED BY <2>1, <2>2, <2>3, <2>5 DEF Finished
<1>6. ASSUME NEW e \in Ends, j < e, Before(e) = BreaksTo(j) PROVE Copied(new, e, j)
  <2>1. j \in Nat
    BY DEF ArgumentsType
  <2>2. \A h \in 0 .. Cardinality(Letters(e, j)) - 1 :
          new[Cell(e, h)] = program_args[Cell(e, h)]
    BY <1>2, <1>3, <1>4, <1>6, CurrentBuffer
  <2> QED BY <1>6, <2>1, <2>2, CopiedElsewhere DEF InPlace
<1>7. \A a \in Memory : Place < a => new[a] = Nul
  BY <1>2, <1>3, <1>4 DEF InPlace
<1> QED BY <1>3, <1>5, <1>6, <1>7 DEF new

\* Every break ends an argument.
LEMMA BreaksNext ==
  ASSUME ArgumentsType, j < Len(command)
  PROVE  /\ j + 1 \notin Breaks => BreaksTo(j + 1) = BreaksTo(j)
         /\ j + 1 \in Breaks =>
              /\ BreaksTo(j + 1) = BreaksTo(j) \cup {j + 1}
              /\ j + 1 \in Ends /\ Before(j + 1) = BreaksTo(j)
<1>1. j \in Nat /\ \A b \in Breaks : b \in Nat
  BY DEF ArgumentsType, Breaks
<1>2. j + 1 \in Breaks => j + 1 \in Ends
  BY DEF Ends
<1> QED BY <1>1, <1>2 DEF BreaksTo, Before

LEMMA EscapeInPlace ==
  ASSUME ArgumentsType, j < Len(command), InPlace(program_args, j, Place),
         command[j + 1] = Escape
  PROVE  InPlace(program_args, j + 1, Place)
<1>1. j \in Nat
  BY DEF ArgumentsType
<1>2. j + 1 \notin Breaks
  BY DEF Breaks, Escape, Delimiter
<1>3. BreaksTo(j + 1) = BreaksTo(j)
  BY <1>2, BreaksNext
<1>4. ASSUME NEW e \in Ends, j + 1 < e, Before(e) = BreaksTo(j + 1)
      PROVE  Copied(program_args, e, j + 1)
  <2>1. Letters(e, j + 1) = Letters(e, j)
    BY <1>1 DEF Letters
  <2>2. j < e
    BY <1>1, <1>4, EndsType
  <2>3. Copied(program_args, e, j)
    BY <1>3, <1>4, <2>2 DEF InPlace
  <2> QED BY <2>1, <2>3 DEF Copied
<1> QED BY <1>3, <1>4 DEF InPlace

LEMMA CharacterInPlace ==
  ASSUME ArgumentsType, Counted, Fits, j < Len(command),
         program_args \in [Memory -> Characters \cup {Nul}],
         InPlace(program_args, j, Place),
         command[j + 1] # Escape, command[j + 1] # Nul, j + 1 \notin Breaks
  PROVE  InPlace([program_args EXCEPT ![Place] = command[j + 1]], j + 1, Place + 1)
<1> DEFINE new == [program_args EXCEPT ![Place] = command[j + 1]]
<1>1. j \in Nat /\ BreaksTo(j + 1) = BreaksTo(j)
  BY BreaksNext DEF ArgumentsType
<1>2. /\ \A e \in BreaksTo(j) : Finished(new, e)
      /\ \A e \in Ends : j < e /\ Before(e) = BreaksTo(j) => Copied(new, e, j)
      /\ \A a \in Memory : Place < a => new[a] = Nul
      /\ new[Place] = command[j + 1]
  BY WriteKeeps
<1> HIDE DEF new
<1>3. ASSUME NEW e \in Ends, j + 1 < e, Before(e) = BreaksTo(j)
      PROVE  Copied(new, e, j + 1)
  <2>1. j < e /\ Copied(new, e, j)
    BY <1>1, <1>2, <1>3, EndsType
  <2>2. Place = Cell(e, k) /\ k = Cardinality(Letters(e, j)) /\ k \in Nat
    BY <1>1, <1>3, <2>1, CurrentBuffer, LettersCount
  <2>3. \A b \in Before(e) : b < j + 1
    BY <1>1, <1>3 DEF BreaksTo, Breaks
  <2>4. Letters(e, j + 1) = Letters(e, j) \cup {j + 1} /\ j + 1 \notin Letters(e, j)
    BY <1>1, <2>3 DEF Letters
  <2>5. Cardinality(Letters(e, j + 1)) = k + 1
    BY <1>1, <2>2, <2>4, LettersCount, FS_AddElement
  <2>6. ASSUME NEW q \in Letters(e, j + 1)
        PROVE  new[Cell(e, Cardinality(Letters(e, q)) - 1)] = command[q]
    <3>1. CASE q = j + 1
      <4>1. Cardinality(Letters(e, q)) - 1 = k
        BY <2>2, <2>5, <3>1
      <4> QED BY <1>2, <2>2, <3>1, <4>1
    <3>2. CASE q # j + 1
      BY <2>1, <2>4, <3>2 DEF Copied
    <3> QED BY <3>1, <3>2
  <2>7. ASSUME NEW h \in 0 .. Cardinality(Letters(e, j + 1)) - 1
        PROVE  new[Cell(e, h)] # Nul
    <3>1. h = k \/ h \in 0 .. Cardinality(Letters(e, j)) - 1
      BY <2>2, <2>5
    <3> QED BY <1>2, <2>1, <2>2, <3>1 DEF Copied
  <2> QED BY <2>6, <2>7 DEF Copied
<1>4. \A a \in Memory : Place + 1 <= a => new[a] = Nul
  <2>1. Place \in Int
    <3>1. i \in Nat /\ k \in Nat
      BY <1>1, Finite DEF Counted
    <3> QED BY <3>1, BuffersAssumption DEF Place
  <2> QED BY <1>2, <2>1 DEF Memory
<1>5. InPlace(new, j + 1, Place + 1)
  BY <1>1, <1>2, <1>3, <1>4 DEF InPlace
<1> QED BY <1>5 DEF new

LEMMA DelimiterInPlace ==
  ASSUME ArgumentsType, Counted, Fits, j < Len(command),
         program_args \in [Memory -> Characters \cup {Nul}],
         InPlace(program_args, j, Place), j + 1 \in Breaks
  PROVE  InPlace([program_args EXCEPT ![Place] = Nul], j + 1, (i + 1) * ArgLength + 0)
<1> DEFINE new == [program_args EXCEPT ![Place] = Nul]
           f == j + 1
<1>1. /\ j \in Nat /\ BreaksTo(f) = BreaksTo(j) \cup {f}
      /\ f \in Ends /\ Before(f) = BreaksTo(j) /\ j < f /\ f - 1 = j
  BY BreaksNext DEF ArgumentsType
<1>2. /\ \A e \in BreaksTo(j) : Finished(new, e)
      /\ \A e \in Ends : j < e /\ Before(e) = BreaksTo(j) => Copied(new, e, j)
      /\ \A a \in Memory : Place < a => new[a] = Nul
      /\ new[Place] = Nul
  BY WriteKeeps
<1> HIDE DEF new, f
<1>3. Place = Cell(f, k) /\ k = WordLength(f) /\ Index(f) = i /\ k \in 0 .. ArgLength - 1
  BY <1>1, CurrentBuffer, BufferOf DEF WordLength
<1>4. Finished(new, f)
  BY <1>1, <1>2, <1>3 DEF Finished
<1>5. ASSUME NEW e \in Ends, f < e, Before(e) = BreaksTo(f) PROVE Copied(new, e, f)
  <2>1. f \in Before(e)
    BY <1>1, <1>5
  <2>2. Letters(e, f) = {}
    BY <1>1, <2>1 DEF Letters, f
  <2>3. Cardinality(Letters(e, f)) = 0
    BY <2>2, FS_EmptySet
  <2> QED BY <2>2, <2>3 DEF Copied
<1>6. ASSUME NEW a \in Memory, (i + 1) * ArgLength + 0 <= a PROVE new[a] = Nul
  <2>1. i \in Nat /\ k \in Nat /\ k < ArgLength
    BY <1>1, <1>3, EndsType, BuffersAssumption
  <2>2. (i + 1) * ArgLength = i * ArgLength + ArgLength /\ i * ArgLength \in Nat
    BY <2>1, BuffersAssumption
  <2>3. a \in Int
    BY DEF Memory
  <2>4. Place < a
    BY <1>6, <2>1, <2>2, <2>3, BuffersAssumption DEF Place
  <2> QED BY <1>2, <2>4
<1>7. InPlace(new, f, (i + 1) * ArgLength + 0)
  BY <1>1, <1>2, <1>4, <1>5, <1>6 DEF InPlace
<1> QED BY <1>7 DEF new, f

\* split_string puts every argument in its place.
LEMMA SplitInPlace ==
  ASSUME ArgumentsType, Counted, Fits,
         program_args \in [Memory -> Characters \cup {Nul}],
         InPlace(program_args, j, Place), split_string
  PROVE  InPlace(program_args, j, Place)'
<1>1. j < Len(command) /\ CharacterAt(j) = command[j + 1] /\ j \in Nat
  BY DEF ArgumentsType, split_string, ToggleEscape, EndArgument, PutCharacter, CharacterAt,
         AtDelimiter, AtCharacter, Nul, Escape, Delimiter
<1>2. command' = command /\ j' = j + 1
  BY DEF split_string, ToggleEscape, EndArgument, PutCharacter
<1>3. InPlace(program_args, j, Place)'
        <=> InPlace(program_args', j + 1, i' * ArgLength + k')
  BY <1>2 DEF InPlace, Finished, Copied, Cell, BreaksTo, Ends, Breaks, Quoted, Escapes,
              Before, Index, Letters, WordLength, Place
<1>4. j + 1 \in 1 .. Len(command) /\ (escaped <=> Quoted(j))
  BY <1>1 DEF ArgumentsType, Counted
<1>5. CASE ToggleEscape
  <2>1. /\ command[j + 1] = Escape /\ program_args' = program_args
        /\ i' * ArgLength + k' = Place
    BY <1>1, <1>5 DEF ToggleEscape, Place
  <2> QED BY <1>1, <1>3, <2>1, EscapeInPlace
<1>6. CASE EndArgument
  <2>1. command[j + 1] = Delimiter /\ ~Quoted(j) /\ command[j + 1] # Escape
    BY <1>1, <1>4, <1>6 DEF EndArgument, AtDelimiter, Escape, Delimiter
  <2>2. j + 1 \in Breaks
    BY <1>1, <1>4, <2>1, Escaped DEF Breaks
  <2>3. /\ program_args' = [program_args EXCEPT ![Place] = Nul]
        /\ i' * ArgLength + k' = (i + 1) * ArgLength + 0
    BY <1>6 DEF EndArgument, Put
  <2> QED BY <1>1, <1>3, <2>2, <2>3, DelimiterInPlace
<1>7. CASE PutCharacter
  <2>1. /\ command[j + 1] # Escape /\ command[j + 1] # Nul
        /\ ~(command[j + 1] = Delimiter /\ ~Quoted(j))
    BY <1>1, <1>4, <1>7 DEF PutCharacter, AtCharacter, AtDelimiter
  <2>2. j + 1 \notin Breaks
    BY <1>1, <2>1, Escaped DEF Breaks
  <2>3. /\ program_args' = [program_args EXCEPT ![Place] = command[j + 1]]
        /\ i' = i /\ k' = k + 1
    BY <1>1, <1>7 DEF PutCharacter, Put
  <2>4. i' * ArgLength + k' = Place + 1
    <3>1. i \in Nat /\ k \in Nat
      BY <1>1, Finite DEF Counted
    <3>2. i * ArgLength \in Nat
      BY <3>1, BuffersAssumption
    <3> QED BY <2>3, <3>1, <3>2 DEF Place
  <2> QED BY <1>1, <1>3, <2>1, <2>2, <2>3, <2>4, CharacterInPlace
<1> QED BY <1>5, <1>6, <1>7 DEF split_string

\* At the end of the line every argument is finished, the last one by a zero
\* that has been there from the start.
LEMMA EndFinishes ==
  ASSUME ArgumentsType, Counted, Fits, InPlace(program_args, j, Place), j = Len(command),
         NEW e \in Ends
  PROVE  Finished(program_args, e)
<1>1. j \in Nat /\ \A b \in Breaks : b \in Nat /\ b <= j
  BY DEF ArgumentsType, Breaks
<1>2. CASE e \in Breaks
  BY <1>1, <1>2 DEF InPlace, BreaksTo
<1>3. CASE e \notin Breaks
  <2>1. e = j + 1 /\ j < e /\ e - 1 = j
    BY <1>1, <1>3 DEF Ends
  <2>2. Before(e) = BreaksTo(j)
    BY <1>1, <2>1 DEF Before, BreaksTo
  <2>3. Copied(program_args, e, e - 1)
    BY <2>1, <2>2 DEF InPlace
  <2>4. Place = Cell(e, WordLength(e)) /\ Place \in Memory
    BY <2>1, <2>2, CurrentBuffer DEF WordLength
  <2>5. program_args[Place] = Nul
    <3>1. Place <= Place
      BY <2>4 DEF Memory
    <3> QED BY <2>4, <3>1 DEF InPlace
  <2> QED BY <2>3, <2>4, <2>5 DEF Finished
<1> QED BY <1>2, <1>3

\* A finished argument is what its buffer holds as a string.
LEMMA FinishedIsWord ==
  ASSUME ArgumentsType, Fits, NEW e \in Ends, Finished(program_args, e)
  PROVE  IsWord(Argument(Index(e)), e)
<1> DEFINE w == Index(e)
           L == WordLength(e)
           size == MaxArgs * ArgLength - w * ArgLength
           ends == {h \in 1 .. size + 1 :
                      h = size + 1 \/ program_args[w * ArgLength + h - 1] = Nul}
<1>1. /\ w * ArgLength \in Nat /\ L \in 0 .. ArgLength - 1 /\ L \in Nat
      /\ w * ArgLength + ArgLength <= MaxArgs * ArgLength /\ ArgLength \in Nat
      /\ MaxArgs * ArgLength \in Nat
  BY BufferOf, BuffersAssumption
<1>2. size \in Nat /\ L < size
  BY <1>1
<1>3. /\ program_args[w * ArgLength + L] = Nul
      /\ \A h \in 0 .. L - 1 : program_args[w * ArgLength + h] # Nul
  BY DEF Finished, Copied, Cell, WordLength
<1>4. ends \in SUBSET (1 .. size + 1)
  OBVIOUS
<1>5. Argument(w) = [h \in 1 .. Min(ends) - 1 |-> program_args[w * ArgLength + h - 1]]
  BY DEF Argument
<1>6. \A h \in 1 .. L : w * ArgLength + h - 1 = w * ArgLength + (h - 1) /\ h - 1 \in 0 .. L - 1
  BY <1>1
<1>7. L + 1 \in 1 .. size + 1 /\ w * ArgLength + (L + 1) - 1 = w * ArgLength + L
  BY <1>1, <1>2
<1>8. L + 1 \in ends
  BY <1>3, <1>7
<1>9. \A h \in 1 .. L : h \notin ends
  BY <1>1, <1>2, <1>3, <1>6
<1>10. Min(ends) = L + 1
  <2>1. size + 1 \in Nat
    BY <1>2
  <2>2. \A h \in ends : h \in Int /\ h >= 1
    BY <1>2, <1>4
  <2> HIDE DEF ends, size, L
  <2>3. Min(ends) \in ends /\ Min(ends) <= L + 1
    BY <1>4, <1>8, <2>1, LeastExists
  <2> QED BY <1>1, <1>9, <2>2, <2>3
<1> HIDE DEF ends, size
<1>11. Argument(w) = [h \in 1 .. L |-> program_args[w * ArgLength + h - 1]]
  BY <1>1, <1>5, <1>10
<1>12. Len(Argument(w)) = L
  BY <1>1, <1>11
<1>13. ASSUME NEW p \in Letters(e, e - 1)
       PROVE  Argument(w)[Cardinality(Letters(e, p))] = command[p]
  <2>1. Cardinality(Letters(e, p)) \in 1 .. L
    <3>1. e - 1 \in Nat
      BY EndsType
    <3> QED BY <3>1, LettersCount DEF WordLength
  <2>2. program_args[w * ArgLength + (Cardinality(Letters(e, p)) - 1)] = command[p]
    BY DEF Finished, Copied, Cell
  <2> QED BY <1>6, <1>11, <2>1, <2>2
<1> QED BY <1>12, <1>13 DEF IsWord

\* split_string's count is that of the arguments.
LEMMA CountIsRight ==
  ASSUME ArgumentsType, Counted, Balanced, j = Len(command)
  PROVE  argc = Cardinality(Ends)
<1> DEFINE zeroes == {p \in 1 .. Len(command) + 1 : CharacterAt(p) = Nul}
<1>1. j \in Nat /\ Len(command) \in Nat /\ Nul # Delimiter
  BY DEF ArgumentsType, Nul, Delimiter
<1>2. \A p \in 1 .. Len(command) : command[p] # Nul
  BY CharactersAssumption DEF ArgumentsType
<1>3. zeroes \in SUBSET (1 .. Len(command) + 1) /\ Len(command) + 1 \in zeroes
  BY <1>1 DEF CharacterAt
<1>4. strlen \in zeroes /\ \A p \in zeroes : strlen <= p
  <2>1. strlen = Min(zeroes) /\ Len(command) + 1 \in Nat
    BY <1>1 DEF strlen
  <2> HIDE DEF zeroes
  <2> QED BY <1>3, <2>1, LeastExists
<1>5. i = Cardinality(Breaks) /\ IsFiniteSet(Breaks) /\ i \in Nat
  <2>1. BreaksTo(j) = Breaks
    BY <1>1 DEF BreaksTo, Breaks
  <2> QED BY <1>1, <2>1, Finite DEF Counted
<1>6. Len(command) \in Breaks
        <=> CharacterAt(strlen - 1) = Delimiter
  <2>1. CASE Len(command) = 0
    <3>1. strlen = 1
      BY <1>3, <1>4, <2>1
    <3>2. CharacterAt(strlen - 1) = Nul
      BY <2>1, <3>1 DEF CharacterAt
    <3> QED BY <1>1, <2>1, <3>2 DEF Breaks
  <2>2. CASE Len(command) # 0
    <3>1. Len(command) \in zeroes
      BY <1>1, <2>2 DEF CharacterAt
    <3>2. \A p \in 1 .. Len(command) - 1 : p \notin zeroes
      <4>1. \A p \in 1 .. Len(command) - 1 :
              p < Len(command) /\ p + 1 \in 1 .. Len(command)
        BY <1>1
      <4> QED BY <1>2, <4>1 DEF CharacterAt
    <3>3. strlen = Len(command)
      <4>1. strlen \in 1 .. Len(command) + 1 /\ strlen <= Len(command)
        BY <1>3, <1>4, <3>1
      <4> HIDE DEF zeroes
      <4> QED BY <1>1, <1>4, <3>2, <4>1
    <3>4. CharacterAt(strlen - 1) = command[Len(command)]
      BY <1>1, <2>2, <3>3 DEF CharacterAt
    <3>5. Len(command) \in 1 .. Len(command)
      BY <1>1, <2>2
    <3> QED BY <3>4, <3>5 DEF Breaks, Balanced
  <2> QED BY <2>1, <2>2
<1>7. CASE Len(command) \in Breaks
  BY <1>5, <1>6, <1>7 DEF argc, Ends
<1>8. CASE Len(command) \notin Breaks
  <2>1. Len(command) + 1 \notin Breaks
    BY <1>1 DEF Breaks
  <2>2. Cardinality(Ends) = Cardinality(Breaks) + 1
    BY <1>5, <1>8, <2>1, FS_AddElement DEF Ends
  <2> QED BY <1>5, <1>6, <1>8, <2>2 DEF argc
<1> QED BY <1>7, <1>8

-----------------------------------------------------------------------------
(* itoa: the divisions by 10 end, and the digits they leave, swapped, are    *)
(* those of the number.                                                     *)

LEMMA Tenths ==
  ASSUME NEW x \in Nat, x > 0
  PROVE  /\ x \div 10 \in Nat /\ x \div 10 < x
         /\ x % 10 \in 0 .. 9 /\ x = 10 * (x \div 10) + (x % 10)
  OBVIOUS

\* The remainders of all the numbers up to x.
Dividing(f, x) ==
  f = [y \in 0 .. x |-> IF y = 0 THEN <<>> ELSE <<y % 10>> \o f[y \div 10]]

LEMMA DividingContinues ==
  ASSUME NEW x \in Nat, x > 0, NEW f, Dividing(f, x - 1)
  PROVE  \E g : Dividing(g, x)
<1> DEFINE g == [y \in 0 .. x |-> IF y = x THEN <<x % 10>> \o f[x \div 10] ELSE f[y]]
<1>1. ASSUME NEW y \in 0 .. x
      PROVE  g[y] = IF y = 0 THEN <<>> ELSE <<y % 10>> \o g[y \div 10]
  <2>1. y # 0 => y \div 10 \in 0 .. x /\ y \div 10 < y /\ y \div 10 # x
    BY Tenths
  <2>2. CASE y = x
    BY <2>1, <2>2
  <2>3. CASE y # x
    <3>1. y \in 0 .. x - 1
      BY <2>3
    <3>2. f[y] = IF y = 0 THEN <<>> ELSE <<y % 10>> \o f[y \div 10]
      BY <3>1 DEF Dividing
    <3> QED BY <2>1, <2>3, <3>2
  <2> QED BY <2>2, <2>3
<1>2. g = [y \in 0 .. x |-> g[y]]
  OBVIOUS
<1> HIDE DEF g
<1>3. g = [y \in 0 .. x |-> IF y = 0 THEN <<>> ELSE <<y % 10>> \o g[y \div 10]]
  BY <1>1, <1>2
<1> QED BY <1>3 DEF Dividing

LEMMA DividingExists == ASSUME NEW x \in Nat PROVE \E f : Dividing(f, x)
<1> DEFINE Open == {y \in 1 .. x : ~\E f : Dividing(f, y)}
<1>1. \E f : Dividing(f, 0)
  <2> DEFINE f == [y \in 0 .. 0 |-> <<>>]
  <2>1. f = [y \in 0 .. 0 |-> IF y = 0 THEN <<>> ELSE <<y % 10>> \o f[y \div 10]]
    OBVIOUS
  <2> QED BY <2>1 DEF Dividing
<1>2. CASE Open = {}
  <2>1. x = 0 \/ x \in 1 .. x
    OBVIOUS
  <2> QED BY <1>1, <1>2, <2>1
<1>3. CASE Open # {}
  <2>1. Open \in SUBSET (1 .. x)
    OBVIOUS
  <2>2. Min(Open) \in Open /\ \A y \in Open : Min(Open) <= y
    <3> HIDE DEF Open
    <3> QED BY <1>3, <2>1, LeastExists
  <2> DEFINE y == Min(Open)
  <2>3. y \in 1 .. x /\ ~\E f : Dividing(f, y)
    BY <2>2
  <2>4. y - 1 \notin Open
    <3> HIDE DEF Open
    <3> QED BY <2>2, <2>3
  <2> HIDE DEF y
  <2>5. \E f : Dividing(f, y - 1)
    <3>1. y - 1 = 0 \/ y - 1 \in 1 .. x
      BY <2>3
    <3> QED BY <1>1, <2>4, <3>1
  <2> QED BY <2>3, <2>5, DividingContinues
<1> QED BY <1>2, <1>3

LEMMA DividingUnique ==
  ASSUME NEW w \in Nat, NEW x \in Nat, NEW f, NEW g, Dividing(f, w), Dividing(g, x),
         NEW y \in Nat, y <= w, y <= x
  PROVE  f[y] = g[y]
<1> DEFINE Apart == {z \in 1 .. y : f[z] # g[z]}
<1>1. f[0] = g[0]
  BY DEF Dividing
<1>2. CASE Apart = {}
  <2>1. y = 0 \/ y \in 1 .. y
    OBVIOUS
  <2> QED BY <1>1, <1>2, <2>1
<1>3. CASE Apart # {}
  <2>1. Apart \in SUBSET (1 .. y)
    OBVIOUS
  <2>2. Min(Apart) \in Apart /\ \A z \in Apart : Min(Apart) <= z
    <3> HIDE DEF Apart
    <3> QED BY <1>3, <2>1, LeastExists
  <2> DEFINE z == Min(Apart)
  <2>3. z \in 1 .. y /\ f[z] # g[z]
    BY <2>2
  <2>4. \A u \in Apart : z <= u
    BY <2>2
  <2> HIDE DEF z
  <2>5. z \div 10 \in Nat /\ z \div 10 < z
    BY <2>3, Tenths
  <2>6. f[z \div 10] = g[z \div 10]
    <3>1. z \div 10 \notin Apart
      <4> HIDE DEF Apart
      <4> QED BY <2>1, <2>3, <2>4, <2>5
    <3>2. z \div 10 = 0 \/ z \div 10 \in 1 .. y
      BY <2>3, <2>5
    <3> QED BY <1>1, <3>1, <3>2
  <2>7. f[z] = <<z % 10>> \o f[z \div 10] /\ g[z] = <<z % 10>> \o g[z \div 10]
    <3>1. z \in 0 .. w /\ z \in 0 .. x /\ z # 0
      BY <2>3
    <3> QED BY <3>1 DEF Dividing
  <2> QED BY <2>3, <2>6, <2>7
<1> QED BY <1>2, <1>3

\* So the division goes on for every number, and Digits is what it says.
LEMMA DigitsIs ==
  ASSUME NEW x \in Nat
  PROVE  Digits[x] = IF x = 0 THEN <<>> ELSE <<x % 10>> \o Digits[x \div 10]
<1> DEFINE P(f) == f = [y \in Nat |-> IF y = 0 THEN <<>> ELSE <<y % 10>> \o f[y \div 10]]
           Upto(y) == CHOOSE f : Dividing(f, y)
           F == [y \in Nat |-> Upto(y)[y]]
<1>1. \A y \in Nat : Dividing(Upto(y), y)
  BY DividingExists
<1>2. ASSUME NEW y \in Nat
      PROVE  F[y] = IF y = 0 THEN <<>> ELSE <<y % 10>> \o F[y \div 10]
  <2>1. Upto(y)[y] = IF y = 0 THEN <<>> ELSE <<y % 10>> \o Upto(y)[y \div 10]
    <3>1. Dividing(Upto(y), y) /\ y \in 0 .. y
      BY <1>1
    <3> HIDE DEF Upto
    <3> QED BY <3>1 DEF Dividing
  <2>2. CASE y = 0
    BY <2>1, <2>2
  <2>3. CASE y # 0
    <3>1. y \div 10 \in Nat /\ y \div 10 <= y
      BY <2>3, Tenths
    <3>2. Dividing(Upto(y), y) /\ Dividing(Upto(y \div 10), y \div 10)
      BY <1>1, <3>1
    <3> HIDE DEF Upto
    <3>3. Upto(y)[y \div 10] = Upto(y \div 10)[y \div 10]
      BY <3>1, <3>2, DividingUnique
    <3> QED BY <2>1, <2>3, <3>1, <3>3
  <2> QED BY <2>2, <2>3
<1>3. F = [y \in Nat |-> F[y]]
  OBVIOUS
<1> HIDE DEF F
<1>4. P(F)
  BY <1>2, <1>3
<1>5. P(CHOOSE f : P(f))
  BY <1>4
<1>6. Digits = CHOOSE f : P(f)
  BY DEF Digits
<1>7. P(Digits)
  BY <1>5, <1>6
<1> HIDE DEF P
<1>8. Digits[x] = [y \in Nat |-> IF y = 0 THEN <<>> ELSE <<y % 10>> \o Digits[y \div 10]][x]
  BY <1>7 DEF P
<1> QED BY <1>8

Swapped(digits) == [m \in DOMAIN digits |-> digits[Len(digits) + 1 - m]]

\* The values of the first digits, and of all of them.
Summing(v, digits) ==
  v = [p \in 0 .. Len(digits) |-> IF p = 0 THEN 0 ELSE 10 * v[p - 1] + digits[p]]

\* The digits of x are decimal ones, the last division's is not zero, and they
\* stand for x.
Tells(x) ==
  /\ Digits[x] \in Seq(0 .. 9) /\ Len(Digits[x]) >= 1
  /\ Digits[x][Len(Digits[x])] # 0
  /\ \E v : Summing(v, Swapped(Digits[x])) /\ v[Len(Digits[x])] = x

\* One more division puts one more digit behind those of the tenth.
LEMMA TellsContinues ==
  ASSUME NEW x \in Nat, x > 0, x \div 10 = 0 \/ Tells(x \div 10)
  PROVE  Tells(x)
<1> DEFINE y == x \div 10
           r == x % 10
           d == Digits[y]
           e == Digits[x]
<1>1. y \in Nat /\ y < x /\ r \in 0 .. 9 /\ x = 10 * y + r
  BY Tenths
<1>2. e = <<r>> \o d /\ (y = 0 => d = <<>>)
  <2>1. Digits[x] = <<r>> \o d
    <3>1. Digits[x] = IF x = 0 THEN <<>> ELSE <<x % 10>> \o Digits[x \div 10]
      BY DigitsIs
    <3>2. x # 0
      OBVIOUS
    <3> QED BY <3>1, <3>2, Zenon
  <2>2. Digits[0] = <<>>
    BY DigitsIs
  <2> QED BY <2>1, <2>2
<1> HIDE DEF y, r, d, e
<1>3. /\ d \in Seq(0 .. 9) /\ Len(d) \in Nat
      /\ y # 0 => Len(d) >= 1 /\ d[Len(d)] # 0
      /\ \E v : Summing(v, Swapped(d)) /\ v[Len(d)] = y
  <2>1. CASE y = 0
    <3>1. d = <<>> /\ d \in Seq(0 .. 9) /\ Len(d) = 0
      BY <1>2, <2>1
    <3> DEFINE v == [p \in 0 .. 0 |-> 0]
    <3>2. v = [p \in 0 .. 0 |-> IF p = 0 THEN 0 ELSE 10 * v[p - 1] + Swapped(d)[p]]
      OBVIOUS
    <3>3. Len(Swapped(d)) = 0
      BY <3>1 DEF Swapped
    <3>4. Summing(v, Swapped(d)) /\ v[Len(d)] = y
      BY <2>1, <3>1, <3>2, <3>3 DEF Summing
    <3> HIDE DEF v
    <3> QED BY <2>1, <3>1, <3>4
  <2>2. CASE y # 0
    <3>1. Tells(y)
      BY <2>2 DEF y
    <3> QED BY <2>2, <3>1 DEF Tells, d
  <2> QED BY <2>1, <2>2
<1>4. PICK v : Summing(v, Swapped(d)) /\ v[Len(d)] = y
  BY <1>3
<1> DEFINE L == Len(d)
           u == [p \in 0 .. L + 1 |-> IF p = L + 1 THEN x ELSE v[p]]
<1>5. /\ e \in Seq(0 .. 9) /\ Len(e) = L + 1 /\ e[1] = r
      /\ \A p \in 1 .. L : e[p + 1] = d[p]
  BY <1>1, <1>2, <1>3
<1>6. e[Len(e)] # 0
  <2>1. CASE y = 0
    <3>1. L = 0 /\ r # 0
      BY <1>1, <1>2, <2>1
    <3> QED BY <1>5, <3>1
  <2>2. CASE y # 0
    BY <1>3, <1>5, <2>2
  <2> QED BY <2>1, <2>2
<1>7. /\ Len(Swapped(e)) = L + 1 /\ Swapped(e)[L + 1] = r
      /\ Len(Swapped(d)) = L
      /\ \A p \in 1 .. L : Swapped(e)[p] = Swapped(d)[p]
  <2>1. DOMAIN e = 1 .. L + 1 /\ DOMAIN d = 1 .. L /\ L \in Nat
    BY <1>3, <1>5
  <2>2. /\ Swapped(e) = [m \in 1 .. L + 1 |-> e[L + 1 + 1 - m]]
        /\ Swapped(d) = [m \in 1 .. L |-> d[L + 1 - m]]
    BY <1>5, <2>1 DEF Swapped
  <2>3. L + 1 + 1 - (L + 1) = 1 /\ L + 1 \in 1 .. L + 1
    BY <2>1
  <2>4. \A p \in 1 .. L : L + 1 - p \in 1 .. L /\ L + 1 + 1 - p = (L + 1 - p) + 1
    BY <2>1
  <2> HIDE DEF L
  <2> QED BY <1>5, <2>1, <2>2, <2>3, <2>4
<1>8. ASSUME NEW p \in 0 .. L + 1
      PROVE  u[p] = IF p = 0 THEN 0 ELSE 10 * u[p - 1] + Swapped(e)[p]
  <2>1. L \in Nat
    BY <1>3
  <2>2. \A q \in 0 .. L : v[q] = IF q = 0 THEN 0 ELSE 10 * v[q - 1] + Swapped(d)[q]
    BY <1>4, <1>7 DEF Summing
  <2>3. CASE p = L + 1
    <3>1. p # 0 /\ p - 1 = L /\ L \in 0 .. L + 1 /\ L # L + 1
      BY <2>1, <2>3
    <3>2. u[p] = x /\ u[p - 1] = y
      BY <1>4, <2>3, <3>1
    <3> QED BY <1>1, <1>7, <2>3, <3>1, <3>2
  <2>4. CASE p # L + 1
    <3>1. p \in 0 .. L
      BY <2>1, <2>4
    <3>2. u[p] = v[p] /\ (p # 0 => u[p - 1] = v[p - 1] /\ p \in 1 .. L)
      BY <2>1, <3>1
    <3> HIDE DEF u
    <3> QED BY <1>7, <2>2, <3>1, <3>2
  <2> QED BY <2>3, <2>4
<1>9. u = [p \in 0 .. L + 1 |-> u[p]] /\ u[L + 1] = x
  <2>1. L + 1 \in 0 .. L + 1
    BY <1>3
  <2> QED BY <2>1
<1> HIDE DEF u
<1>10. Summing(u, Swapped(e))
  <2>1. u = [p \in 0 .. L + 1 |-> IF p = 0 THEN 0 ELSE 10 * u[p - 1] + Swapped(e)[p]]
    BY <1>8, <1>9
  <2> QED BY <1>7, <2>1 DEF Summing
<1>11. Len(e) >= 1
  BY <1>3, <1>5
<1> QED BY <1>5, <1>6, <1>9, <1>10, <1>11 DEF Tells, e

LEMMA DigitsTell == ASSUME NEW x \in Nat, x > 0 PROVE Tells(x)
<1> DEFINE Wrong == {y \in 1 .. x : ~Tells(y)}
<1>1. CASE Wrong = {}
  BY <1>1
<1>2. CASE Wrong # {}
  <2>1. Wrong \in SUBSET (1 .. x)
    OBVIOUS
  <2>2. Min(Wrong) \in Wrong /\ \A y \in Wrong : Min(Wrong) <= y
    <3> HIDE DEF Wrong
    <3> QED BY <1>2, <2>1, LeastExists
  <2> DEFINE y == Min(Wrong)
  <2>3. y \in 1 .. x /\ ~Tells(y)
    BY <2>2
  <2>4. y \div 10 \in Nat /\ y \div 10 < y
    BY <2>3, Tenths
  <2>5. \A z \in Wrong : y <= z
    BY <2>2
  <2> HIDE DEF y
  <2>6. y \div 10 \notin Wrong
    <3> HIDE DEF Wrong
    <3> QED BY <2>1, <2>3, <2>4, <2>5
  <2>7. y \div 10 = 0 \/ Tells(y \div 10)
    BY <2>3, <2>4, <2>6
  <2> QED BY <2>3, <2>7, TellsContinues
<1> QED BY <1>1, <1>2

\* There is one way to read digits.
LEMMA SummingUnique ==
  ASSUME NEW digits, Len(digits) \in Nat, NEW v, NEW u, Summing(v, digits), Summing(u, digits)
  PROVE  v[Len(digits)] = u[Len(digits)]
<1> DEFINE Apart == {p \in 1 .. Len(digits) : v[p] # u[p]}
<1>1. v[0] = u[0]
  BY DEF Summing
<1>2. CASE Apart = {}
  <2>1. Len(digits) = 0 \/ Len(digits) \in 1 .. Len(digits)
    OBVIOUS
  <2> QED BY <1>1, <1>2, <2>1
<1>3. CASE Apart # {}
  <2>1. Apart \in SUBSET (1 .. Len(digits))
    OBVIOUS
  <2>2. Min(Apart) \in Apart /\ \A p \in Apart : Min(Apart) <= p
    <3> HIDE DEF Apart
    <3> QED BY <1>3, <2>1, LeastExists
  <2> DEFINE p == Min(Apart)
  <2>3. p \in 1 .. Len(digits) /\ v[p] # u[p]
    BY <2>2
  <2>4. \A q \in Apart : p <= q
    BY <2>2
  <2> HIDE DEF p
  <2>5. v[p - 1] = u[p - 1]
    <3>1. p - 1 = 0 \/ p - 1 \in 1 .. Len(digits)
      BY <2>3
    <3>2. p - 1 \notin Apart
      <4> HIDE DEF Apart
      <4> QED BY <2>1, <2>3, <2>4
    <3> QED BY <1>1, <3>1, <3>2
  <2>6. /\ v[p] = 10 * v[p - 1] + digits[p] /\ u[p] = 10 * u[p - 1] + digits[p]
    <3>1. p \in 0 .. Len(digits) /\ p # 0
      BY <2>3
    <3> QED BY <3>1 DEF Summing
  <2> QED BY <2>3, <2>5, <2>6
<1> QED BY <1>2, <1>3

\* itoa writes every number but 0 in decimal.
LEMMA ItoaIsDecimal ==
  ASSUME NEW x \in Nat, x > 0
  PROVE  itoa(x) \in Seq(0 .. 9) /\ itoa(x)[1] # 0 /\ Number(itoa(x)) = x
<1> DEFINE d == Digits[x]
           s == Swapped(d)
           P(v) == v = [p \in 0 .. Len(s) |-> IF p = 0 THEN 0 ELSE 10 * v[p - 1] + s[p]]
           V == CHOOSE v : P(v)
<1>1. /\ d \in Seq(0 .. 9) /\ Len(d) \in Nat /\ Len(d) >= 1 /\ d[Len(d)] # 0
      /\ \E v : Summing(v, s) /\ v[Len(d)] = x
  BY DigitsTell DEF Tells
<1>2. itoa(x) = s
  BY DEF itoa, Swapped
<1> HIDE DEF d
<1>3. s = [m \in 1 .. Len(d) |-> d[Len(d) + 1 - m]]
  BY <1>1 DEF Swapped
<1>4. s \in Seq(0 .. 9) /\ Len(s) = Len(d) /\ s[1] # 0
  <2>1. \A m \in 1 .. Len(d) : Len(d) + 1 - m \in 1 .. Len(d)
    BY <1>1
  <2>2. 1 \in 1 .. Len(d) /\ Len(d) + 1 - 1 = Len(d)
    BY <1>1
  <2> HIDE DEF s
  <2> QED BY <1>1, <1>3, <2>1, <2>2
<1>5. PICK v : Summing(v, s) /\ v[Len(d)] = x
  BY <1>1
<1>6. Number(s) = V[Len(s)]
  BY DEF Number
<1> HIDE DEF s
<1>7. P(v)
  BY <1>5 DEF Summing
<1>8. P(V)
  BY <1>7
<1> HIDE DEF V
<1>9. Summing(V, s)
  BY <1>8 DEF Summing
<1>10. V[Len(s)] = v[Len(s)]
  BY <1>1, <1>4, <1>5, <1>9, SummingUnique
<1> QED BY <1>2, <1>4, <1>5, <1>6, <1>10

-----------------------------------------------------------------------------
(* Programs. *)

\* Between programs the heap is whole.
Idle ==
  pc # "running" =>
    call = NoCall /\ blocks = {} /\ ~wrapped /\ MALLOC_START = DEFAULT_MALLOC

Loaded == pc = "running" => ~File(program).noent /\ HasMagic(File(program))

\* Nothing fills text_buffer: a read always finds it at its end.
NoText == text_buflen = 0

\* The heap grows upwards.
HeapGrows ==
  ~wrapped =>
    DEFAULT_MALLOC <= MALLOC_START /\ \A b \in blocks : DEFAULT_MALLOC <= b.start

IInv ==
  /\ TypeOK /\ Idle /\ Loaded /\ NoText /\ HeapGrows
  /\ HeapApart /\ FreshStart /\ ErrnoTells

-----------------------------------------------------------------------------
(* Files. *)

\* A file that is found has an entry, and fits between INJECTION and the heap.
LEMMA FileFits ==
  ASSUME NEW name, ~File(name).noent
  PROVE  /\ \E h \in 1 .. Len(main_romdisk.table) :
              File(name).length = main_romdisk.table[h].length
         /\ File(name).length \in Nat
         /\ INJECTION + File(name).length <= DEFAULT_MALLOC
<1> DEFINE S == Matches(main_romdisk, name)
           m == Len(main_romdisk.table)
<1>1. main_romdisk.table \in Seq(Entries) /\ m \in Nat
  BY DiskAssumption DEF Images
<1>2. S \subseteq 1 .. m
  BY DEF Matches, Listed
<1>3. S # {} /\ File(name).length = main_romdisk.table[Min(S)].length
  BY DEF File, get_romdisk_file, Found
<1>4. Min(S) \in 1 .. m
  BY <1>1, <1>2, <1>3, LeastExists
<1>5. main_romdisk.table[Min(S)].length \in Nat
  <2>1. main_romdisk.table[Min(S)] \in Entries
    BY <1>1, <1>4
  <2> QED BY <2>1 DEF Entries
<1> QED BY <1>3, <1>4, <1>5, ProgramsFit

LEMMA Numbers ==
  /\ INJECTION \in Nat /\ DEFAULT_MALLOC \in Nat /\ MemLimit \in Nat
  /\ INJECTION < DEFAULT_MALLOC /\ DEFAULT_MALLOC \in Addresses /\ MemLimit >= 2
  /\ MinusOne \in Addresses /\ 0 \in Addresses /\ MinusOne # 0
  BY MemoryAssumption DEF Addresses, MinusOne

-----------------------------------------------------------------------------
(* The steps. *)

LEMMA InitIInv == Init => IInv
<1> SUFFICES ASSUME Init PROVE IInv
  OBVIOUS
<1> USE DEF Init
<1>1. TypeOK
  <2>1. main_romdisk.entries \in Nat
    BY DiskAssumption DEF Images
  <2>2. NoCall \in Calls /\ <<>> \in Seq({Nul, Beyond})
    BY DEF NoCall, Calls
  <2>3. n \in 1 .. main_romdisk.entries + 1
    BY <2>1
  <2>4. text_buflen \in 0 .. 255 /\ text_offset \in 0 .. text_buflen
    OBVIOUS
  <2>5. /\ program \in Seq(Characters \cup {Nul}) /\ command \in Lines \cup {<<>>}
        /\ program_args \in [Memory -> Characters \cup {Nul}]
        /\ i \in Nat /\ j \in 0 .. Len(command) /\ k \in Nat /\ escaped \in BOOLEAN
    <3>1. Len(<<>>) = 0 /\ command = <<>> /\ i = 0 /\ j = 0 /\ k = 0 /\ escaped = FALSE
      BY DEF ArgumentsInit
    <3>2. program_args \in [Memory -> Characters \cup {Nul}]
      BY DEF ArgumentsInit, Zeroes
    <3>3. j \in 0 .. Len(command)
      BY <3>1
    <3>4. program = <<>> /\ <<>> \in Seq(Characters \cup {Nul})
      OBVIOUS
    <3>5. escaped \in BOOLEAN
      BY <3>1
    <3>6. i \in Nat /\ k \in Nat /\ command \in Lines \cup {<<>>}
      BY <3>1
    <3> HIDE DEF Init
    <3> QED BY <3>2, <3>3, <3>4, <3>5, <3>6
  <2>6. /\ pc = "list" /\ errno \in Errnos /\ MALLOC_START \in Addresses
        /\ result \in Addresses /\ text_buffer = EmptyText
        /\ blocks \in SUBSET [start : Nat, length : Nat] /\ wrapped \in BOOLEAN
        /\ call \in Calls /\ buf \in Seq({Nul, Beyond})
    BY <2>2, Numbers
  <2> HIDE DEF Init
  <2> QED BY <2>3, <2>4, <2>5, <2>6 DEF TypeOK
<1>2. Idle /\ Loaded /\ NoText /\ HeapGrows /\ HeapApart /\ FreshStart /\ ErrnoTells
  BY Numbers DEF Idle, Loaded, NoText, HeapGrows, HeapApart, FreshStart, ErrnoTells, NoCall
<1> QED BY <1>1, <1>2 DEF IInv

LEMMA ListStep == ASSUME IInv, display_romdisk \/ LsRomdisk PROVE IInv'
<1> USE DEF listing_unchanged, text_vars, ghosts, argument_vars
<1>1. TypeOK'
  <2>1. main_romdisk.entries \in Nat
    BY DiskAssumption DEF Images
  <2>2. n' \in 1 .. main_romdisk.entries + 1
    BY <2>1 DEF IInv, TypeOK, display_romdisk, __list_romdisk, EndOfList, LsRomdisk
  <2>3. pc' \in {"list", "prompt", "split", "stray", "running"}
    BY DEF IInv, TypeOK, display_romdisk, __list_romdisk, EndOfList, LsRomdisk
  <2>4. listing_unchanged
    BY DEF display_romdisk, __list_romdisk, EndOfList, LsRomdisk
  <2> QED BY <2>2, <2>3, <2>4 DEF IInv, TypeOK
<1>2. /\ pc # "running" /\ pc' # "running"
      /\ UNCHANGED <<MALLOC_START, text_buflen, call, blocks, wrapped, errno, result, program>>
  BY DEF display_romdisk, __list_romdisk, EndOfList, LsRomdisk
<1>3. (Idle /\ Loaded /\ NoText /\ HeapGrows /\ HeapApart /\ FreshStart /\ ErrnoTells)'
  BY <1>2 DEF IInv, Idle, Loaded, NoText, HeapGrows, HeapApart, FreshStart, ErrnoTells
<1> QED BY <1>1, <1>3 DEF IInv

\* What the steps of handle_command keep that start no program.
LEMMA SplitKeeps ==
  ASSUME IInv, split_unchanged,
         pc \in {"prompt", "split"}, pc' \in {"prompt", "split", "stray"},
         command' \in Lines \cup {<<>>},
         program_args' \in [Memory -> Characters \cup {Nul}],
         i' \in Nat, j' \in 0 .. Len(command'), k' \in Nat, escaped' \in BOOLEAN
  PROVE  IInv'
<1> USE DEF split_unchanged, text_vars, ghosts
<1>1. TypeOK'
  BY DEF IInv, TypeOK
<1>2. (Idle /\ Loaded /\ NoText /\ HeapGrows /\ HeapApart /\ FreshStart /\ ErrnoTells)'
  BY DEF IInv, Idle, Loaded, NoText, HeapGrows, HeapApart, FreshStart, ErrnoTells
<1> QED BY <1>1, <1>2 DEF IInv

LEMMA StartCommandStep ==
  ASSUME IInv, NEW line \in Lines, StartCommand(line)
  PROVE  IInv'
<1>1. Len(line) \in Nat
  BY CharactersAssumption
<1>2. /\ pc = "prompt" /\ pc' = "split" /\ split_unchanged
      /\ command' = line /\ program_args' = [a \in Memory |-> Nul]
      /\ i' = 0 /\ j' = 0 /\ k' = 0 /\ escaped' = FALSE
  BY DEF StartCommand, StartSplit, Cleared, Zeroes
<1>3. /\ command' \in Lines \cup {<<>>}
      /\ program_args' \in [Memory -> Characters \cup {Nul}]
      /\ i' \in Nat /\ j' \in 0 .. Len(command') /\ k' \in Nat /\ escaped' \in BOOLEAN
  <2>1. program_args' \in [Memory -> Characters \cup {Nul}]
    BY <1>2
  <2>2. i' \in Nat /\ j' \in 0 .. Len(command') /\ k' \in Nat
    BY <1>1, <1>2
  <2> QED BY <1>2, <2>1, <2>2
<1> QED BY <1>2, <1>3, SplitKeeps

LEMMA SplitStep == ASSUME IInv, SplitCommand PROVE IInv'
<1>1. command \in Seq(Characters) /\ Len(command) \in Nat
  <2>1. <<>> \in Seq(Characters) /\ Lines \subseteq Seq(Characters)
    BY CharactersAssumption
  <2>2. command \in Seq(Characters)
    BY <2>1 DEF IInv, TypeOK
  <2> QED BY <2>2
<1>2. /\ j \in 0 .. Len(command) /\ i \in Nat /\ k \in Nat /\ escaped \in BOOLEAN
      /\ program_args \in [Memory -> Characters \cup {Nul}]
      /\ command \in Lines \cup {<<>>}
  BY DEF IInv, TypeOK
<1>3. CharacterAt(j) # Nul => j < Len(command) /\ CharacterAt(j) \in Characters
  <2>1. j < Len(command) => j + 1 \in 1 .. Len(command)
    BY <1>1, <1>2
  <2> QED BY <1>1, <2>1 DEF CharacterAt
<1>4. CharacterAt(j) # Nul
  BY DEF SplitCommand, split_string, ToggleEscape, EndArgument, PutCharacter, AtDelimiter,
         AtCharacter, Nul, Escape, Delimiter
<1>5. /\ pc = "split" /\ pc' = "split" /\ command' = command
      /\ j' = j + 1 /\ i' \in {i, i + 1} /\ k' \in {0, k, k + 1}
      /\ (escaped' = escaped \/ escaped' = ~escaped)
  BY DEF SplitCommand, split_string, ToggleEscape, EndArgument, PutCharacter
<1>6. \/ program_args' = program_args
      \/ \E c \in Characters \cup {Nul} : program_args' = [program_args EXCEPT ![Place] = c]
  BY <1>3, <1>4 DEF SplitCommand, split_string, ToggleEscape, EndArgument, PutCharacter, Put
<1>7. program_args' \in [Memory -> Characters \cup {Nul}]
  BY <1>2, <1>6
<1>8. j' \in 0 .. Len(command') /\ i' \in Nat /\ k' \in Nat /\ escaped' \in BOOLEAN
  <2>1. j' \in 0 .. Len(command')
    BY <1>1, <1>2, <1>3, <1>4, <1>5
  <2>2. i' \in Nat /\ k' \in Nat
    BY <1>2, <1>5
  <2>3. escaped' \in BOOLEAN
    BY <1>2, <1>5, Zenon
  <2> QED BY <2>1, <2>2, <2>3
<1>9. split_unchanged /\ command' \in Lines \cup {<<>>}
  BY <1>2, <1>5 DEF SplitCommand
<1> QED BY <1>5, <1>7, <1>8, <1>9, SplitKeeps

LEMMA StrayStep == ASSUME IInv, SplitStrays \/ RefuseCommand PROVE IInv'
<1>1. UNCHANGED argument_vars /\ split_unchanged
  BY DEF SplitStrays, RefuseCommand
<1>2. pc = "split" /\ pc' \in {"stray", "prompt"}
  BY DEF SplitStrays, RefuseCommand
<1> QED BY <1>1, <1>2, SplitKeeps DEF argument_vars, IInv, TypeOK

\* The string in a buffer is one, wherever it ends.
LEMMA ArgumentIsString ==
  ASSUME program_args \in [Memory -> Characters \cup {Nul}]
  PROVE  Argument(0) \in Seq(Characters \cup {Nul})
<1> DEFINE size == MaxArgs * ArgLength - 0 * ArgLength
           ends == {h \in 1 .. size + 1 :
                      h = size + 1 \/ program_args[0 * ArgLength + h - 1] = Nul}
<1>1. size \in Nat /\ size = MaxArgs * ArgLength
  BY BuffersAssumption
<1>2. ends \in SUBSET (1 .. size + 1) /\ size + 1 \in ends
  BY <1>1
<1>3. Min(ends) \in 1 .. size + 1
  <2>1. size + 1 \in Nat
    BY <1>1
  <2> HIDE DEF ends, size
  <2> QED BY <1>2, <2>1, LeastExists
<1>4. \A h \in 1 .. Min(ends) - 1 : 0 * ArgLength + h - 1 \in Memory
  BY <1>1, <1>3, BuffersAssumption DEF Memory
<1>5. Argument(0) = [h \in 1 .. Min(ends) - 1 |-> program_args[0 * ArgLength + h - 1]]
  BY DEF Argument
<1>6. Min(ends) - 1 \in Nat
  BY <1>1, <1>3
<1> HIDE DEF ends
<1> QED BY <1>4, <1>5, <1>6

LEMMA LoadStep ==
  ASSUME IInv, load_program
  PROVE  IInv'
<1> USE DEF load_program, text_vars, argument_vars
<1>1. TypeOK'
  <2>1. program' \in Seq(Characters \cup {Nul})
    BY ArgumentIsString DEF IInv, TypeOK
  <2> QED BY <2>1 DEF IInv, TypeOK, StartErrno, Errnos, NoCall, Calls
<1>2. Idle' /\ Loaded' /\ NoText' /\ HeapGrows' /\ HeapApart' /\ ErrnoTells'
  BY DEF IInv, Idle, Loaded, NoText, HeapGrows, HeapApart, ErrnoTells, NoCall, Startable
<1>3. FreshStart'
  BY DEF IInv, Idle, FreshStart, StartErrno
<1> QED BY <1>1, <1>2, <1>3 DEF IInv

LEMMA ReturnStep == ASSUME IInv, ProgramReturns PROVE IInv'
<1> USE DEF ProgramReturns, text_vars, argument_vars
<1>1. TypeOK'
  <2>1. result' \in Addresses /\ buf' \in Seq({Nul, Beyond}) /\ MALLOC_START' \in Addresses
    BY Numbers
  <2>2. call' \in Calls /\ blocks' = {} /\ wrapped' \in BOOLEAN /\ pc' = "prompt"
    BY DEF NoCall, Calls
  <2> QED BY <2>1, <2>2 DEF IInv, TypeOK
<1>2. (Idle /\ Loaded /\ NoText /\ HeapGrows /\ HeapApart /\ FreshStart /\ ErrnoTells)'
  BY Numbers DEF IInv, Idle, Loaded, NoText, HeapGrows, HeapApart, FreshStart, ErrnoTells, NoCall
<1> QED BY <1>1, <1>2 DEF IInv

\* What every call but SYS_MALLOC keeps.
LEMMA CallKeeps ==
  ASSUME IInv, NEW no \in {"write", "read", "entropy", "other"}, NEW fd, NEW length,
         Call(no, fd, length), UNCHANGED <<MALLOC_START, blocks, wrapped, text_buflen>>
  PROVE  (Idle /\ Loaded /\ NoText /\ HeapGrows /\ HeapApart /\ FreshStart)'
<1>1. /\ pc = "running" /\ pc' = "running" /\ program' = program
      /\ call' = [no |-> no, fd |-> fd, length |-> length]
  BY DEF Call
<1>2. call' # NoCall
  BY <1>1 DEF NoCall
<1> QED BY <1>1, <1>2 DEF IInv, Idle, Loaded, NoText, HeapGrows, HeapApart, FreshStart

LEMMA WriteStep == ASSUME IInv, NEW fd \in Fds, Write(fd) PROVE IInv'
<1> USE DEF Write, text_vars, argument_vars
<1>1. TypeOK' /\ ErrnoTells'
  BY Numbers, CallsAssumption
     DEF IInv, TypeOK, ErrnoTells, Call, Returns, Errnos, Calls
<1> QED BY <1>1, CallKeeps DEF IInv

\* The text is empty before and after, whatever length is asked for.
LEMMA ReadTextKeeps ==
  ASSUME IInv, NEW length \in Nat, ReadText(length)
  PROVE  /\ text_buflen' = 0 /\ text_offset' = 0 /\ text_buffer' = EmptyText
         /\ buf' \in Seq({Nul, Beyond})
<1>1. text_buflen = 0 /\ text_offset = 0 /\ text_buffer = EmptyText
  BY DEF IInv, NoText, TypeOK
<1>2. (text_offset + length) % MemLimit \in Nat
  BY <1>1, Numbers
<1>3. SafeLength(length) = 0
  BY <1>1, <1>2 DEF SafeLength
<1>4. \A m \in 1 .. length :
        (IF m <= TextSize THEN text_buffer[m] ELSE Beyond) \in {Nul, Beyond}
  BY <1>1, CallsAssumption DEF EmptyText
<1>5. buf' \in Seq({Nul, Beyond})
  BY <1>4 DEF ReadText
<1> QED BY <1>1, <1>3, <1>5 DEF ReadText

LEMMA ReadStep ==
  ASSUME IInv, NEW fd \in Fds, NEW length \in Lengths, Read(fd, length)
  PROVE  IInv'
<1>1. fd \in Nat /\ length \in Nat
  BY CallsAssumption
<1>2. /\ text_buflen' = 0 /\ text_offset' = 0 /\ text_buffer' = EmptyText
      /\ buf' \in Seq({Nul, Beyond})
  <2>1. CASE ReadText(length)
    BY <1>1, <2>1, ReadTextKeeps
  <2>2. CASE UNCHANGED <<text_vars, buf>>
    BY <2>2 DEF IInv, TypeOK, NoText, text_vars
  <2> QED BY <2>1, <2>2 DEF Read
<1>3. TypeOK'
  BY <1>1, <1>2, Numbers DEF Read, IInv, TypeOK, Call, Returns, Errnos, Calls, argument_vars
<1>4. ErrnoTells'
  BY Numbers DEF Read, ErrnoTells, Call, Returns
<1>5. (Idle /\ Loaded /\ NoText /\ HeapGrows /\ HeapApart /\ FreshStart)'
  BY <1>2, CallKeeps DEF Read, IInv, NoText
<1> QED BY <1>3, <1>4, <1>5 DEF IInv

LEMMA EntropyStep == ASSUME IInv, Entropy PROVE IInv'
<1> USE DEF Entropy, text_vars, argument_vars
<1>1. TypeOK' /\ ErrnoTells'
  BY DEF IInv, TypeOK, ErrnoTells, Call, Calls
<1> QED BY <1>1, CallKeeps DEF IInv

LEMMA OtherStep == ASSUME IInv, OtherCall PROVE IInv'
<1> USE DEF OtherCall, NoSuchCall, text_vars, argument_vars
<1>1. TypeOK' /\ ErrnoTells'
  BY Numbers DEF IInv, TypeOK, ErrnoTells, Call, Calls, Returns, Errnos
<1> QED BY <1>1, CallKeeps DEF IInv

LEMMA MallocStep ==
  ASSUME IInv, NEW length \in Lengths, Malloc(length)
  PROVE  IInv'
<1> DEFINE block == [start |-> MALLOC_START, length |-> length]
           end == MALLOC_START + length
<1>1. /\ length \in Nat /\ MALLOC_START \in Nat /\ MALLOC_START < MemLimit
      /\ MALLOC_START \in Addresses
  BY CallsAssumption, Numbers DEF IInv, TypeOK, Addresses
<1>2. /\ pc = "running" /\ pc' = "running" /\ program' = program /\ n' = n
      /\ call' = [no |-> "malloc", fd |-> 0, length |-> length]
      /\ errno' = "EOKAY" /\ result' = MALLOC_START
      /\ MALLOC_START' = end % MemLimit
      /\ wrapped' = (wrapped \/ end >= MemLimit)
      /\ blocks' = IF wrapped' THEN {} ELSE blocks \cup {block}
      /\ UNCHANGED <<text_buffer, text_buflen, text_offset, buf>>
      /\ UNCHANGED <<command, program_args, i, j, k, escaped>>
  BY DEF Malloc, Call, Returns, BlockStart, text_vars, argument_vars
<1>3. end % MemLimit \in Addresses /\ (end < MemLimit => end % MemLimit = end)
  BY <1>1, Numbers DEF Addresses
<1>4. TypeOK'
  <2>1. blocks' \in SUBSET [start : Nat, length : Nat]
    BY <1>1, <1>2 DEF IInv, TypeOK
  <2>2. call' \in Calls /\ wrapped' \in BOOLEAN /\ errno' \in Errnos
    BY <1>1, <1>2 DEF Calls, IInv, TypeOK, Errnos
  <2> QED BY <1>1, <1>2, <1>3, <2>1, <2>2 DEF IInv, TypeOK
<1>5. (Idle /\ Loaded /\ NoText /\ FreshStart /\ ErrnoTells)'
  BY <1>2 DEF IInv, Idle, Loaded, NoText, FreshStart, ErrnoTells, NoCall
<1>6. CASE wrapped'
  BY <1>4, <1>5, <1>6 DEF IInv, HeapGrows, HeapApart
<1>7. CASE ~wrapped'
  <2>1. ~wrapped /\ MALLOC_START' = end /\ blocks' = blocks \cup {block}
    <3>1. ~wrapped /\ ~(end >= MemLimit)
      BY <1>2, <1>7
    <3>2. end < MemLimit
      BY <1>1, <3>1, Numbers
    <3> QED BY <1>2, <1>3, <1>7, <3>1, <3>2
  <2>2. \A b \in blocks : /\ b.start \in Nat /\ b.length \in Nat
                           /\ DEFAULT_MALLOC <= b.start
                           /\ b.start + b.length <= MALLOC_START
                           /\ INJECTION + File(program).length <= b.start
    BY <2>1 DEF IInv, TypeOK, HeapGrows, HeapApart
  <2>3. INJECTION + File(program).length <= MALLOC_START
    BY <1>1, <1>2, <2>1, FileFits, Numbers DEF IInv, Loaded, HeapGrows
  <2>4. HeapGrows'
    BY <1>1, <2>1, <2>2, Numbers DEF IInv, HeapGrows
  <2>5. HeapApart'
    <3>1. \A b \in blocks' : /\ INJECTION + File(program).length <= b.start
                              /\ b.start + b.length <= MALLOC_START'
      BY <1>1, <2>1, <2>2, <2>3
    <3>2. \A a, b \in blocks : a # b => a.start + a.length <= b.start
                                       \/ b.start + b.length <= a.start
      BY <2>1 DEF IInv, HeapApart
    <3>3. \A a, b \in blocks' : a # b => a.start + a.length <= b.start
                                        \/ b.start + b.length <= a.start
      BY <2>1, <2>2, <3>2
    <3> QED BY <1>2, <3>1, <3>3 DEF HeapApart
  <2> QED BY <1>4, <1>5, <2>4, <2>5 DEF IInv
<1> QED BY <1>6, <1>7

-----------------------------------------------------------------------------
(* Theorems. *)

\* IInv holds in every state of the kernel.
THEOREM Invariant == Spec => []IInv
<1>1. ASSUME IInv, [Next]_vars PROVE IInv'
  <2>1. CASE display_romdisk \/ LsRomdisk
    BY <1>1, <2>1, ListStep
  <2>2. CASE handle_command
    BY <1>1, <2>2, StartCommandStep, SplitStep, StrayStep, LoadStep DEF handle_command
  <2>3. CASE ProgramReturns
    BY <1>1, <2>3, ReturnStep
  <2>4. CASE \E fd \in Fds : Write(fd)
    BY <1>1, <2>4, WriteStep
  <2>5. CASE \E fd \in Fds, length \in Lengths : Read(fd, length)
    BY <1>1, <2>5, ReadStep
  <2>6. CASE \E length \in Lengths : Malloc(length)
    BY <1>1, <2>6, MallocStep
  <2>7. CASE Entropy
    BY <1>1, <2>7, EntropyStep
  <2>8. CASE OtherCall
    BY <1>1, <2>8, OtherStep
  <2>9. CASE UNCHANGED vars
    BY <1>1, <2>9 DEF vars, text_vars, ghosts, argument_vars, IInv, TypeOK, Idle, Loaded, NoText,
                      HeapGrows, HeapApart, FreshStart, ErrnoTells
  <2> QED BY <1>1, <2>1, <2>2, <2>3, <2>4, <2>5, <2>6, <2>7, <2>8, <2>9 DEF Next, syscall
<1> QED BY InitIInv, <1>1, PTL DEF Spec

\* syscall and load_program keep the type of the kernel's state; text_offset
\* never passes text_buflen.
THEOREM TypeCorrect == Spec => []TypeOK
<1>1. IInv => TypeOK
  BY DEF IInv
<1> QED BY Invariant, <1>1, PTL

\* SYS_MALLOC never hands out memory twice, or memory of the program itself,
\* until its pointer wraps.
THEOREM HeapStaysApart == Spec => []HeapApart
<1>1. IInv => HeapApart
  BY DEF IInv
<1> QED BY Invariant, <1>1, PTL

\* load_program starts every program with errno clear and the heap whole.
THEOREM ProgramsStartFresh == Spec => []FreshStart
<1>1. IInv => FreshStart
  BY DEF IInv
<1> QED BY Invariant, <1>1, PTL

\* errno tells failed calls of syscall from the others.
THEOREM ErrnoIsCurrent == Spec => []ErrnoTells
<1>1. IInv => ErrnoTells
  BY DEF IInv
<1> QED BY Invariant, <1>1, PTL

\* While a command is split the locals count its characters and the arguments
\* read so far are in their buffers; a program is started at the line's end, and
\* nothing touches them while it runs.
Splitting ==
  /\ pc \in {"split", "running"} => Counted /\ (Fits => InPlace(program_args, j, Place))
  /\ pc = "running" => j = Len(command)
  /\ StrayOnlyIfLong

LEMMA LineType == IInv => ArgumentsType
<1>1. <<>> \in Seq(Characters) /\ Lines \subseteq Seq(Characters)
  BY CharactersAssumption
<1> QED BY <1>1 DEF IInv, TypeOK, ArgumentsType

LEMMA StartSplitting ==
  ASSUME NEW line \in Lines, StartCommand(line) PROVE Splitting'
<1>1. /\ command' \in Seq(Characters) /\ pc' = "split"
      /\ j' = 0 /\ i' = 0 /\ k' = 0 /\ escaped' = FALSE
      /\ program_args' = [a \in Memory |-> Nul]
  BY CharactersAssumption DEF StartCommand, StartSplit, Cleared, Zeroes
<1>2. /\ (BreaksTo(j))' = {} /\ (WordTo(j))' = {} /\ (Escapes(j))' = {}
      /\ \A e : (Letters(e, j))' = {}
  BY <1>1 DEF BreaksTo, Breaks, WordTo, Escapes, Letters
<1>3. ~(Quoted(j))'
  BY <1>2, FS_EmptySet DEF Quoted
<1>4. Counted'
  BY <1>1, <1>2, <1>3, FS_EmptySet DEF Counted
<1>5. \A e : (Copied(program_args, e, j))'
  BY <1>2, FS_EmptySet DEF Copied
<1>6. InPlace(program_args, j, Place)'
  BY <1>1, <1>2, <1>5 DEF InPlace
<1> QED BY <1>1, <1>4, <1>6 DEF Splitting, StrayOnlyIfLong

\* What depends on the line and the locals alone.
LEMMA SameSplit ==
  ASSUME UNCHANGED argument_vars
  PROVE  /\ Fits' <=> Fits
         /\ Counted' <=> Counted
         /\ InPlace(program_args, j, Place)' <=> InPlace(program_args, j, Place)
<1> USE DEF argument_vars
<1>1. Fits' <=> Fits
  BY DEF Fits, Ends, Breaks, Quoted, Escapes, WordLength, Letters, Before
<1>2. Counted' <=> Counted
  BY DEF Counted, BreaksTo, WordTo, Breaks, Quoted, Escapes
<1>3. InPlace(program_args, j, Place)' <=> InPlace(program_args, j, Place)
  BY DEF InPlace, Finished, Copied, Cell, BreaksTo, Ends, Breaks, Quoted, Escapes,
         Before, Index, Letters, WordLength, Place
<1> QED BY <1>1, <1>2, <1>3

LEMMA SplittingStep == ASSUME IInv, Splitting, [Next]_vars PROVE Splitting'
<1>1. ArgumentsType
  BY LineType
<1>2. CASE pc' \notin {"split", "stray", "running"}
  BY <1>2 DEF Splitting, StrayOnlyIfLong
<1>3. CASE \E line \in Lines : StartCommand(line)
  BY <1>3, StartSplitting
<1>4. CASE SplitCommand
  <2>1. split_string /\ pc = "split" /\ pc' = "split"
    BY <1>4 DEF SplitCommand
  <2>2. Counted'
    BY <1>1, <2>1, SplitCounts DEF Splitting
  <2>3. Fits' <=> Fits
    <3>1. command' = command
      BY <2>1 DEF split_string, ToggleEscape, EndArgument, PutCharacter
    <3> QED BY <3>1 DEF Fits, Ends, Breaks, Quoted, Escapes, WordLength, Letters, Before
  <2>4. Fits => InPlace(program_args, j, Place)'
    BY <1>1, <2>1, SplitInPlace DEF Splitting, IInv, TypeOK
  <2> QED BY <2>1, <2>2, <2>3, <2>4 DEF Splitting, StrayOnlyIfLong
<1>5. CASE SplitStrays
  <2>1. pc = "split" /\ pc' = "stray" /\ StrayWrite /\ UNCHANGED argument_vars
    BY <1>5 DEF SplitStrays
  <2>2. ~Fits
    BY <1>1, <2>1, StrayMeansLong DEF Splitting
  <2> QED BY <2>1, <2>2, SameSplit DEF Splitting, StrayOnlyIfLong
<1>6. CASE load_program
  <2>1. pc = "split" /\ pc' = "running" /\ AtEnd /\ UNCHANGED argument_vars
    BY <1>6 DEF load_program
  <2>2. j = Len(command)
    <3>1. \A p \in 0 .. Len(command) - 1 : command[p + 1] # Nul
      BY <1>1, CharactersAssumption DEF ArgumentsType
    <3> QED BY <1>1, <2>1, <3>1 DEF AtEnd, CharacterAt, ArgumentsType
  <2> QED BY <2>1, <2>2, SameSplit DEF Splitting, StrayOnlyIfLong, argument_vars
<1>7. CASE syscall \/ UNCHANGED vars
  <2>1. UNCHANGED argument_vars /\ pc' = pc
    BY <1>7 DEF syscall, Write, Read, Malloc, Entropy, OtherCall, Call, vars
  <2> QED BY <2>1, SameSplit DEF Splitting, StrayOnlyIfLong, argument_vars
<1>8. CASE display_romdisk \/ LsRomdisk \/ RefuseCommand \/ ProgramReturns
  <2>1. pc' \notin {"split", "stray", "running"}
    BY <1>8 DEF display_romdisk, __list_romdisk, EndOfList, LsRomdisk, RefuseCommand,
                ProgramReturns
  <2> QED BY <1>2, <2>1
<1> QED BY <1>3, <1>4, <1>5, <1>6, <1>7, <1>8 DEF Next, handle_command

LEMMA SplittingInvariant == Spec => []Splitting
<1>1. Init => Splitting
  BY DEF Init, Splitting, StrayOnlyIfLong
<1> QED BY Invariant, <1>1, SplittingStep, PTL DEF Spec

\* split_string writes outside the buffers only for a line that has more
\* arguments than they hold, or longer ones, whatever quotes it contains.
THEOREM StraysOnlyIfLong == Spec => []StrayOnlyIfLong
<1>1. Splitting => StrayOnlyIfLong
  BY DEF Splitting
<1> QED BY SplittingInvariant, <1>1, PTL

\* A program gets the arguments of the line that started it, each one whole,
\* ended, and without its quotes, and is told their number: for every line that
\* fits the buffers and ends what it quotes.
THEOREM ProgramsGetTheirArguments == Spec => []ArgumentsOfLine
<1>1. IInv /\ Splitting => ArgumentsOfLine
  <2> SUFFICES ASSUME IInv, Splitting, pc = "running", Fits, Balanced
               PROVE  /\ argc = Cardinality(Ends)
                      /\ \A e \in Ends : IsWord(Argument(Index(e)), e)
    BY DEF ArgumentsOfLine
  <2>1. ArgumentsType
    BY LineType
  <2>2. Counted /\ InPlace(program_args, j, Place) /\ j = Len(command)
    BY DEF Splitting
  <2> QED BY <2>1, <2>2, CountIsRight, EndFinishes, FinishedIsWord
<1> QED BY Invariant, SplittingInvariant, <1>1, PTL

\* A listing of the ROMDISK shows the true length of every file.
THEOREM ListingsTell == Spec => []ListingTells
<1>1. IInv => ListingTells
  <2> SUFFICES ASSUME IInv, n <= main_romdisk.entries
               PROVE  LET digits == itoa(main_romdisk.table[n].length)
                      IN  /\ digits \in Seq(0 .. 9) /\ digits[1] # 0
                          /\ Number(digits) = main_romdisk.table[n].length
    BY DEF ListingTells
  <2>1. main_romdisk.table \in Seq(Entries) /\ main_romdisk.entries = Len(main_romdisk.table)
    BY DiskAssumption DEF Images
  <2>2. n \in 1 .. Len(main_romdisk.table)
    BY <2>1 DEF IInv, TypeOK
  <2>3. main_romdisk.table[n].length \in Nat /\ main_romdisk.table[n].length > 0
    <3>1. main_romdisk.table[n] \in Entries
      BY <2>1, <2>2
    <3> QED BY <2>2, <3>1, NoEmptyFile DEF Entries
  <2> QED BY <2>3, ItoaIsDecimal
<1> QED BY Invariant, <1>1, PTL

=============================================================================
