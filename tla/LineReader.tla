----------------------------- MODULE LineReader -----------------------------
(***************************************************************************)
(* What kgetline promises: the keys pressed while it reads are taken one   *)
(* at a time, in order, each exactly once, and the line it returns is what *)
(* they spell.  The promise has limits, all of the code: keys pressed      *)
(* while no line is being read are dropped, but for those the hardware     *)
(* keeps, and it holds only until the line is spoiled.                     *)
(***************************************************************************)
EXTENDS Scancodes

CONSTANTS
  Limit,       \* keys that may wait
  SpoilFrom,   \* keys that must wait before the line can be spoiled
  Held,        \* keys the hardware keeps while no line is being read
  MaxLine      \* characters a line may have

VARIABLES
  queue,       \* the keys pressed and not yet taken
  line,        \* what the keys taken so far spell
  status       \* "away", "reading", "returned", "spoiled"

lr_vars == <<queue, line, status>>

Init ==
  /\ queue = <<>>
  /\ line = <<>>
  /\ status = "away"

Start ==
  /\ status = "away"
  /\ status' = "reading"
  /\ UNCHANGED <<queue, line>>

KeyPressed ==
  /\ IF status = "reading" THEN Len(queue) <= Limit ELSE Len(queue) < Held
  /\ \E e \in Entries : queue' = Append(queue, e)
  /\ UNCHANGED <<line, status>>

DropKeys ==
  /\ status # "reading"
  /\ queue # <<>>
  /\ queue' = <<>>
  /\ UNCHANGED <<line, status>>

\* Of the keys waiting, only the last are kept when the reader stops.
KeepHeld ==
  \E n \in 0 .. Held :
    /\ n <= Len(queue)
    /\ queue' = SubSeq(queue, Len(queue) - n + 1, Len(queue))

Spoil ==
  /\ status = "reading"
  /\ Len(queue) >= SpoilFrom
  /\ KeepHeld
  /\ line' = <<>>
  /\ status' = "spoiled"

\* The line after a key other than Enter has been taken.
Taken(e) ==
  CASE kbdus[e.key] = BackSpace -> IF line = <<>> THEN line
                                   ELSE SubSeq(line, 1, Len(line) - 1)
    [] kbdus[e.key] = Nul       -> line
    [] OTHER -> IF Len(line) < MaxLine THEN Append(line, Character(e)) ELSE line

TakeKey ==
  /\ status = "reading"
  /\ queue # <<>>
  /\ kbdus[Head(queue).key] # NewLine
  /\ line' = Taken(Head(queue))
  /\ queue' = Tail(queue)
  /\ UNCHANGED status

\* The keys behind the Enter are dropped.
TakeEnter ==
  /\ status = "reading"
  /\ queue # <<>>
  /\ kbdus[Head(queue).key] = NewLine
  /\ KeepHeld
  /\ status' = "returned"
  /\ UNCHANGED line

Leave ==
  /\ status \in {"returned", "spoiled"}
  /\ line' = <<>>
  /\ status' = "away"
  /\ UNCHANGED queue

Next ==
  Start \/ KeyPressed \/ DropKeys \/ Spoil \/ TakeKey \/ TakeEnter \/ Leave

Spec == Init /\ [][Next]_lr_vars

=============================================================================
