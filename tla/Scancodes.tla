----------------------------- MODULE Scancodes -----------------------------
(***************************************************************************)
(* What the keyboard driver knows of a key: the entries of scancode_buffer *)
(* and the two tables that give a key its character (src/src/keyboard.c).  *)
(*                                                                         *)
(* A key stands for a scancode of set 1.  The tables tell four kinds       *)
(* apart: the keys with a printable character, Enter, Backspace, and       *)
(* everything both tables map to 0 ("dead": function and arrow keys, the   *)
(* 0xE0 prefix, and every key's release).  Shift and Ctrl are handled      *)
(* before the buffer and are not keys here.                                *)
(***************************************************************************)
EXTENDS ControlCharacters, Integers, Sequences

CONSTANTS
  Letters,     \* the keys with a printable character; a key names its own
  ShiftOf      \* the character such a key has when shift is held

Nul == "nul"

Keys == Letters \cup {"enter", "backspace", "dead"}
Printable == Letters \cup {ShiftOf[k] : k \in Letters}
Characters == Printable \cup {Nul, NewLine, BackSpace}

ASSUME LettersAssumption ==
  /\ DOMAIN ShiftOf = Letters
  /\ Letters \cap {"enter", "backspace", "dead", "shift"} = {}
  /\ Printable \cap {Nul, NewLine, BackSpace} = {}

\* Both tables agree on every key but the printable ones.
Unshifted(k) == CASE k = "enter"     -> NewLine
                  [] k = "backspace" -> BackSpace
                  [] k = "dead"      -> Nul

kbdus == [k \in Keys |-> IF k \in Letters THEN k ELSE Unshifted(k)]
shift_kbdus == [k \in Keys |-> IF k \in Letters THEN ShiftOf[k] ELSE Unshifted(k)]

\* An element of scancode_buffer: the scancode and bit 15.  Bit 14 (ctrl) is
\* stored too, and nothing reads it.
Entries == [key : Keys, shift : BOOLEAN]
ZeroEntry == [key |-> "dead", shift |-> FALSE]

Character(e) == IF e.shift THEN shift_kbdus[e.key] ELSE kbdus[e.key]

=============================================================================
