----------------------------- MODULE MCTerminal -----------------------------
(* Constants for checking Terminal. *)
EXTENDS Terminal

\* Strings short enough to keep the model small and long enough for a refresh
\* to fall between any two characters or only after both: every character
\* alone, and every pair that moves the cursor twice.
Moves == Glyphs \cup {NewLine, BackSpace}
MCMessages == {<<a>> : a \in Chars} \cup {<<a, b>> : a, b \in Moves}
=============================================================================
