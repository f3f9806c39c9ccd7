-------------------------- MODULE ControlCharacters --------------------------
(***************************************************************************)
(* The two characters that the keyboard's tables yield and tputs treats    *)
(* apart from those with a shape: what kgetline echoes of Enter and        *)
(* Backspace moves the terminal's cursor.                                  *)
(***************************************************************************)

NewLine == "newline"
BackSpace == "backspace"

=============================================================================
