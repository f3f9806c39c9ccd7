----------------------------- MODULE MCKeyboard -----------------------------
(* Constants for checking Keyboard. *)
EXTENDS Keyboard

MCShiftOf == [k \in Letters |-> CASE k = "Q" -> "q" [] k = "W" -> "w"]

MCSandboxCommand == <<"Q">>
=============================================================================
