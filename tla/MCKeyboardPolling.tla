-------------------------- MODULE MCKeyboardPolling --------------------------
(* Constants for checking KeyboardPolling. *)
EXTENDS KeyboardPolling

MCShiftOf == [k \in Letters |-> CASE k = "Q" -> "q" [] k = "W" -> "w"]

MCSandboxCommand == <<"Q">>
=============================================================================
