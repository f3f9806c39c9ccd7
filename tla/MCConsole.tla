----------------------------- MODULE MCConsole -----------------------------
(* Constants for checking Console. *)
EXTENDS Console

MCShiftOf == [k \in Letters |-> "q"]
MCClearCommand == <<>>

MCSandboxCommand == <<"Q", "Q">>

\* Long enough to scroll most of the earlier lines away, which keeps the number
\* of screens small.
MCReply == <<"red", "Q", NewLine, "black", NewLine, NewLine>>
=============================================================================
