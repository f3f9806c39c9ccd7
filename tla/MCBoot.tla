------------------------------- MODULE MCBoot -------------------------------
(* Boot with a timer, a keyboard, a device of the first controller and one   *)
(* of the second.                                                           *)
EXTENDS Boot

MCIRQs == {0, 1, 6, 8}
=============================================================================
