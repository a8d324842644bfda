------------------------------- MODULE MCClient -------------------------------
(* Memory that holds 0, the time of the start, or a time in the future.     *)
EXTENDS Client

AnyMemory == {0, Epoch, MaxTime + 1}
=============================================================================
