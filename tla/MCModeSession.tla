--------------------------- MODULE MCModeSession ---------------------------
(* ModeSession with two client slots, and as many descriptors as the thread *)
(* can hold at once, so that closed ones are given out again.               *)
EXTENDS ModeSession

MCFds == {3, 4, 5}
=============================================================================
