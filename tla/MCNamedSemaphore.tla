-------------------------- MODULE MCNamedSemaphore --------------------------
(* NamedSemaphore for TLC: the constants are given in the .cfg file.       *)
EXTENDS NamedSemaphore
=============================================================================
