---------------------------- MODULE MCReadyQueue ----------------------------
(* ReadyQueue for TLC: the constants are given in the .cfg files.          *)
EXTENDS ReadyQueue
=============================================================================
