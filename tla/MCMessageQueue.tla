---------------------------- MODULE MCMessageQueue ----------------------------
(* MessageQueue for TLC: the constants are given in the .cfg file.         *)
EXTENDS MessageQueue
=============================================================================
