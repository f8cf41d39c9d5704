---------------------- MODULE MCSharedMemorySemaphore ----------------------
(* SharedMemorySemaphore for TLC: the constants are given in the .cfg      *)
(* files.                                                                  *)
EXTENDS SharedMemorySemaphore
=============================================================================
