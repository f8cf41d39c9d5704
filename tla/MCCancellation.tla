--------------------------- MODULE MCCancellation ---------------------------
(* Cancellation for TLC, with small counts.                                *)
EXTENDS Cancellation
=============================================================================
