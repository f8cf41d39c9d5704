---------------------------- MODULE MCHandshake ----------------------------
(* Handshake for TLC: every program is one of the initial states.          *)
EXTENDS Handshake
=============================================================================
