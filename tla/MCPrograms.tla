------------------------------ MODULE MCPrograms ------------------------------
(* Programs for TLC: the constants are given in the .cfg file.             *)
EXTENDS Programs
=============================================================================
