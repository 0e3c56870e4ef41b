------------------------------ MODULE MCTraps ------------------------------
(***************************************************************************)
(* Vectors with and without an error code, of both ends of the table, and  *)
(* a line of each PIC.                                                     *)
(***************************************************************************)
EXTENDS Traps

MCExceptions == {0, 6, 8, 13, 14, 30, 31}
MCIrqs == {0, 1, 12}
=============================================================================
