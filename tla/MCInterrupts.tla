--------------------------- MODULE MCInterrupts ---------------------------
(***************************************************************************)
(* A small instance of the interrupt machinery for TLC: timer, keyboard,   *)
(* real-time clock and mouse; every BIOS mask of their lines.              *)
(***************************************************************************)
EXTENDS Interrupts

MCDevices == {0, 1, 8, 12}

\* The lines of absent devices are masked.
MCBiosMasks ==
  {m \in [1 .. 2 -> SUBSET Bits] :
     /\ (Bits \ {0, 1, 2}) \subseteq m[1]
     /\ (Bits \ {0, 4}) \subseteq m[2]}
=============================================================================
