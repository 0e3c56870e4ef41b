----------------------------- MODULE MCTerminal -----------------------------
(***************************************************************************)
(* A screen of three rows of three cells: a line of five characters after  *)
(* a prompt always wraps and mostly scrolls.                               *)
(***************************************************************************)
EXTENDS Terminal

MCKeys == {".", "y", " ", "\t"}
MCPrintable == {".", "y", " "}
=============================================================================
