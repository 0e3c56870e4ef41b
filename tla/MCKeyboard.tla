---------------------------- MODULE MCKeyboard ----------------------------
(***************************************************************************)
(* A small instance of the keyboard driver for TLC.                        *)
(***************************************************************************)
EXTENDS Keyboard

MCLetters == {"q"}
MCSymbols == {"1"}
MCSame == {}
MCSilent == {"F1"}
=============================================================================
