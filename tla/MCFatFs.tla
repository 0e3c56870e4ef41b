------------------------------ MODULE MCFatFs ------------------------------
(***************************************************************************)
(* Small instances of the file system for TLC.                             *)
(***************************************************************************)
EXTENDS FatFsStore, TLC

CONSTANTS n1, n2, a

MCNames == {n1, n2}
MCDirs == {"/"}
MCChars == {a}
\* An empty line and a line that fills a block of two bytes.
MCLines == {<<>>, <<a>>}

Symmetry == Permutations({n1, n2})
=============================================================================
