---------------------------- MODULE MCNamespace ----------------------------
(***************************************************************************)
(* A small instance of the namespace for TLC: two directory names, with    *)
(* the arguments that make absolute, relative, slashed and nested paths.   *)
(***************************************************************************)
EXTENDS Namespace

Rel(p) == [abs |-> FALSE, path |-> p]
Abs(p) == [abs |-> TRUE, path |-> p]

MCComponents == {"a", "b", ".."}
MCArgs == {Up, Rel(<<"a">>), Rel(<<"b">>), Rel(<<"a", "">>),
           Abs(Root), Abs(<<"a">>), Abs(<<"a", "">>), Abs(<<"a", "b">>)}
MCNames == {"f", "g"}
MCLines == {<<>>}
=============================================================================
