---------------------------- MODULE MCByteNames ----------------------------
(***************************************************************************)
(* Arrays of five bytes: "/a/a" fits with its '\0', "/aa" leaves no room   *)
(* for a separator, and the name aaaaa/ is what the full array aaaaa reads *)
(* like in the root directory.                                             *)
(***************************************************************************)
EXTENDS ByteNames
SX == INSTANCE SequencesExt

MCChars == {"a", "/", ".", "?"}
MCArgs == {<<"a">>, <<"a", "a">>, <<".", ".">>, <<"/", "a", "/">>, <<"/">>,
           <<"/", "a", "a", "a", "a">>}
MCNames == {<<"a">>, <<"a", "a", "a", "a", "a">>, <<"a", "a", "a", "a", "a", "/">>}

MCWords == [w \in UNION {[1 .. k -> {"a", ".", "?"}] : k \in 0 .. 5} |->
              SX!FoldLeft(LAMBDA x, y : x \o y, "", w)]
=============================================================================
