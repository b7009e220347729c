---------------------------- MODULE MCPrefixTree -----------------------------
(* A small instance of PrefixTree for TLC.                                 *)
EXTENDS PrefixTree, TLC

(* Nested, diverging and missing branches over two characters. *)
MCPrefixes == {<<>>, <<"a">>, <<"a", "b">>, <<"a", "b", "a">>, <<"a", "a">>, <<"b", "a">>}
MCKeys == {<<>>, <<"a">>, <<"a", "b">>, <<"a", "b", "a">>, <<"a", "a", "b">>,
           <<"b">>, <<"b", "a", "b">>}

Symmetry == Permutations(Clients) \cup Permutations(Trees)
=============================================================================
