------------------------------ MODULE MCHashMap ------------------------------
(* A small instance of HashMap for TLC.                                    *)
EXTENDS HashMap, TLC

CONSTANTS v0, v1

(* Any two keys, the same one twice too; the values tell the entries apart. *)
MCLists == {<<<<j, v0>>, <<k, v1>>>> : j, k \in Key}

Symmetry == Permutations(Key) \cup Permutations(Maps)
=============================================================================
