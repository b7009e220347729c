------------------------------- MODULE MCTopic -------------------------------
(* Small instances of Topic for TLC.                                       *)
EXTENDS Topic, TLC

(* Keys "a" and "b", of which the prefix "a" matches one. *)
MCKeys == {<<"a">>, <<"b">>}
MCPrefixes == {<<"a">>}
=============================================================================
