----------------------------- MODULE MCExchange ------------------------------
(* Small instances of Exchange for TLC.                                    *)
EXTENDS Exchange, TLC

CONSTANTS c1, c2, c3

(* A CREATE and a LIST beside a second CREATE or a producer. *)
MCOps == c1 :> {"CREATE"} @@ c2 :> {"LIST"} @@ c3 :> {"CREATE", "CONNECT"}
=============================================================================
