---------------------------- MODULE RequestQueue -----------------------------
(***************************************************************************)
(* What the request FIFO promises the server: a queue of whole requests,   *)
(* handled one at a time and in order.  Server.tla is written against this *)
(* queue; RequestStream.tla, with its bytes and its frames, implements it. *)
(***************************************************************************)
EXTENDS Sequences

CONSTANT Requests

VARIABLES
  queue,     \* the requests sent and not handled
  handled    \* the requests handled

Init == queue = <<>> /\ handled = <<>>

Put(r) == queue' = Append(queue, r) /\ UNCHANGED handled

Get ==
  /\ queue # <<>>
  /\ queue' = Tail(queue)
  /\ handled' = Append(handled, Head(queue))

Next == Get \/ \E r \in Requests : Put(r)

Spec == Init /\ [][Next]_<<queue, handled>>
=============================================================================
