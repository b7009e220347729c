--------------------------- MODULE MCRequestStream ---------------------------
(* Instances of RequestStream for TLC.  Characters are bytes.              *)
EXTENDS RequestStream, TLC
LOCAL INSTANCE SequencesExt

Max32 == U32 - 1
Strings(n) == UNION {[1 .. k -> {3, 9}] : k \in 0 .. n}
Names == {<<3>>, <<9, 3>>}

(* Requests of every kind, with the limits of every field. *)
AllRequests ==
  {<<c, pid, s>> : c \in {"CREATE", "INFO", "CONNECT"}, pid \in {0, Byte + 2, Max32}, s \in Names}
    \cup {<<"LIST", pid>> : pid \in {0, 1, Max32}}
    \cup {<<"PRODUCE", t, k, v>> : t \in {<<9>>}, k \in Strings(2), v \in Strings(2)}
    \cup {<<"SUBSCRIBE", pid, c, t, pre, o>> :
            pid \in {Byte}, c \in Names, t \in {<<9>>}, pre \in Strings(1), o \in {0, Max32}}
    \cup {<<"ACK", c, o>> : c \in Names, o \in {0, 1, Max32}}
    \cup {<<"DISCONNECT", c>> : c \in Names}

(* They are what the proofs assume of requests. *)
ASSUME Requests = AllRequests => FramesFit

(* A prefix that makes the frame longer than PIPE_BUF, and a short request. *)
LongRequests == {<<"SUBSCRIBE", 1, <<3>>, <<9>>, <<3, 3>>, 0>>, <<"LIST", 7>>}
=============================================================================
