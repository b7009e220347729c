---------------------------- MODULE RequestStream ----------------------------
(***************************************************************************)
(* The request FIFO as a stream of bytes: every client writes its frames   *)
(* into it (ipc.cpp, FifoWriter::write_exact), and Server::run cuts what   *)
(* it reads back into requests (Server.cpp:83-120).                        *)
(*                                                                         *)
(* A write of at most PIPE_BUF bytes enters the pipe in one piece.  A      *)
(* longer one enters in pieces of any size, and pieces of other writers    *)
(* come in between.  A read returns what is there, up to the size of the   *)
(* server's buffer, and stops anywhere in a frame.                         *)
(***************************************************************************)
EXTENDS Protocol, FiniteSets

CONSTANTS
  Procs,        \* client processes
  Requests,     \* the requests they send
  Nil,
  PIPE_BUF,     \* 4096
  PipeSize,     \* bytes a pipe holds
  ReadSize,     \* 1024: sizeof(buffer) in Server::run
  MaxRequests   \* bound on the requests sent in all

ASSUME StreamAssumption ==
  /\ {PIPE_BUF, PipeSize, ReadSize} \subseteq Nat \ {0} /\ PIPE_BUF <= PipeSize
  /\ MaxRequests \in Nat
  /\ Nil \notin Requests

VARIABLES
  writing,   \* per process: the request it is writing, or Nil
  left,      \* per process: the bytes of that frame not in the pipe yet
  fifo,      \* the bytes in the pipe
  recv_buf,  \* the bytes the server has read and not used
  written,   \* the requests, in the order their last byte entered the pipe
  handled    \* the requests handle_request was called for, in order

vars == <<writing, left, fifo, recv_buf, written, handled>>

(* A frame that no parser accepts, or whose action is none of the eight. *)
Dropped == <<"dropped">>

TypeOK ==
  /\ writing \in [Procs -> Requests \cup {Nil}]
  /\ left \in [Procs -> Seq(Bytes)]
  /\ fifo \in Seq(Bytes) /\ Len(fifo) <= PipeSize
  /\ recv_buf \in Seq(Bytes)
  /\ written \in Seq(Requests)

Init ==
  /\ writing = [p \in Procs |-> Nil]
  /\ left = [p \in Procs |-> <<>>]
  /\ fifo = <<>> /\ recv_buf = <<>>
  /\ written = <<>> /\ handled = <<>>
-----------------------------------------------------------------------------
(* The clients.                                                            *)

(* The frame of every request. *)
Frame == [r \in Requests |-> serialize(r)]

Busy == {p \in Procs : writing[p] # Nil}

send(p, request) ==
  /\ writing[p] = Nil
  /\ Len(written) + Cardinality(Busy) < MaxRequests
  /\ writing' = [writing EXCEPT ![p] = request]
  /\ left' = [left EXCEPT ![p] = Frame[request]]
  /\ UNCHANGED <<fifo, recv_buf, written, handled>>

(* The pieces of a write() of size bytes of which some are left to write. *)
Pieces(size, remaining) == IF size <= PIPE_BUF THEN {remaining} ELSE 1 .. remaining

(* One turn of the kernel, or of the loop around a write() that a signal   *)
(* cut short: k more bytes enter the pipe.                                 *)
write_exact(p) ==
  /\ writing[p] # Nil
  /\ \E k \in Pieces(Len(Frame[writing[p]]), Len(left[p])) :
       /\ Len(fifo) + k <= PipeSize
       /\ fifo' = fifo \o SubSeq(left[p], 1, k)
       /\ left' = [left EXCEPT ![p] = SubSeq(@, k + 1, Len(@))]
       /\ IF k = Len(left[p])
          THEN /\ writing' = [writing EXCEPT ![p] = Nil]
               /\ written' = Append(written, writing[p])
          ELSE UNCHANGED <<writing, written>>
  /\ UNCHANGED <<recv_buf, handled>>
-----------------------------------------------------------------------------
(* Server::run.                                                            *)

(* 5 + payload_len, of the frame at the front of a buffer. *)
FrameLen(buf) == (5 + read_uint32_le(buf, 1)) % U32

(* Mutant: the loop waits for one byte more than the frame has. *)
FrameReadyLate(buf) == Len(buf) >= 5 /\ Len(buf) > FrameLen(buf)

(* The condition of the inner loop, and not its break. *)
FrameReady(buf) == Len(buf) >= 5 /\ Len(buf) >= FrameLen(buf)

(* Mutant: the buffer is refilled instead of extended. *)
run_read_Refills ==
  /\ ~FrameReady(recv_buf) /\ fifo # <<>>
  /\ LET n == SE!Min({ReadSize, Len(fifo)})
     IN  /\ recv_buf' = SubSeq(fifo, 1, n)
         /\ fifo' = SubSeq(fifo, n + 1, Len(fifo))
  /\ UNCHANGED <<writing, left, written, handled>>

(* read() blocks on an empty pipe; the server itself keeps it open. *)
run_read ==
  /\ ~FrameReady(recv_buf) /\ fifo # <<>>
  /\ LET n == SE!Min({ReadSize, Len(fifo)})
     IN  /\ recv_buf' = recv_buf \o SubSeq(fifo, 1, n)
         /\ fifo' = SubSeq(fifo, n + 1, Len(fifo))
  /\ UNCHANGED <<writing, left, written, handled>>

(* The handler of the action parses the payload; it returns without a      *)
(* trace if that fails, and an unknown action has no handler.              *)
handle_request(action, payload) ==
  LET found == UNION {parse(c, payload) : c \in {d \in Commands : CommandType[d] = action}}
  IN  IF found = {} THEN Dropped ELSE CHOOSE r \in found : TRUE

run_frame ==
  /\ FrameReady(recv_buf)
  /\ LET n == FrameLen(recv_buf)
     IN  /\ handled' = Append(handled,
                              handle_request(recv_buf[1], SubSeq(recv_buf, 6, n)))
         /\ recv_buf' = SubSeq(recv_buf, n + 1, Len(recv_buf))
  /\ UNCHANGED <<writing, left, fifo, written>>

Next ==
  \/ \E p \in Procs : write_exact(p) \/ \E r \in Requests : send(p, r)
  \/ run_read
  \/ run_frame

(* The clients' writes go on while there is room, the server reads.        *)
Fairness ==
  /\ \A p \in Procs : WF_vars(write_exact(p))
  /\ WF_vars(run_read) /\ WF_vars(run_frame)

Spec == Init /\ [][Next]_vars /\ Fairness
-----------------------------------------------------------------------------
(* Correctness.                                                            *)

(* A request as the clients build them: every argument fits into its field *)
(* and a message is within the limit, as the producer sees to it.          *)
WellFormed(request) ==
  /\ request[1] \in Commands
  /\ LET fields == Layout[request[1]]
     IN  /\ request = [i \in 1 .. Len(fields) + 1 |-> request[i]]
         /\ \A i \in 1 .. Len(fields) :
              request[i + 1] \in IF fields[i] = "uint32" THEN 0 .. U32 - 1 ELSE Seq(Bytes)
  /\ request[1] = "PRODUCE" => Len(request[3]) + Len(request[4]) <= MAX_PAYLOAD_SIZE

(* The condition under which the FIFO keeps requests apart.  A SUBSCRIBE   *)
(* with a long prefix breaks it.                                           *)
FramesFit ==
  /\ PIPE_BUF < U32
  /\ \A r \in Requests : WellFormed(r) /\ Len(Frame[r]) <= PIPE_BUF

(* The bytes of a list of requests. *)
Stream(requests) == SE!FlattenSeq([i \in DOMAIN requests |-> Frame[requests[i]]])

(* What is between the clients and handle_request, in recv_buf and in the  *)
(* pipe, is the frames that have not been handled, whole and in order: no  *)
(* byte is lost, doubled or left over, so the next header is a header.     *)
StreamFramed ==
  recv_buf \o fifo = Stream(SubSeq(written, Len(handled) + 1, Len(written)))

Queue == INSTANCE RequestQueue
           WITH queue <- SubSeq(written, Len(handled) + 1, Len(written))

(* The byte stream implements the queue of requests Server.tla relies on:  *)
(* wherever read() cuts the frames, a call of handle_request is given the  *)
(* oldest request there is, whole and as it was sent.                      *)
ImplementsQueue == Queue!Spec

(* Every request that a client has begun to write is handled in the end.   *)
AllHandled == []<>(Busy = {} /\ Len(handled) = Len(written))

(* Server.cpp:103, "we wait for the remaining bytes of the frame": what    *)
(* the server takes for a request is one that a client sent.               *)
HandledWereSent ==
  \A i \in DOMAIN handled : handled[i] \in Requests
=============================================================================
