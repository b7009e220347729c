------------------------------ MODULE Exchange -------------------------------
(***************************************************************************)
(* One request and its answer (client/src/ipc_exchange.cpp, ipc/ipc.cpp),  *)
(* as the commands create, list and produce run them against a server that *)
(* may not have started, is busy, is being stopped, or dies: the FIFOs in  *)
(* the file system, the retries and timeouts of the client, and the exit   *)
(* code from which the user learns what became of the command.             *)
(*                                                                         *)
(* There is one topic, and one server: its path contains its pid.  The     *)
(* payload of a LIST may be more than a pipe holds and is written as a     *)
(* piece of its own; every other frame is one write.  How stop() and the   *)
(* handlers compete for the mutexes is Shutdown's business.                *)
(***************************************************************************)
EXTENDS Integers, Sequences

CONSTANTS
  Clients,     \* client processes
  Ops,         \* per client: the commands it may run
  Nil,
  Capacity,    \* requests the server's FIFO holds
  MaxRecords   \* bound on the good records in a producer's input

ASSUME ExchangeAssumption ==
  /\ Ops \in [Clients -> SUBSET {"CREATE", "LIST", "CONNECT"}]
  /\ Nil \notin Clients /\ Capacity \in Nat \ {0} /\ MaxRecords \in Nat

VARIABLES
  server,      \* how far the server process has come
  ipc_path,    \* its FIFO is in the file system
  queue,       \* requests in its FIFO
  recv_buf,    \* requests it has read
  handling,    \* the answer it is sending, or Nil
  creator,     \* whose CREATE made the topic, or Nil
  published,   \* per client: how many PRODUCEs of it reached the topic
  pc,          \* per client: where it stands
  op,          \* per client: its command
  fifo,        \* per client: its FIFO in the file system
  inbox,       \* per client: what has been written to it
  records,     \* per client: the records of its input it has sent
  code         \* per client: the exit code it is going to return

serverVars == <<server, ipc_path, recv_buf, handling, creator, published>>
clientVars == <<pc, op, fifo, records, code>>
vars == <<serverVars, clientVars, queue, inbox>>

Request == [op : {"CREATE", "LIST", "CONNECT", "PRODUCE"}, c : Clients]
WakeByte == [op |-> "NUL", c |-> Nil]
StatusCode == [SUCCESS |-> 0, GENERAL_ERROR |-> 1, TOPIC_CLIENT_ERR |-> 2, IPC_ERROR |-> 3]
(* A status code comes in a header, which announces a payload or does not. *)
Piece == {"header", "announce", "payload"} \X (0 .. 3)

TypeOK ==
  /\ server \in {"absent", "made", "open", "unlinked", "woken", "closed", "gone"}
  /\ ipc_path \in BOOLEAN
  /\ queue \in Seq(Request \cup {WakeByte}) /\ Len(queue) <= Capacity
  /\ recv_buf \in Seq(Request)
  /\ handling \in {Nil} \cup [c : Clients, pieces : Seq(Piece), fd : BOOLEAN]
  /\ creator \in Clients \cup {Nil} /\ published \in [Clients -> Nat]
  /\ pc \in [Clients -> {"start", "connect", "write", "header", "payload", "close", "unlink",
                         "reconnect", "input", "publish", "exited", "crashed"}]
  /\ op \in [Clients -> {"CREATE", "LIST", "CONNECT", Nil}]
  /\ \A c \in Clients : op[c] \in IF pc[c] = "start" THEN {Nil} ELSE Ops[c]
  /\ fifo \in [Clients -> {"none", "read", "unread"}]
  /\ inbox \in [Clients -> Seq(Piece)] /\ code \in [Clients -> 0 .. 3]
  /\ records \in [Clients -> Nat]

Init ==
  /\ server = "absent" /\ ipc_path = FALSE
  /\ queue = <<>> /\ recv_buf = <<>> /\ handling = Nil
  /\ creator = Nil /\ published = [c \in Clients |-> 0]
  /\ pc = [c \in Clients |-> "start"] /\ op = [c \in Clients |-> Nil]
  /\ fifo = [c \in Clients |-> "none"] /\ inbox = [c \in Clients |-> <<>>]
  /\ records = [c \in Clients |-> 0] /\ code = [c \in Clients |-> 0]
-----------------------------------------------------------------------------
(* The server process.                                                     *)

Alive == server \notin {"absent", "gone"}
(* The main thread is not inside the signal handler. *)
Runs == server \in {"open", "closed"}
HasReader == server \in {"open", "unlinked", "woken"}

make_fifo ==
  /\ server = "absent"
  /\ server' = "made" /\ ipc_path' = TRUE
  /\ UNCHANGED <<recv_buf, handling, creator, published, clientVars, queue, inbox>>

open_fifo ==
  /\ server = "made" /\ server' = "open"
  /\ UNCHANGED <<ipc_path, recv_buf, handling, creator, published, clientVars, queue, inbox>>

(* read() takes all there is; the loop comes back to it when recv_buf has  *)
(* been worked off.                                                        *)
read_requests ==
  /\ server = "open" /\ recv_buf = <<>> /\ handling = Nil /\ queue # <<>>
  /\ recv_buf' = queue /\ queue' = <<>>
  /\ UNCHANGED <<server, ipc_path, handling, creator, published, clientVars, inbox>>

Status(r) ==
  IF r.op = "LIST" \/ (r.op = "CREATE") = (creator = Nil)
  THEN StatusCode.SUCCESS ELSE StatusCode.TOPIC_CLIENT_ERR

(* A LIST of no topics has no payload. *)
Answer(r) ==
  IF r.op = "LIST" /\ creator # Nil
  THEN <<<<"announce", StatusCode.SUCCESS>>, <<"payload", StatusCode.SUCCESS>>>>
  ELSE <<<<"header", Status(r)>>>>

(* A message is appended to the topic. *)
Count(r) == published' = [published EXCEPT ![r.c] = @ + 1]


(* handle_create, handle_list, handle_producer_connect, handle_publish, up *)
(* to send_response.                                                       *)
handle_request ==
  LET r == Head(recv_buf)
  IN  /\ Runs /\ recv_buf # <<>> /\ handling = Nil
      /\ recv_buf' = Tail(recv_buf)
      /\ creator' = IF r.op = "CREATE" /\ creator = Nil THEN r.c ELSE creator
      /\ IF r.op = "PRODUCE" /\ creator # Nil THEN Count(r) ELSE UNCHANGED published
      /\ handling' = IF r.op = "PRODUCE" THEN Nil
                     ELSE [c |-> r.c, pieces |-> Answer(r), fd |-> FALSE]
      /\ UNCHANGED <<server, ipc_path, clientVars, queue, inbox>>

(* open() of the response FIFO waits for a reader, as long as there is one *)
(* to be expected; without the file it fails and nothing is sent.          *)
respond_open ==
  /\ Runs /\ handling # Nil /\ ~handling.fd
  /\ fifo[handling.c] # "unread"
  /\ handling' = IF fifo[handling.c] = "none" THEN Nil ELSE [handling EXCEPT !.fd = TRUE]
  /\ UNCHANGED <<server, ipc_path, recv_buf, creator, published, clientVars, queue, inbox>>

(* One piece is written, or none if the reader has left. *)
respond_write ==
  LET c == handling.c
      rest == Tail(handling.pieces)
  IN  /\ Runs /\ handling # Nil /\ handling.fd
      /\ IF fifo[c] = "read"
         THEN /\ inbox' = [inbox EXCEPT ![c] = Append(@, Head(handling.pieces))]
              /\ handling' = IF rest = <<>> THEN Nil ELSE [handling EXCEPT !.pieces = rest]
         ELSE handling' = Nil /\ UNCHANGED inbox
      /\ UNCHANGED <<server, ipc_path, recv_buf, creator, published, clientVars, queue>>

(* Server::stop, in the signal handler: unlink the FIFO, open it to write  *)
(* a byte into it, close it.                                               *)
stop_unlink ==
  /\ server = "open" /\ server' = "unlinked" /\ ipc_path' = FALSE
  /\ UNCHANGED <<recv_buf, handling, creator, published, clientVars, queue, inbox>>

stop_wake ==
  /\ server = "unlinked" /\ server' = "woken"
  /\ queue' = IF ipc_path /\ Len(queue) < Capacity THEN Append(queue, WakeByte) ELSE queue
  /\ UNCHANGED <<ipc_path, recv_buf, handling, creator, published, clientVars, inbox>>

stop_close ==
  /\ server = "woken" /\ server' = "closed"
  /\ queue' = <<>>
  /\ UNCHANGED <<ipc_path, recv_buf, handling, creator, published, clientVars, inbox>>

(* The interrupted request and the frames already read are finished first. *)
exit ==
  /\ server = "closed" /\ recv_buf = <<>> /\ handling = Nil
  /\ server' = "gone"
  /\ UNCHANGED <<ipc_path, recv_buf, handling, creator, published, clientVars, queue, inbox>>

(* SIGKILL, or a signal before the handlers are installed. *)
crash ==
  /\ Alive /\ server' = "gone"
  /\ recv_buf' = <<>> /\ handling' = Nil /\ queue' = <<>>
  /\ UNCHANGED <<ipc_path, creator, published, clientVars, inbox>>
-----------------------------------------------------------------------------
(* The client processes.                                                   *)

At(c, here) == pc[c] = here
Goto(c, there) == pc' = [pc EXCEPT ![c] = there]

(* Return from exchange_request: ~FifoReader is still to run. *)
Return(c, status) == Goto(c, "close") /\ code' = [code EXCEPT ![c] = status]

(* FifoReader::create *)
create_fifo(c) ==
  /\ At(c, "start")
  /\ \E o \in Ops[c] : op' = [op EXCEPT ![c] = o]
  /\ fifo' = [fifo EXCEPT ![c] = "read"]
  /\ Goto(c, "connect")
  /\ UNCHANGED <<serverVars, queue, inbox, records, code>>

(* FifoWriter::open succeeds once there is a FIFO with a reader.  ENXIO and *)
(* ENOENT are tried again, until two seconds have passed.                  *)
connect(c) ==
  /\ pc[c] \in {"connect", "reconnect"} /\ ipc_path /\ HasReader
  /\ Goto(c, IF At(c, "connect") THEN "write" ELSE "input")
  /\ UNCHANGED <<serverVars, queue, inbox, op, fifo, records, code>>

(* ServerUnavailable. *)
connect_times_out(c) ==
  /\ ~(ipc_path /\ HasReader)
  /\ \/ At(c, "connect") /\ Return(c, 1)
     \/ At(c, "reconnect") /\ Goto(c, "exited") /\ code' = [code EXCEPT ![c] = 1]
  /\ UNCHANGED <<serverVars, queue, inbox, op, fifo, records>>

(* write_exact waits while the pipe is full. *)
Sends(c, request) ==
  /\ HasReader /\ Len(queue) < Capacity
  /\ queue' = Append(queue, [op |-> request, c |-> c])

write(c) ==
  /\ At(c, "write") /\ Sends(c, op[c])
  /\ Goto(c, "header")
  /\ UNCHANGED <<serverVars, inbox, op, fifo, records, code>>

(* EPIPE: the server has closed its FIFO since. *)
write_fails(c) ==
  /\ At(c, "write") /\ ~HasReader
  /\ Return(c, 3)
  /\ UNCHANGED <<serverVars, queue, inbox, op, fifo, records>>

exit_code_from_response_code(status) == IF status \in 0 .. 3 THEN status ELSE 3

Receive(c) == inbox' = [inbox EXCEPT ![c] = Tail(@)]

read_header(c) ==
  /\ At(c, "header") /\ inbox[c] # <<>>
  /\ Receive(c)
  /\ LET piece == Head(inbox[c])
     IN  IF piece[1] = "announce" THEN Goto(c, "payload") /\ UNCHANGED code
         ELSE Return(c, exit_code_from_response_code(piece[2]))
  /\ UNCHANGED <<serverVars, queue, op, fifo, records>>

read_payload(c) ==
  /\ At(c, "payload") /\ inbox[c] # <<>>
  /\ Receive(c) /\ Return(c, 0)
  /\ UNCHANGED <<serverVars, queue, op, fifo, records>>

(* Mutant: a server that does not answer passes for one that is not there. *)
read_times_out_Unavailable(c) ==
  /\ pc[c] \in {"header", "payload"} /\ inbox[c] = <<>>
  /\ Return(c, 1)
  /\ UNCHANGED <<serverVars, queue, inbox, op, fifo, records>>

(* Mutant: the client waits for the answer without a timeout. *)
read_times_out_Never(c) == FALSE /\ UNCHANGED vars

(* CommunicationError. *)
read_times_out(c) ==
  /\ pc[c] \in {"header", "payload"} /\ inbox[c] = <<>>
  /\ Return(c, 3)
  /\ UNCHANGED <<serverVars, queue, inbox, op, fifo, records>>

(* FifoReader::close: first the descriptor, then the file. *)
close_fd(c) ==
  /\ At(c, "close") /\ Goto(c, "unlink")
  /\ fifo' = [fifo EXCEPT ![c] = "unread"]
  /\ inbox' = [inbox EXCEPT ![c] = <<>>]
  /\ UNCHANGED <<serverVars, queue, op, records, code>>

(* Mutant: the file stays. *)
close_unlink_Forgotten(c) ==
  /\ At(c, "unlink")
  /\ Goto(c, IF op[c] = "CONNECT" /\ code[c] = 0 THEN "reconnect" ELSE "exited")
  /\ UNCHANGED <<serverVars, queue, inbox, op, fifo, records, code>>

(* A producer that has been accepted opens the server's FIFO again. *)
close_unlink(c) ==
  /\ At(c, "unlink")
  /\ fifo' = [fifo EXCEPT ![c] = "none"]
  /\ Goto(c, IF op[c] = "CONNECT" /\ code[c] = 0 THEN "reconnect" ELSE "exited")
  /\ UNCHANGED <<serverVars, queue, inbox, op, records, code>>

(* execute_publish_text and execute_publish_raw: a good record ...         *)
read_record(c) ==
  /\ At(c, "input") /\ records[c] < MaxRecords
  /\ Goto(c, "publish")
  /\ UNCHANGED <<serverVars, queue, inbox, op, fifo, records, code>>

end_of_input(c) ==
  /\ At(c, "input") /\ Goto(c, "exited")
  /\ UNCHANGED <<serverVars, queue, inbox, op, fifo, records, code>>

(* ... or one without a separator, too long, or cut short, or an input     *)
(* that cannot be read: what was sent before stays sent.                   *)
bad_record(c) ==
  /\ At(c, "input") /\ Goto(c, "exited")
  /\ code' = [code EXCEPT ![c] = 1]
  /\ UNCHANGED <<serverVars, queue, inbox, op, fifo, records>>

publish(c) ==
  /\ At(c, "publish") /\ Sends(c, "PRODUCE")
  /\ records' = [records EXCEPT ![c] = @ + 1]
  /\ Goto(c, "input")
  /\ UNCHANGED <<serverVars, inbox, op, fifo, code>>

publish_fails(c) ==
  /\ At(c, "publish") /\ ~HasReader
  /\ Goto(c, "exited") /\ code' = [code EXCEPT ![c] = 3]
  /\ UNCHANGED <<serverVars, queue, inbox, op, fifo, records>>

crash_client(c) ==
  /\ pc[c] \notin {"start", "exited", "crashed"}
  /\ Goto(c, "crashed")
  /\ fifo' = [fifo EXCEPT ![c] = IF @ = "none" THEN "none" ELSE "unread"]
  /\ inbox' = [inbox EXCEPT ![c] = <<>>]
  /\ UNCHANGED <<serverVars, queue, op, records, code>>
-----------------------------------------------------------------------------
Serve == make_fifo \/ open_fifo \/ read_requests \/ handle_request \/ respond_open \/ respond_write
Stop == stop_unlink \/ stop_wake \/ stop_close \/ exit
Command(c) ==
  \/ connect(c) \/ connect_times_out(c) \/ write(c) \/ write_fails(c)
  \/ read_header(c) \/ read_payload(c) \/ read_times_out(c)
  \/ close_fd(c) \/ close_unlink(c)
  \/ read_record(c) \/ end_of_input(c) \/ bad_record(c)
  \/ publish(c) \/ publish_fails(c)

Next ==
  \/ Serve \/ Stop \/ crash
  \/ \E c \in Clients : create_fifo(c) \/ Command(c) \/ crash_client(c)

(* Threads run, a time that is waited for passes, and an input ends.  The  *)
(* server need not be started or stopped, and nobody need crash.           *)
Fairness ==
  /\ WF_vars(open_fifo \/ read_requests \/ handle_request \/ respond_open \/ respond_write)
  /\ WF_vars(stop_wake \/ stop_close \/ exit)
  /\ \A c \in Clients : WF_vars(Command(c))

Spec == Init /\ [][Next]_vars /\ Fairness
-----------------------------------------------------------------------------
(* Correctness.                                                            *)

Exited(c, n) == pc[c] = "exited" /\ code[c] = n

(* The request of client c is on its way. *)
Pending(c, o) ==
  \E s \in {queue, recv_buf} : \E i \in DOMAIN s : s[i] = [op |-> o, c |-> c]

(* What the exit code of a command says is true, whatever the server went  *)
(* through in between: 0, the topic was made by this command, or the       *)
(* producer was accepted by a topic that exists; 2, it was refused because *)
(* of what another client did or did not do; 1, it made no topic and is    *)
(* not going to make one, and a producer that sent no record has no effect *)
(* at all (after a bad record, those before it count).                     *)
ExitCodeTells ==
  \A c \in Clients :
    /\ Exited(c, 0) => /\ op[c] = "CREATE" => creator = c
                       /\ op[c] = "CONNECT" => creator # Nil
    /\ Exited(c, 2) => op[c] # "LIST" /\ creator # c /\ (op[c] = "CREATE" => creator # Nil)
    /\ Exited(c, 1) => /\ creator # c /\ ~Pending(c, "CREATE")
                       /\ \/ records[c] > 0
                          \/ published[c] = 0 /\ ~Pending(c, "PRODUCE")

(* Nothing is left in /tmp by a client that returns, on any path, nor by   *)
(* the server once stop() has begun, and a late answer brings nothing back. *)
NothingLeftBehind ==
  /\ \A c \in Clients : pc[c] \in {"exited", "reconnect", "input", "publish"} => fifo[c] = "none"
  /\ server \in {"unlinked", "woken", "closed"} => ~ipc_path

(* Every command returns, although the server may never start, hang or die *)
(* at any moment; the only place where it can wait for good is the write   *)
(* to the FIFO of a server that is alive and no longer reads it.           *)
CommandReturns ==
  \A c \in Clients :
    \/ <>[](pc[c] \in {"start", "exited", "crashed"})
    \/ <>[](pc[c] \in {"write", "publish"} /\ HasReader /\ Len(queue) = Capacity)

Producers == {c \in Clients : "CONNECT" \in Ops[c]}

=============================================================================
