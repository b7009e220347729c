---------------------------- MODULE ServerProofs -----------------------------
(***************************************************************************)
(* What TLAPS proves about Server, for all sets of names, topics and       *)
(* processes, every size of the pipes and everything that may befall a     *)
(* client.                                                                 *)
(***************************************************************************)
EXTENDS Server, SequenceTheorems, FiniteSetTheorems, TLAPS

(* The types without bounds: offsets are numbers, queues sequences. *)
Delivery == [offset : Nat]

PCs == {"new", "wait", "consume", "ack", "publish", "closing", "unlinking",
        "exited", "crashed"}
SubscribeCommands == [type : {"SUBSCRIBE"}, client : Names, topic : Topics]

(* The process reads its FIFO, for its own sake or until it closes it. *)
Listening == {"wait", "consume", "ack"}
Reading == Listening \cup {"closing"}

TypeInv ==
  /\ inbox \in Seq(Requests)
  /\ main \in Mains
  /\ IsTable(log, Topics, Nat)
  /\ IsTable(client_index, Names, ClientMetadata)
  /\ DOMAIN subscribers = Topics
  /\ \A t \in Topics : IsTable(subscribers[t], Names, ActiveSubscriber)
  /\ fifo \in [Pids -> {"none", "open", "orphan"}]
  /\ pipe \in [Pids -> Seq([status : Status] \cup Delivery)]
  /\ pc \in [Pids -> PCs]
  /\ cmd \in [Pids -> Commands \cup {Nil}]
  /\ held \in [SubPids -> Nat \cup {Nil}]
  /\ printed \in [Names -> [Topics -> SUBSET Nat]]
  /\ asked \in [Names -> Offsets]

(* A process only takes the steps of its command. *)
ShapeInv ==
  \A p \in Pids :
    /\ pc[p] \in {"consume", "ack"} => p \in SubPids
    /\ pc[p] \in Listening /\ p \in SubPids => cmd[p] \in SubscribeCommands
    /\ pc[p] = "ack" => held[p] \in Nat
    /\ p \in ProdPids => cmd[p] \in [type : {"CONNECT"}, topic : Topics] \cup {Nil}
    /\ pc[p] = "publish" => cmd[p] # Nil

(* Request r awaits a response in the FIFO of process p. *)
Asking == {"SUBSCRIBE", "CONNECT", "CREATE", "LIST", "INFO"}
Asks(r, p) == r.type \in Asking /\ r.pid = p

InQueue(p) == \E i \in 1 .. Len(inbox) : Asks(inbox[i], p)
Serving(p) == main.at # "idle" /\ main.pid = p
Holds(t, c, p) == c \in DOMAIN subscribers[t] /\ subscribers[t][c].fifo_fd = p
Attached(p) == \E t \in Topics, c \in Names : Holds(t, c, p)

(* The FIFO of a process follows its steps. *)
FifoInv ==
  \A p \in Pids :
    /\ fifo[p] = "open" <=> pc[p] \in Reading
    /\ fifo[p] = "orphan" => pc[p] \in {"unlinking", "crashed"}
    /\ pc[p] = "new" => pipe[p] = <<>>

(* A process has one request, which is in the queue, or is being answered, *)
(* or has been; only then is the process attached.                         *)
OneRequest(p) ==
  \A i, j \in 1 .. Len(inbox) : Asks(inbox[i], p) /\ Asks(inbox[j], p) => i = j
Phases(p) ==
  /\ InQueue(p) => ~Serving(p) /\ ~Attached(p)
  /\ Serving(p) => ~Attached(p)
  /\ pc[p] = "new" => ~InQueue(p) /\ ~Serving(p) /\ ~Attached(p)
Unanswered(p) == InQueue(p) \/ (Serving(p) /\ main.at # "attach")
Answered(p) ==
  /\ Unanswered(p) => pipe[p] = <<>> /\ pc[p] \notin {"consume", "ack"}
  /\ Attached(p) \/ (Serving(p) /\ main.at = "attach") =>
       (pc[p] = "wait" => pipe[p] # <<>>)

PhaseInv == \A p \in Pids : OneRequest(p) /\ Phases(p) /\ Answered(p)

(* client_index names process p as the subscriber c of topic t. *)
Indexed(t, c, p) ==
  /\ c \in DOMAIN client_index /\ client_index[c].is_active
  /\ client_index[c].topic = t /\ client_index[c].ipc_path = p

(* The subscriber being answered is the one client_index names. *)
AttachInv ==
  main.at # "idle" /\ main.attach # Nil =>
    Indexed(main.attach.topic, main.attach.client, main.pid)

(* What a process was started for, and what is being done for it. *)
Subscribes(p, c, t) == cmd[p].client = c /\ cmd[p].topic = t

AskedFor(p) ==
  \A i \in 1 .. Len(inbox) :
    Asks(inbox[i], p) => Subscribes(p, inbox[i].client, inbox[i].topic)
ServedFor(p) ==
  Serving(p) =>
    IF main.attach = Nil THEN main.status = "TOPIC_CLIENT_ERR"
    ELSE Subscribes(p, main.attach.client, main.attach.topic)
AttachedFor(p) == \A t \in Topics, c \in Names : Holds(t, c, p) => Subscribes(p, c, t)

CommandInv ==
  \A p \in SubPids :
    pc[p] \in Listening => AskedFor(p) /\ ServedFor(p) /\ AttachedFor(p)

(* The process was accepted, whether it knows it yet or not. *)
Accepted(p) ==
  \/ pc[p] \in {"consume", "ack"}
  \/ pc[p] = "wait" /\ pipe[p] # <<>> /\ Head(pipe[p]) = [status |-> "SUCCESS"]

AcceptedInv ==
  \A p \in SubPids :
    Accepted(p) =>
      \/ p \in lost \/ (main.at = "attach" /\ main.pid = p)
      \/ Holds(cmd[p].topic, cmd[p].client, p)

(* Offset o was printed under the name c, or is below what was asked for,  *)
(* or was lost to a stream that had failed.                                *)
Covered(c, o) ==
  \/ o < asked[c]
  \/ \E t \in Topics : o \in printed[c][t]
  \/ \E p \in SubPids : <<p, c, o>> \in swallowed
Below(c, n) == \A o \in 0 .. n - 1 : Covered(c, o)

(* Offset o is covered, or is among the first n frames in the FIFO of p. *)
Told(p, c, o, n) == Covered(c, o) \/ \E j \in 1 .. n : pipe[p][j] = [offset |-> o]

(* What is on its way to a process has no gap but the part it was asked to *)
(* leave out: up to the cursor of its topic, up to each frame in its FIFO, *)
(* up to the message it holds.                                             *)
CursorCovered(p) ==
  \A t \in Topics, c \in Names : Holds(t, c, p) =>
    \A o \in 0 .. subscribers[t][c].next_offset - 1 : Told(p, c, o, Len(pipe[p]))
PipeCovered(p) ==
  \A i \in 1 .. Len(pipe[p]) : pipe[p][i] \in Delivery =>
    \A o \in 0 .. pipe[p][i].offset - 1 : Told(p, cmd[p].client, o, i - 1)
HeldCovered(p) == pc[p] = "ack" => Below(cmd[p].client, held[p] + 1)

CommittedBelow == \A c \in DOMAIN client_index : Below(c, client_index[c].offset)
AcksBelow ==
  \A i \in 1 .. Len(inbox) : inbox[i].type = "ACK" => Below(inbox[i].client, inbox[i].offset)
StartBelow ==
  main.at # "idle" /\ main.attach # Nil => Below(main.attach.client, main.attach.start)
ProcessCovered(p) ==
  pc[p] \in Listening => CursorCovered(p) /\ PipeCovered(p) /\ HeldCovered(p)

OffsetInv ==
  /\ CommittedBelow /\ AcksBelow /\ StartBelow
  /\ \A p \in SubPids : ProcessCovered(p)

BaseInv == TypeInv /\ ShapeInv /\ FifoInv /\ PhaseInv /\ ResponseThenDeliveries
IndexInv == LiveSessionIndexed /\ AttachInv
ServerInv ==
  BaseInv /\ BlockedOnlyByDeparted /\ IndexInv /\ CommandInv /\ AcceptedInv /\ OffsetInv
-----------------------------------------------------------------------------
(* Queues: what Tail and Append leave where.                               *)

(* Tail drops the first position and moves the others up. *)
LEMMA TailAt ==
  ASSUME NEW S, NEW q \in Seq(S), q # <<>>
  PROVE  /\ Tail(q) \in Seq(S) /\ Len(Tail(q)) = Len(q) - 1 /\ Len(q) \in Nat \ {0}
         /\ Head(q) = q[1] /\ Head(q) \in S
         /\ \A i \in 1 .. Len(Tail(q)) : Tail(q)[i] = q[i + 1] /\ i + 1 \in 1 .. Len(q)
  BY HeadTailProperties

(* Append keeps the old positions and adds one at the end. *)
LEMMA AppendAt ==
  ASSUME NEW S, NEW q \in Seq(S), NEW r \in S
  PROVE  /\ Append(q, r) \in Seq(S) /\ Len(Append(q, r)) = Len(q) + 1 /\ Len(q) \in Nat
         /\ Append(q, r)[Len(q) + 1] = r
         /\ \A i \in 1 .. Len(q) : Append(q, r)[i] = q[i]
         /\ Append(q, r) # <<>>
         /\ q # <<>> => Head(Append(q, r)) = Head(q)
  <1>1. /\ Append(q, r) \in Seq(S) /\ Len(Append(q, r)) = Len(q) + 1 /\ Len(q) \in Nat
        /\ Append(q, r)[Len(q) + 1] = r
        /\ \A i \in 1 .. Len(q) : Append(q, r)[i] = q[i]
    BY AppendProperties, LenProperties
  <1>2. Append(q, r) # <<>>
    BY <1>1, EmptySeq
  <1>3. ASSUME q # <<>> PROVE Head(Append(q, r)) = Head(q)
    <2>1. Head(q) = q[1] /\ 1 \in 1 .. Len(q)
      BY <1>3, HeadTailProperties
    <2>2. Head(Append(q, r)) = Append(q, r)[1]
      BY <1>1, <1>2, HeadTailProperties
    <2> QED BY <1>1, <2>1, <2>2
  <1> QED BY <1>1, <1>2, <1>3

(* The fields a request carries, by its type. *)
LEMMA RequestFields ==
  ASSUME NEW r \in Requests
  PROVE  /\ r.type \in Asking \cup {"ACK", "DISCONNECT", "PRODUCE"}
         /\ r.type \in Asking => r.pid \in Pids
         /\ r.type = "SUBSCRIBE" =>
              r.pid \in SubPids /\ r.client \in Names /\ r.topic \in Topics /\ r.offset \in Offsets
         /\ r.type = "ACK" => r.client \in Names /\ r.offset \in Offsets
         /\ r.type = "DISCONNECT" => r.client \in Names
         /\ r.type = "CONNECT" => r.pid \in ProdPids /\ r.topic \in Topics
         /\ r.type = "CREATE" => r.pid \in AdminPids /\ r.topic \in Topics
         /\ r.type = "PRODUCE" => r.topic \in Topics
         /\ r.type = "LIST" => r.pid \in AdminPids
         /\ r.type = "INFO" => r.pid \in AdminPids /\ r.client \in Names
  BY DEF Requests, Asking, Pids

(* Where the main thread stands, and what it carries. *)
LEMMA MainFields ==
  ASSUME main \in Mains
  PROVE  /\ main.at \in {"idle", "respond", "blocked", "attach"}
         /\ main.at = "idle" => main = Idle
         /\ main.at # "idle" => main.pid \in Pids
         /\ main.at \in {"respond", "blocked"} => main.status \in Status
         /\ main.at = "attach" => main.attach # Nil
         /\ main.at # "idle" /\ main.attach # Nil =>
              /\ main.pid \in SubPids /\ main.attach \in Attachment
              /\ main.attach.client \in Names /\ main.attach.topic \in Topics
              /\ main.attach.start \in Offsets
              /\ main.at # "attach" => main.status = "SUCCESS"
  <1>1. CASE main \in [at : {"idle"}]
    BY <1>1 DEF Idle
  <1>2. CASE main \in [at : {"respond", "blocked"}, pid : Pids, status : Status, attach : {Nil}]
    BY <1>2
  <1>3. CASE main \in [at : {"respond", "blocked"}, pid : SubPids, status : {"SUCCESS"},
                       attach : Attachment]
    BY <1>3, NilAssumption DEF Attachment, Pids, Status
  <1>4. CASE main \in [at : {"attach"}, pid : SubPids, attach : Attachment]
    BY <1>4, NilAssumption DEF Attachment, Pids
  <1> QED BY <1>1, <1>2, <1>3, <1>4 DEF Mains
-----------------------------------------------------------------------------
(* What the steps have in common.                                          *)

Handler ==
  \/ handle_create \/ handle_list \/ handle_info \/ handle_producer_connect
  \/ handle_publish \/ handle_subscriber_connect \/ handle_commit \/ handle_disconnect

(* A request is taken off the queue; if it awaits a response, that is what *)
(* the main thread turns to.                                               *)
Takes ==
  /\ main.at = "idle" /\ inbox # <<>> /\ inbox' = Tail(inbox)
  /\ UNCHANGED <<pc, cmd, held, published, printed, swallowed, fifo, pipe>>
  /\ main' \in Mains
  /\ Head(inbox).type \in Asking => main'.at = "respond" /\ main'.pid = Head(inbox).pid
  /\ Head(inbox).type \notin Asking => main' = main

(* A process begins: command is its command line, request what it sends. *)
Starts(p, command, request) ==
  /\ start(p, command, request)
  /\ p \in Pids /\ command \in Commands /\ request \in Requests /\ Asks(request, p)
  /\ p \in SubPids => /\ command \in SubscribeCommands
                      /\ request.client = command.client /\ request.topic = command.topic
  /\ p \in ProdPids => command \in [type : {"CONNECT"}, topic : Topics]

(* A process goes on, and may send what needs no response. *)
Others(p) ==
  \A q \in Pids \ {p} :
    /\ pc'[q] = pc[q] /\ cmd'[q] = cmd[q] /\ fifo'[q] = fifo[q] /\ pipe'[q] = pipe[q]
    /\ q \in SubPids => held'[q] = held[q]
Sends ==
  \/ inbox' = inbox
  \/ \E r \in Requests : r.type \notin Asking /\ inbox' = Append(inbox, r)
Continues(p) ==
  /\ UNCHANGED <<main, log, client_index, producer_topics, subscribers, asked, lost>>
  /\ Others(p) /\ Sends
  /\ pc[p] # "new" /\ pc'[p] \notin {"new", "wait"}
  /\ pc'[p] \in {"consume", "ack"} => pc[p] \in Listening /\ (pc[p] = "wait" => pipe[p] # <<>>)
  /\ pipe[p] = <<>> => pipe'[p] = <<>>
  /\ fifo'[p] = "open" => fifo[p] = "open"
  /\ pc'[p] \in Listening => cmd'[p] = cmd[p]
ClientAction(p) == Goes(p) \/ Misfortune(p) \/ (p \in ProdPids /\ publish(p))

(* A name's first start is 0, and a known one resumes where it was. *)
LEMMA StartIsOffset ==
  ASSUME TypeInv, NEW r \in Requests, r.type = "SUBSCRIBE"
  PROVE  StartOffset(r) \in Offsets
  BY RequestFields, ServerAssumption DEF StartOffset, TypeInv, IsTable, ClientMetadata, Offsets

(* Every handler takes the first frame of the inbox, and turns to its *)
(* sender if that one awaits a response.                              *)
LEMMA HandlerTakes ==
  ASSUME TypeInv, Handler
  PROVE  Takes
  <1> DEFINE r == Head(inbox)
  <1>a. inbox # <<>> /\ main.at = "idle" /\ inbox' = Tail(inbox)
        /\ UNCHANGED <<pc, cmd, held, published, printed, swallowed, fifo, pipe>>
    BY DEF Handler, Handles, clientVars, handle_create, handle_list, handle_info,
         handle_producer_connect, handle_publish, handle_subscriber_connect,
         handle_commit, handle_disconnect
  <1>b. r \in Requests
    BY <1>a, TailAt DEF TypeInv
  <1> HIDE DEF r
  <1>c. SUFFICES /\ main' \in Mains
                 /\ r.type \in Asking => main'.at = "respond" /\ main'.pid = r.pid
                 /\ r.type \notin Asking => main' = main
    BY <1>a DEF Takes, r
  <1>1. ASSUME r.pid \in Pids, NEW s \in Status, Respond(r.pid, s), r.type \in Asking
        PROVE  /\ main' \in Mains
               /\ main'.at = "respond" /\ main'.pid = r.pid
    <2>1. main' = [at |-> "respond", pid |-> r.pid, status |-> s, attach |-> Nil]
      BY <1>1 DEF Respond
    <2> QED BY <2>1, <1>1 DEF Mains
  <1>2. main \in Mains
    BY DEF TypeInv
  <1>3. "SUCCESS" \in Status /\ "TOPIC_CLIENT_ERR" \in Status
    BY DEF Status
  <1>4. CASE handle_create
    BY <1>1, <1>3, <1>4, <1>b, RequestFields DEF handle_create, Handles, Asking, r
  <1>5. CASE handle_list
    BY <1>1, <1>3, <1>5, <1>b, RequestFields DEF handle_list, Handles, Asking, r
  <1>6. CASE handle_info
    BY <1>1, <1>3, <1>6, <1>b, RequestFields DEF handle_info, Handles, Asking, r
  <1>7. CASE handle_producer_connect
    BY <1>1, <1>3, <1>7, <1>b, RequestFields DEF handle_producer_connect, Handles, Asking, r
  <1>8. CASE handle_publish \/ handle_commit \/ handle_disconnect
    BY <1>2, <1>8 DEF handle_publish, handle_commit, handle_disconnect, Handles, Asking, r
  <1>9. CASE handle_subscriber_connect
    <2>1. r.type = "SUBSCRIBE"
      BY <1>9 DEF handle_subscriber_connect, Handles, r
    <2>2. CASE Respond(r.pid, "TOPIC_CLIENT_ERR")
      BY <1>1, <1>3, <2>1, <2>2, <1>b, RequestFields DEF Asking
    <2>3. CASE main' = [at |-> "respond", pid |-> r.pid, status |-> "SUCCESS",
                        attach |-> [client |-> r.client, topic |-> r.topic,
                                    start |-> StartOffset(r)]]
      <3>1. [client |-> r.client, topic |-> r.topic, start |-> StartOffset(r)] \in Attachment
        BY <2>1, <1>b, RequestFields, StartIsOffset DEF Attachment
      <3>2. main' \in [at : {"respond", "blocked"}, pid : SubPids, status : {"SUCCESS"},
                       attach : Attachment]
        BY <2>3, <3>1, <2>1, <1>b, RequestFields
      <3> QED BY <2>3, <3>2, <2>1 DEF Mains, Asking
    <2> QED BY <1>9, <2>2, <2>3 DEF handle_subscriber_connect, r
  <1> QED BY <1>4, <1>5, <1>6, <1>7, <1>8, <1>9 DEF Handler

(* A launch of any client is one process that creates its FIFO and sends *)
(* one request.                                                          *)
LEMMA LaunchStarts ==
  ASSUME Launch
  PROVE  \E p, command, request : Starts(p, command, request)
  <1>1. ASSUME NEW p \in SubPids, NEW c \in Names, NEW t \in Topics,
               NEW offset \in Offsets \cup {Nil}, subscribe(p, c, t, offset)
        PROVE  \E command, request : Starts(p, command, request)
    <2> DEFINE command == [type |-> "SUBSCRIBE", client |-> c, topic |-> t]
               o == IF offset = Nil THEN OFFSET_UNSET ELSE offset
               request == [type |-> "SUBSCRIBE", pid |-> p, client |-> c, topic |-> t, offset |-> o]
    <2>1. start(p, command, request)
      BY <1>1 DEF subscribe
    <2>2. o \in Offsets
      BY ServerAssumption DEF Offsets, OFFSET_UNSET
    <2>3. command \in SubscribeCommands /\ command \in Commands
      BY DEF SubscribeCommands, Commands
    <2>4. request \in Requests /\ Asks(request, p)
      BY <2>2 DEF Requests, Asks, Asking
    <2>5. request.client = command.client /\ request.topic = command.topic
      OBVIOUS
    <2> HIDE DEF command, request
    <2> QED BY <2>1, <2>3, <2>4, <2>5, ServerAssumption DEF Starts, Pids
  <1>2. ASSUME NEW p \in ProdPids, NEW t \in Topics, produce(p, t)
        PROVE  \E command, request : Starts(p, command, request)
    <2> DEFINE command == [type |-> "CONNECT", topic |-> t]
               request == [type |-> "CONNECT", pid |-> p, topic |-> t]
    <2>1. start(p, command, request)
      BY <1>2 DEF produce
    <2>2. command \in [type : {"CONNECT"}, topic : Topics] /\ command \in Commands
      BY DEF Commands
    <2>3. request \in Requests /\ Asks(request, p)
      BY DEF Requests, Asks, Asking
    <2> HIDE DEF command, request
    <2> QED BY <2>1, <2>2, <2>3, ServerAssumption DEF Starts, Pids
  <1>3. ASSUME NEW p \in AdminPids, NEW command \in Commands, NEW request \in Requests,
               Asks(request, p), start(p, command, request)
        PROVE  Starts(p, command, request)
    BY <1>3, ServerAssumption DEF Starts, Pids
  <1>4. ASSUME NEW p \in AdminPids, manage(p)
        PROVE  \E command, request : Starts(p, command, request)
    <2>1. ASSUME NEW t \in Topics,
                 start(p, [type |-> "CREATE", topic |-> t],
                          [type |-> "CREATE", pid |-> p, topic |-> t])
          PROVE  \E command, request : Starts(p, command, request)
      <3>1. /\ [type |-> "CREATE", topic |-> t] \in Commands
            /\ [type |-> "CREATE", pid |-> p, topic |-> t] \in Requests
            /\ Asks([type |-> "CREATE", pid |-> p, topic |-> t], p)
        BY DEF Commands, Requests, Asks, Asking
      <3> QED BY <1>3, <2>1, <3>1
    <2>2. ASSUME start(p, [type |-> "LIST"], [type |-> "LIST", pid |-> p])
          PROVE  \E command, request : Starts(p, command, request)
      <3>1. /\ [type |-> "LIST"] \in Commands /\ [type |-> "LIST", pid |-> p] \in Requests
            /\ Asks([type |-> "LIST", pid |-> p], p)
        BY DEF Commands, Requests, Asks, Asking
      <3> QED BY <1>3, <2>2, <3>1
    <2>3. ASSUME NEW c \in Names,
                 start(p, [type |-> "INFO", client |-> c],
                          [type |-> "INFO", pid |-> p, client |-> c])
          PROVE  \E command, request : Starts(p, command, request)
      <3>1. /\ [type |-> "INFO", client |-> c] \in Commands
            /\ [type |-> "INFO", pid |-> p, client |-> c] \in Requests
            /\ Asks([type |-> "INFO", pid |-> p, client |-> c], p)
        BY DEF Commands, Requests, Asks, Asking
      <3> QED BY <1>3, <2>3, <3>1
    <2> QED BY <1>4, <2>1, <2>2, <2>3 DEF manage
  <1> QED BY <1>1, <1>2, <1>4 DEF Launch

(* Every other step of a client is its own: it leaves the tables and the *)
(* other processes alone, and adds at most one request that awaits no    *)
(* response.                                                             *)
LEMMA ClientContinues ==
  ASSUME TypeInv, ShapeInv, NEW p \in Pids, ClientAction(p)
  PROVE  Continues(p)
  <1> USE DEF Continues, Others, Sends, serverVars, Listening
  <1>t. pc \in [Pids -> PCs] /\ cmd \in [Pids -> Commands \cup {Nil}]
        /\ fifo \in [Pids -> {"none", "open", "orphan"}] /\ DOMAIN pipe = Pids
        /\ DOMAIN held = SubPids
    BY DEF TypeInv
  <1>s. pc[p] \in {"consume", "ack"} => cmd[p].client \in Names
    BY DEF ShapeInv, Listening, SubscribeCommands
  <1>1. CASE read_response(p)
    BY <1>t, <1>1 DEF read_response
  <1>2. CASE consume(p)
    BY <1>t, <1>2 DEF consume
  <1>3. CASE ack(p)
    <2> DEFINE r == [type |-> "ACK", client |-> cmd[p].client, offset |-> (held[p] + 1) % U32]
    <2>1. held[p] \in Nat
      BY <1>3 DEF ShapeInv, ack
    <2>2. (held[p] + 1) % U32 \in Offsets
      BY <2>1, ServerAssumption DEF Offsets
    <2>3. r \in Requests /\ r.type \notin Asking
      BY <2>2, <1>s, <1>3 DEF ack, Requests, Asking
    <2>4. inbox' = Append(inbox, r)
      BY <1>3 DEF ack, Send
    <2> HIDE DEF r
    <2> QED BY <1>t, <1>3, <2>3, <2>4 DEF ack
  <1>4. CASE close_fd(p)
    BY <1>t, <1>4 DEF close_fd
  <1>5. CASE unlink_fifo(p)
    BY <1>t, <1>5 DEF unlink_fifo
  <1>6. CASE time_out(p)
    BY <1>t, <1>6 DEF time_out
  <1>7. CASE disconnect(p)
    <2> DEFINE r == [type |-> "DISCONNECT", client |-> cmd[p].client]
    <2>1. r \in Requests /\ r.type \notin Asking
      BY <1>s, <1>7 DEF disconnect, Requests, Asking
    <2>2. inbox' = Append(inbox, r)
      BY <1>7 DEF disconnect, Send
    <2> HIDE DEF r
    <2> QED BY <1>t, <1>7, <2>1, <2>2 DEF disconnect
  <1>8. CASE output_error(p)
    BY <1>t, <1>8 DEF output_error
  <1>9. CASE crash(p)
    BY <1>t, <1>9 DEF crash
  <1>10. CASE p \in ProdPids /\ publish(p)
    <2> DEFINE r == [type |-> "PRODUCE", topic |-> cmd[p].topic]
    <2>1. cmd[p].topic \in Topics
      BY <1>10 DEF ShapeInv, publish
    <2>2. r \in Requests /\ r.type \notin Asking
      BY <2>1 DEF Requests, Asking
    <2>3. inbox' = Append(inbox, r)
      BY <1>10 DEF publish, Send
    <2> HIDE DEF r
    <2> QED BY <1>t, <1>10, <2>2, <2>3 DEF publish
  <1> QED BY <1>1, <1>2, <1>3, <1>4, <1>5, <1>6, <1>7, <1>8, <1>9, <1>10
        DEF ClientAction, Goes, Misfortune

(* Every step is one of these. *)
LEMMA StepKinds ==
  ASSUME [Next]_vars
  PROVE  \/ Handler \/ send_response \/ add_subscriber
         \/ \E t \in Topics, c \in Names : deliver(t, c)
         \/ \E p, command, request : Starts(p, command, request)
         \/ \E p \in Pids : ClientAction(p)
         \/ UNCHANGED vars
  BY LaunchStarts DEF Next, MainThread, Handler, Workers, ClientAction, Pids
-----------------------------------------------------------------------------
(* Tables stay tables.                                                     *)

(* Put and Erase give tables again. *)
LEMMA Tables ==
  ASSUME NEW f, NEW S, NEW T, IsTable(f, S, T), NEW k
  PROVE  /\ IsTable(Erase(f, k), S, T)
         /\ \A v \in T : k \in S => IsTable(Put(f, k, v), S, T)
         /\ \A v \in T : IsTable([f EXCEPT ![k] = v], S, T)
  BY DEF IsTable, Put, Erase

(* The eight handlers keep the types: the tables of the server stay tables. *)
LEMMA HandlerTypes ==
  ASSUME TypeInv, Handler
  PROVE  TypeInv'
  <1> DEFINE r == Head(inbox)
  <1>1. Takes
    BY HandlerTakes
  <1>2. r \in Requests /\ inbox' \in Seq(Requests)
    BY <1>1, TailAt DEF TypeInv, Takes
  <1> HIDE DEF r
  <1>3. /\ fifo' = fifo /\ pipe' = pipe /\ pc' = pc /\ cmd' = cmd /\ held' = held
        /\ printed' = printed /\ main' \in Mains
    BY <1>1 DEF Takes
  <1>4. SUFFICES /\ IsTable(log, Topics, Nat)'
                 /\ IsTable(client_index, Names, ClientMetadata)'
                 /\ (DOMAIN subscribers = Topics)'
                 /\ \A t \in Topics : IsTable(subscribers[t], Names, ActiveSubscriber)'
                 /\ asked' \in [Names -> Offsets]
    BY <1>2, <1>3 DEF TypeInv
  <1>5. CASE handle_create
    <2>1. client_index' = client_index /\ subscribers' = subscribers /\ asked' = asked
      BY <1>5 DEF handle_create
    <2>2. r.type = "CREATE"
      BY <1>5 DEF handle_create, Handles, r
    <2>3. log' = log \/ log' = Put(log, r.topic, 0)
      BY <1>5 DEF handle_create, r
    <2>4. IsTable(log', Topics, Nat)
      BY <2>2, <2>3, <1>2, RequestFields, Tables DEF TypeInv
    <2> QED BY <2>1, <2>4 DEF TypeInv, IsTable
  <1>6. CASE handle_list \/ handle_info \/ handle_producer_connect
    BY <1>6 DEF handle_list, handle_info, handle_producer_connect, TypeInv, IsTable
  <1>7. CASE handle_publish
    <2>1. client_index' = client_index /\ subscribers' = subscribers /\ asked' = asked
      BY <1>7 DEF handle_publish
    <2>2. r.type = "PRODUCE"
      BY <1>7 DEF handle_publish, Handles, r
    <2>3. log' = log \/ (r.topic \in DOMAIN log /\ log' = [log EXCEPT ![r.topic] = log[r.topic] + 1])
      BY <1>7 DEF handle_publish, r
    <2>4. IsTable(log', Topics, Nat)
      BY <2>3, Tables DEF TypeInv, IsTable
    <2> QED BY <2>1, <2>4 DEF TypeInv, IsTable
  <1>8. CASE handle_subscriber_connect
    <2>1. log' = log /\ subscribers' = subscribers
      BY <1>8 DEF handle_subscriber_connect
    <2>2. r.type = "SUBSCRIBE"
      BY <1>8 DEF handle_subscriber_connect, Handles, r
    <2>3. StartOffset(r) \in Offsets
      BY <2>2, <1>2, StartIsOffset
    <2> DEFINE m == [topic |-> r.topic, offset |-> StartOffset(r), ipc_path |-> r.pid,
                     is_active |-> TRUE]
    <2>4. m \in ClientMetadata
      BY <2>2, <2>3, <1>2, RequestFields DEF ClientMetadata
    <2>5. client_index' = client_index \/ client_index' = Put(client_index, r.client, m)
      BY <1>8 DEF handle_subscriber_connect, r
    <2> HIDE DEF m
    <2>6. IsTable(client_index', Names, ClientMetadata)
      BY <2>2, <2>4, <2>5, <1>2, RequestFields, Tables DEF TypeInv
    <2>7. asked' = asked \/ asked' = [asked EXCEPT ![r.client] = r.offset]
      BY <1>8 DEF handle_subscriber_connect, r
    <2>8. asked' \in [Names -> Offsets]
      BY <2>7, <2>2, <1>2, RequestFields DEF TypeInv
    <2> QED BY <2>1, <2>6, <2>8 DEF TypeInv, IsTable
  <1>9. CASE handle_commit
    <2>1. log' = log /\ subscribers' = subscribers /\ asked' = asked
      BY <1>9 DEF handle_commit
    <2>2. r.type = "ACK"
      BY <1>9 DEF handle_commit, Handles, r
    <2>3. \/ client_index' = client_index
          \/ /\ r.client \in DOMAIN client_index
             /\ client_index' = [client_index EXCEPT ![r.client] =
                                   [client_index[r.client] EXCEPT !.offset = r.offset]]
      BY <1>9 DEF handle_commit, r
    <2>4. ASSUME r.client \in DOMAIN client_index
          PROVE  [client_index[r.client] EXCEPT !.offset = r.offset] \in ClientMetadata
      BY <2>4, <2>2, <1>2, RequestFields DEF TypeInv, IsTable, ClientMetadata
    <2>5. IsTable(client_index', Names, ClientMetadata)
      BY <2>3, <2>4, Tables DEF TypeInv
    <2> QED BY <2>1, <2>5 DEF TypeInv, IsTable
  <1>10. CASE handle_disconnect
    <2>1. log' = log /\ asked' = asked
      BY <1>10 DEF handle_disconnect
    <2>2. r.type = "DISCONNECT"
      BY <1>10 DEF handle_disconnect, Handles, r
    <2>3. \/ client_index' = client_index /\ subscribers' = subscribers
          \/ /\ r.client \in DOMAIN client_index
             /\ client_index' = [client_index EXCEPT ![r.client] =
                                   [client_index[r.client] EXCEPT !.is_active = FALSE]]
             /\ subscribers' = [subscribers EXCEPT ![client_index[r.client].topic] =
                                  Erase(subscribers[client_index[r.client].topic], r.client)]
      BY <1>10 DEF handle_disconnect, r
    <2>4. ASSUME r.client \in DOMAIN client_index
          PROVE  [client_index[r.client] EXCEPT !.is_active = FALSE] \in ClientMetadata
      BY <2>4 DEF TypeInv, IsTable, ClientMetadata
    <2>5. IsTable(client_index', Names, ClientMetadata)
      BY <2>3, <2>4, Tables DEF TypeInv
    <2>6. DOMAIN subscribers' = Topics
      BY <2>3 DEF TypeInv
    <2>7. ASSUME NEW t \in Topics PROVE IsTable(subscribers'[t], Names, ActiveSubscriber)
      <3>1. IsTable(subscribers[t], Names, ActiveSubscriber) /\ DOMAIN subscribers = Topics
        BY DEF TypeInv
      <3>2. IsTable(Erase(subscribers[t], r.client), Names, ActiveSubscriber)
        BY <3>1, Tables
      <3>3. subscribers'[t] \in {subscribers[t], Erase(subscribers[t], r.client)}
        BY <2>3, <3>1
      <3> QED BY <3>1, <3>2, <3>3
    <2> QED BY <2>1, <2>5, <2>6, <2>7 DEF TypeInv, IsTable
  <1> QED BY <1>5, <1>6, <1>7, <1>8, <1>9, <1>10 DEF Handler

(* send_response keeps the types: it adds one response to a pipe or blocks. *)
LEMMA ResponseTypes ==
  ASSUME TypeInv, send_response
  PROVE  TypeInv'
  <1>1. main.at = "respond" /\ main \in Mains
    BY DEF send_response, TypeInv
  <1>2. AfterResponse \in Mains
    <2>1. CASE main.attach = Nil
      BY <2>1 DEF AfterResponse, Mains, Idle
    <2>2. CASE main.attach # Nil
      <3>1. main.pid \in SubPids /\ main.attach \in Attachment
        BY <1>1, <2>2, MainFields
      <3> QED BY <2>2, <3>1 DEF AfterResponse, Mains
    <2> QED BY <2>1, <2>2
  <1>3. [main EXCEPT !.at = "blocked"] \in Mains
    BY <1>1 DEF Mains
  <1>4. main' \in Mains
    BY <1>2, <1>3 DEF send_response
  <1>5. pipe' \in [Pids -> Seq([status : Status] \cup Delivery)]
    <2>1. CASE pipe' = pipe
      BY <2>1 DEF TypeInv
    <2>2. CASE pipe' = [pipe EXCEPT ![main.pid] = Append(pipe[main.pid], [status |-> main.status])]
      <3>1. main.pid \in Pids /\ main.status \in Status
        BY <1>1, MainFields
      <3>2. [status |-> main.status] \in [status : Status] \cup Delivery
        BY <3>1
      <3>3. Append(pipe[main.pid], [status |-> main.status]) \in Seq([status : Status] \cup Delivery)
        BY <3>1, <3>2, AppendAt DEF TypeInv
      <3> QED BY <2>2, <3>1, <3>3 DEF TypeInv
    <2> QED BY <2>1, <2>2 DEF send_response
  <1> QED BY <1>4, <1>5 DEF send_response, clientVars, TypeInv, IsTable

(* add_subscriber keeps the types: the entry it writes is an *)
(* ActiveSubscriber.                                         *)
LEMMA AttachTypes ==
  ASSUME TypeInv, add_subscriber
  PROVE  TypeInv'
  <1> DEFINE c == main.attach.client
             t == main.attach.topic
             e == [fifo_fd |-> main.pid, next_offset |-> main.attach.start]
             new == IF fifo[main.pid] = "open" THEN Put(subscribers[t], c, e)
                    ELSE Erase(subscribers[t], c)
  <1>1. main.at = "attach" /\ main.attach # Nil
    BY MainFields DEF add_subscriber, TypeInv
  <1>2. main.pid \in SubPids /\ c \in Names /\ t \in Topics /\ main.attach.start \in Nat
    BY <1>1, MainFields, ServerAssumption DEF TypeInv, Offsets
  <1>3. e \in ActiveSubscriber
    BY <1>2 DEF ActiveSubscriber
  <1>4. IsTable(subscribers[t], Names, ActiveSubscriber)
    BY <1>2 DEF TypeInv
  <1>5. subscribers' = [subscribers EXCEPT ![t] = new] /\ main' = Idle
    BY DEF add_subscriber
  <1> HIDE DEF e, c, t
  <1>6. IsTable(new, Names, ActiveSubscriber)
    BY <1>2, <1>3, <1>4, Tables
  <1> HIDE DEF new
  <1>7. DOMAIN subscribers' = Topics
        /\ \A u \in Topics : IsTable(subscribers'[u], Names, ActiveSubscriber)
    BY <1>5, <1>6 DEF TypeInv
  <1>8. main' \in Mains
    BY <1>5 DEF Idle, Mains
  <1> QED BY <1>7, <1>8 DEF add_subscriber, clientVars, TypeInv, IsTable

(* A delivery keeps the types: it moves a cursor or drops a descriptor. *)
LEMMA DeliverTypes ==
  ASSUME TypeInv, NEW t \in Topics, NEW c \in Names, deliver(t, c)
  PROVE  TypeInv'
  <1> DEFINE sub == subscribers[t][c]
             p == sub.fifo_fd
             written == p # Nil /\ fifo[p] = "open" /\ Len(pipe[p]) < PipeCap
             e == [fifo_fd |-> IF written THEN p ELSE Nil, next_offset |-> sub.next_offset + 1]
  <1>1. IsTable(subscribers[t], Names, ActiveSubscriber) /\ c \in DOMAIN subscribers[t]
    BY DEF TypeInv, deliver
  <1>2. p \in SubPids \cup {Nil} /\ sub.next_offset \in Nat
    BY <1>1 DEF IsTable, ActiveSubscriber
  <1>3. e \in ActiveSubscriber
    BY <1>2 DEF ActiveSubscriber
  <1>4. subscribers' = [subscribers EXCEPT ![t] = [subscribers[t] EXCEPT ![c] = e]]
    BY DEF deliver
  <1>5. IsTable([subscribers[t] EXCEPT ![c] = e], Names, ActiveSubscriber)
    BY <1>1, <1>3, Tables
  <1>6. DOMAIN subscribers' = Topics
        /\ \A u \in Topics : IsTable(subscribers'[u], Names, ActiveSubscriber)
    BY <1>4, <1>5 DEF TypeInv
  <1>7. pipe' \in [Pids -> Seq([status : Status] \cup Delivery)]
    <2>1. CASE ~written
      BY <2>1 DEF deliver, TypeInv
    <2>2. CASE written
      <3>1. p \in Pids
        BY <1>2, <2>2 DEF Pids
      <3>2. [offset |-> sub.next_offset] \in [status : Status] \cup Delivery
        BY <1>2 DEF Delivery
      <3>3. Append(pipe[p], [offset |-> sub.next_offset]) \in Seq([status : Status] \cup Delivery)
        BY <3>1, <3>2, AppendAt DEF TypeInv
      <3>4. pipe' = [pipe EXCEPT ![p] = Append(pipe[p], [offset |-> sub.next_offset])]
        BY <2>2 DEF deliver
      <3> QED BY <3>1, <3>3, <3>4 DEF TypeInv
    <2> QED BY <2>1, <2>2
  <1> QED BY <1>6, <1>7 DEF deliver, clientVars, TypeInv, IsTable

(* A client that starts keeps the types: its request is one its kind can *)
(* send.                                                                 *)
LEMMA StartTypes ==
  ASSUME TypeInv, NEW p, NEW command, NEW request, Starts(p, command, request)
  PROVE  TypeInv'
  <1>1. inbox' \in Seq(Requests)
    BY AppendAt DEF TypeInv, Starts, start, Send
  <1>2. pc' \in [Pids -> PCs] /\ cmd' \in [Pids -> Commands \cup {Nil}]
        /\ fifo' \in [Pids -> {"none", "open", "orphan"}]
    BY DEF TypeInv, Starts, start, PCs
  <1> QED BY <1>1, <1>2 DEF TypeInv, IsTable, Starts, start

(* The request queue: what is sent, taken and added leaves at most one     *)
(* request of a process.                                                   *)
LEMMA SendKeepsQueue ==
  ASSUME TypeInv, Sends
  PROVE  /\ inbox' \in Seq(Requests)
         /\ \A q : (InQueue(q)' <=> InQueue(q)) /\ (OneRequest(q) => OneRequest(q)')
  <1>1. CASE inbox' = inbox
    BY <1>1 DEF TypeInv, InQueue, OneRequest
  <1>2. ASSUME NEW r \in Requests, r.type \notin Asking, inbox' = Append(inbox, r)
        PROVE  /\ inbox' \in Seq(Requests)
               /\ \A q : (InQueue(q)' <=> InQueue(q)) /\ (OneRequest(q) => OneRequest(q)')
    <2>1. inbox \in Seq(Requests)
      BY DEF TypeInv
    <2>2. /\ inbox' \in Seq(Requests) /\ Len(inbox') = Len(inbox) + 1 /\ Len(inbox) \in Nat
          /\ inbox'[Len(inbox) + 1] = r
          /\ \A i \in 1 .. Len(inbox) : inbox'[i] = inbox[i]
      BY <1>2, <2>1, AppendAt
    <2>3. \A q : ~Asks(r, q)
      BY <1>2 DEF Asks
    <2> QED BY <2>2, <2>3 DEF InQueue, OneRequest
  <1> QED BY <1>1, <1>2 DEF Sends

(* Taking a frame leaves at most one request that awaits a response per *)
(* process, and none of the process served.                             *)
LEMMA TakeKeepsQueue ==
  ASSUME TypeInv, inbox # <<>>, inbox' = Tail(inbox), NEW q, OneRequest(q)
  PROVE  /\ OneRequest(q)' /\ (InQueue(q)' => InQueue(q))
         /\ Asks(Head(inbox), q) => InQueue(q) /\ ~InQueue(q)'
  <1>1. inbox \in Seq(Requests)
    BY DEF TypeInv
  <1>2. /\ inbox' \in Seq(Requests) /\ Len(inbox') = Len(inbox) - 1 /\ Len(inbox) \in Nat \ {0}
        /\ Head(inbox) = inbox[1]
        /\ \A i \in 1 .. Len(inbox') : inbox'[i] = inbox[i + 1] /\ i + 1 \in 1 .. Len(inbox)
    BY <1>1, TailAt
  <1>3. OneRequest(q)'
    <2>1. SUFFICES ASSUME NEW i \in 1 .. Len(inbox'), NEW j \in 1 .. Len(inbox'),
                          Asks(inbox'[i], q), Asks(inbox'[j], q)
                   PROVE  i = j
      BY DEF OneRequest
    <2>2. i + 1 = j + 1
      BY <1>2, <2>1 DEF OneRequest
    <2> QED BY <2>2, <1>2
  <1>4. InQueue(q)' => InQueue(q)
    BY <1>2 DEF InQueue
  <1>5. ASSUME Asks(Head(inbox), q) PROVE InQueue(q) /\ ~InQueue(q)'
    <2>1. 1 \in 1 .. Len(inbox) /\ Asks(inbox[1], q)
      BY <1>2, <1>5
    <2>2. ASSUME NEW i \in 1 .. Len(inbox'), Asks(inbox'[i], q) PROVE FALSE
      <3>1. i + 1 \in 1 .. Len(inbox) /\ Asks(inbox[i + 1], q)
        BY <1>2, <2>2
      <3>2. i + 1 = 1
        BY <2>1, <3>1 DEF OneRequest
      <3> QED BY <3>2, <1>2
    <2> QED BY <2>1, <2>2 DEF InQueue
  <1> QED BY <1>3, <1>4, <1>5

(* A process that starts puts its one request at the end of the inbox. *)
LEMMA StartKeepsQueue ==
  ASSUME TypeInv, NEW p, NEW command, NEW request, Starts(p, command, request),
         ~InQueue(p), NEW q, OneRequest(q)
  PROVE  /\ OneRequest(q)' /\ (InQueue(q)' <=> InQueue(q) \/ q = p)
  <1>1. inbox \in Seq(Requests) /\ request \in Requests /\ inbox' = Append(inbox, request)
        /\ Asks(request, p)
    BY DEF TypeInv, Starts, start, Send
  <1>2. /\ inbox' \in Seq(Requests) /\ Len(inbox') = Len(inbox) + 1 /\ Len(inbox) \in Nat
        /\ inbox'[Len(inbox) + 1] = request
        /\ \A i \in 1 .. Len(inbox) : inbox'[i] = inbox[i]
    BY <1>1, AppendAt
  <1>3. Asks(request, q) <=> q = p
    BY <1>1 DEF Asks
  <1> QED BY <1>2, <1>3 DEF InQueue, OneRequest

(* What a consuming process reads is a delivery. *)
LEMMA ReadsDelivery ==
  ASSUME TypeInv, ResponseThenDeliveries, NEW p \in Pids, pc[p] = "consume", pipe[p] # <<>>
  PROVE  Head(pipe[p]) \in Delivery /\ Head(pipe[p]).offset \in Nat
  <1>1. pipe[p] \in Seq([status : Status] \cup Delivery)
    BY DEF TypeInv
  <1>2. Head(pipe[p]) = pipe[p][1] /\ 1 \in 1 .. Len(pipe[p])
        /\ Head(pipe[p]) \in [status : Status] \cup Delivery
    BY <1>1, TailAt
  <1>3. ~IsResponse(pipe[p][1])
    BY <1>2 DEF ResponseThenDeliveries
  <1> QED BY <1>2, <1>3 DEF IsResponse, Delivery

(* A client's own steps keep the types: a read takes a frame of the kind it *)
(* expects, since the response is the first frame.                          *)
LEMMA ClientTypes ==
  ASSUME TypeInv, ShapeInv, ResponseThenDeliveries, NEW p \in Pids, ClientAction(p)
  PROVE  TypeInv'
  <1>1. Continues(p)
    BY ClientContinues
  <1>2. inbox' \in Seq(Requests)
    BY <1>1, SendKeepsQueue DEF Continues
  <1>3. UNCHANGED <<main, log, client_index, subscribers, asked>>
    BY <1>1 DEF Continues
  <1>4. SUFFICES /\ fifo' \in [Pids -> {"none", "open", "orphan"}]
                 /\ pipe' \in [Pids -> Seq([status : Status] \cup Delivery)]
                 /\ pc' \in [Pids -> PCs]
                 /\ cmd' \in [Pids -> Commands \cup {Nil}]
                 /\ held' \in [SubPids -> Nat \cup {Nil}]
                 /\ printed' \in [Names -> [Topics -> SUBSET Nat]]
    BY <1>2, <1>3 DEF TypeInv, IsTable
  <1>5. pipe[p] # <<>> => Tail(pipe[p]) \in Seq([status : Status] \cup Delivery)
    BY TailAt DEF TypeInv
  <1>6. <<>> \in Seq([status : Status] \cup Delivery)
    BY EmptySeq
  <1>7. CASE read_response(p)
    BY <1>5, <1>7 DEF read_response, TypeInv, PCs
  <1>8. CASE consume(p)
    <2> DEFINE o == Head(pipe[p]).offset
               c == cmd[p].client
               t == cmd[p].topic
    <2>1. o \in Nat
      BY <1>8, ReadsDelivery DEF consume
    <2>2. pc[p] = "consume"
      BY <1>8 DEF consume
    <2>3. c \in Names /\ t \in Topics /\ p \in SubPids
      BY <2>2 DEF ShapeInv, Listening, SubscribeCommands
    <2>4. held' = [held EXCEPT ![p] = o]
          /\ \/ printed' = [printed EXCEPT ![c] = [printed[c] EXCEPT ![t] = printed[c][t] \cup {o}]]
             \/ printed' = printed
      BY <1>8, <2>3 DEF consume, Prints, Swallows, TypeInv
    <2> HIDE DEF o, c, t
    <2>5. held' \in [SubPids -> Nat \cup {Nil}]
      BY <2>1, <2>4 DEF TypeInv
    <2>6. printed' \in [Names -> [Topics -> SUBSET Nat]]
      <3>1. printed \in [Names -> [Topics -> SUBSET Nat]]
        BY DEF TypeInv
      <3>2. CASE printed' = [printed EXCEPT ![c] = [printed[c] EXCEPT ![t] = printed[c][t] \cup {o}]]
        BY <2>1, <2>3, <3>1, <3>2
      <3>3. CASE printed' = printed
        BY <3>1, <3>3
      <3> QED BY <2>4, <3>2, <3>3
    <2> QED BY <1>5, <1>8, <2>5, <2>6 DEF consume, TypeInv, PCs
  <1>9. CASE ack(p)
    BY <1>9 DEF ack, TypeInv, PCs
  <1>10. CASE close_fd(p)
    BY <1>6, <1>10 DEF close_fd, TypeInv, PCs
  <1>11. CASE unlink_fifo(p)
    BY <1>11 DEF unlink_fifo, TypeInv, PCs
  <1>12. CASE time_out(p)
    BY <1>12 DEF time_out, TypeInv, PCs
  <1>13. CASE disconnect(p)
    BY <1>13 DEF disconnect, TypeInv, PCs
  <1>14. CASE output_error(p)
    BY <1>5, <1>14 DEF output_error, TypeInv, PCs
  <1>15. CASE crash(p)
    BY <1>6, <1>15 DEF crash, TypeInv, PCs
  <1>16. CASE p \in ProdPids /\ publish(p)
    BY <1>16 DEF publish, TypeInv
  <1> QED BY <1>7, <1>8, <1>9, <1>10, <1>11, <1>12, <1>13, <1>14, <1>15, <1>16
        DEF ClientAction, Goes, Misfortune

(* Every step keeps the types. *)
LEMMA TypeStep ==
  ASSUME TypeInv, ShapeInv, ResponseThenDeliveries, [Next]_vars
  PROVE  TypeInv'
  <1>1. CASE UNCHANGED vars
    BY <1>1 DEF vars, serverVars, clientVars, TypeInv, IsTable
  <1> QED BY <1>1, StepKinds, HandlerTypes, ResponseTypes, AttachTypes, DeliverTypes,
        StartTypes, ClientTypes

(* Processes take the steps of their command. *)
LEMMA ShapeStep ==
  ASSUME TypeInv, ShapeInv, ResponseThenDeliveries, [Next]_vars
  PROVE  ShapeInv'
  <1>1. CASE Handler
    BY <1>1, HandlerTakes DEF Takes, ShapeInv
  <1>2. CASE send_response
    BY <1>2 DEF send_response, clientVars, ShapeInv
  <1>3. CASE add_subscriber
    BY <1>3 DEF add_subscriber, clientVars, ShapeInv
  <1>4. ASSUME NEW t \in Topics, NEW c \in Names, deliver(t, c) PROVE ShapeInv'
    BY <1>4 DEF deliver, clientVars, ShapeInv
  <1>5. ASSUME NEW p, NEW command, NEW request, Starts(p, command, request) PROVE ShapeInv'
    BY <1>5 DEF Starts, start, ShapeInv, TypeInv, Listening
  <1>6. ASSUME NEW p \in Pids, ClientAction(p) PROVE ShapeInv'
    <2> USE DEF ShapeInv, Listening
    <2>t. pc \in [Pids -> PCs] /\ cmd \in [Pids -> Commands \cup {Nil}]
          /\ held \in [SubPids -> Nat \cup {Nil}]
      BY DEF TypeInv
    <2>1. CASE read_response(p)
      BY <2>t, <2>1 DEF read_response
    <2>2. CASE consume(p)
      <3>1. Head(pipe[p]).offset \in Nat
        BY <2>2, ReadsDelivery DEF consume
      <3> QED BY <2>t, <2>2, <3>1 DEF consume
    <2>3. CASE ack(p)
      BY <2>t, <2>3 DEF ack
    <2>4. CASE close_fd(p)
      BY <2>t, <2>4 DEF close_fd
    <2>5. CASE unlink_fifo(p)
      BY <2>t, <2>5 DEF unlink_fifo
    <2>6. CASE time_out(p)
      BY <2>t, <2>6 DEF time_out
    <2>7. CASE disconnect(p)
      BY <2>t, <2>7 DEF disconnect
    <2>8. CASE output_error(p)
      BY <2>t, <2>8 DEF output_error
    <2>9. CASE crash(p)
      BY <2>t, <2>9 DEF crash
    <2>10. CASE p \in ProdPids /\ publish(p)
      BY <2>t, <2>10 DEF publish
    <2> QED BY <1>6, <2>1, <2>2, <2>3, <2>4, <2>5, <2>6, <2>7, <2>8, <2>9, <2>10
          DEF ClientAction, Goes, Misfortune
  <1>7. CASE UNCHANGED vars
    BY <1>7 DEF vars, clientVars, ShapeInv
  <1> QED BY <1>1, <1>2, <1>3, <1>4, <1>5, <1>6, <1>7, StepKinds
-----------------------------------------------------------------------------
(* The FIFOs and the phases of a request.                                  *)

(* What a topic writes to is the FIFO of a process attached to it. *)
LEMMA DeliverTarget ==
  ASSUME TypeInv, NEW t \in Topics, NEW c \in Names, deliver(t, c),
         NEW q \in Pids, pipe'[q] # pipe[q]
  PROVE  /\ q \in SubPids /\ Holds(t, c, q) /\ Attached(q) /\ fifo[q] = "open"
         /\ pipe'[q] = Append(pipe[q], [offset |-> subscribers[t][c].next_offset])
         /\ subscribers[t][c].next_offset \in Nat
  <1> DEFINE p == subscribers[t][c].fifo_fd
             written == p # Nil /\ fifo[p] = "open" /\ Len(pipe[p]) < PipeCap
  <1>1. c \in DOMAIN subscribers[t] /\ subscribers[t][c] \in ActiveSubscriber
    BY DEF deliver, TypeInv, IsTable
  <1>2. p \in SubPids \cup {Nil} /\ subscribers[t][c].next_offset \in Nat
    BY <1>1 DEF ActiveSubscriber
  <1>3. written /\ pipe' = [pipe EXCEPT ![p] = Append(pipe[p],
                                          [offset |-> subscribers[t][c].next_offset])]
    BY DEF deliver
  <1>4. q = p
    BY <1>3 DEF TypeInv
  <1> QED BY <1>1, <1>2, <1>3, <1>4 DEF Holds, Attached, TypeInv

(* A response goes to the process being served. *)
LEMMA ResponseTarget ==
  ASSUME TypeInv, send_response, NEW q \in Pids, pipe'[q] # pipe[q]
  PROVE  /\ q = main.pid /\ Serving(q) /\ main.at = "respond" /\ fifo[q] = "open"
         /\ pipe'[q] = Append(pipe[q], [status |-> main.status])
         /\ main.status \in Status /\ main' = AfterResponse
  <1>1. main.at = "respond" /\ main \in Mains /\ DOMAIN pipe = Pids
    BY DEF send_response, TypeInv
  <1>2. main.pid \in Pids /\ main.status \in Status
    BY <1>1, MainFields
  <1>3. /\ fifo[main.pid] = "open" /\ main' = AfterResponse
        /\ pipe' = [pipe EXCEPT ![main.pid] = Append(pipe[main.pid], [status |-> main.status])]
    BY DEF send_response
  <1> QED BY <1>1, <1>2, <1>3 DEF Serving

(* Every step keeps what the state of a FIFO says of its process. *)
LEMMA FifoStep ==
  ASSUME TypeInv, ShapeInv, FifoInv, PhaseInv, [Next]_vars
  PROVE  FifoInv'
  <1>1. CASE Handler
    BY <1>1, HandlerTakes DEF Takes, FifoInv
  <1>2. CASE send_response
    <2>1. fifo' = fifo /\ pc' = pc
      BY <1>2 DEF send_response, clientVars
    <2>2. ASSUME NEW q \in Pids, pc[q] = "new" PROVE pipe'[q] = <<>>
      <3>1. ~Serving(q)
        BY <2>2 DEF PhaseInv, Phases
      <3> QED BY <1>2, <2>2, <3>1, ResponseTarget DEF FifoInv
    <2> QED BY <2>1, <2>2 DEF FifoInv
  <1>3. CASE add_subscriber
    BY <1>3 DEF add_subscriber, clientVars, FifoInv
  <1>4. ASSUME NEW t \in Topics, NEW c \in Names, deliver(t, c) PROVE FifoInv'
    <2>1. fifo' = fifo /\ pc' = pc
      BY <1>4 DEF deliver, clientVars
    <2>2. ASSUME NEW q \in Pids, pc[q] = "new" PROVE pipe'[q] = <<>>
      <3>1. ~Attached(q)
        BY <2>2 DEF PhaseInv, Phases
      <3> QED BY <1>4, <2>2, <3>1, DeliverTarget DEF FifoInv
    <2> QED BY <2>1, <2>2 DEF FifoInv
  <1>5. ASSUME NEW p, NEW command, NEW request, Starts(p, command, request) PROVE FifoInv'
    BY <1>5 DEF Starts, start, FifoInv, TypeInv, Listening, Reading
  <1>6. ASSUME NEW p \in Pids, ClientAction(p) PROVE FifoInv'
    <2> USE DEF FifoInv, Reading, Listening
    <2>t. pc \in [Pids -> PCs] /\ fifo \in [Pids -> {"none", "open", "orphan"}] /\ DOMAIN pipe = Pids
      BY DEF TypeInv
    <2>1. CASE read_response(p)
      BY <2>t, <2>1 DEF read_response
    <2>2. CASE consume(p)
      BY <2>t, <2>2 DEF consume
    <2>3. CASE ack(p)
      BY <2>t, <2>3 DEF ack
    <2>4. CASE close_fd(p)
      BY <2>t, <2>4 DEF close_fd
    <2>5. CASE unlink_fifo(p)
      BY <2>t, <2>5 DEF unlink_fifo
    <2>6. CASE time_out(p)
      BY <2>t, <2>6 DEF time_out
    <2>7. CASE disconnect(p)
      BY <2>t, <2>7 DEF disconnect
    <2>8. CASE output_error(p)
      BY <2>t, <2>8 DEF output_error
    <2>9. CASE crash(p)
      BY <2>t, <2>9 DEF crash
    <2>10. CASE p \in ProdPids /\ publish(p)
      BY <2>t, <2>10 DEF publish
    <2> QED BY <1>6, <2>1, <2>2, <2>3, <2>4, <2>5, <2>6, <2>7, <2>8, <2>9, <2>10
          DEF ClientAction, Goes, Misfortune
  <1>7. CASE UNCHANGED vars
    BY <1>7 DEF vars, clientVars, FifoInv
  <1> QED BY <1>1, <1>2, <1>3, <1>4, <1>5, <1>6, <1>7, StepKinds

(* Entries of the topics come and go. *)
LEMMA HandlerHolds ==
  ASSUME TypeInv, Handler, NEW t \in Topics, NEW c, NEW q, Holds(t, c, q)'
  PROVE  Holds(t, c, q) /\ subscribers'[t][c] = subscribers[t][c]
  <1>1. CASE subscribers' = subscribers
    BY <1>1 DEF Holds
  <1>2. CASE handle_disconnect /\ subscribers' # subscribers
    <2> DEFINE d == Head(inbox).client
               u == client_index[d].topic
    <2>1. subscribers' = [subscribers EXCEPT ![u] = Erase(subscribers[u], d)]
      BY <1>2 DEF handle_disconnect
    <2>2. DOMAIN subscribers = Topics
      BY DEF TypeInv
    <2> HIDE DEF u, d
    <2> QED BY <2>1, <2>2 DEF Holds, Erase
  <1> QED BY <1>1, <1>2 DEF Handler, handle_create, handle_list, handle_info,
        handle_producer_connect, handle_publish, handle_subscriber_connect, handle_commit

(* After add_subscriber an entry with a descriptor is an old one, or the *)
(* one just written for the process that was answered.                   *)
LEMMA AttachHolds ==
  ASSUME TypeInv, add_subscriber, NEW t \in Topics, NEW c, NEW q, Holds(t, c, q)'
  PROVE  \/ /\ Holds(t, c, q) /\ subscribers'[t][c] = subscribers[t][c]
            /\ ~(t = main.attach.topic /\ c = main.attach.client)
         \/ /\ q = main.pid /\ fifo[q] = "open"
            /\ t = main.attach.topic /\ c = main.attach.client
            /\ subscribers'[t][c] = [fifo_fd |-> q, next_offset |-> main.attach.start]
  <1> DEFINE d == main.attach.client
             u == main.attach.topic
             e == [fifo_fd |-> main.pid, next_offset |-> main.attach.start]
  <1>1. subscribers' = [subscribers EXCEPT ![u] =
                          IF fifo[main.pid] = "open" THEN Put(subscribers[u], d, e)
                          ELSE Erase(subscribers[u], d)]
    BY DEF add_subscriber
  <1>2. DOMAIN subscribers = Topics
    BY DEF TypeInv
  <1>3. CASE t # u
    BY <1>1, <1>2, <1>3 DEF Holds
  <1>4. CASE t = u /\ fifo[main.pid] = "open"
    <2>1. subscribers'[t] = Put(subscribers[t], d, e)
      BY <1>1, <1>2, <1>4
    <2>2. CASE c = d
      <3>1. subscribers'[t][c] = e
        BY <2>1, <2>2 DEF Put
      <3> QED BY <1>4, <2>2, <3>1 DEF Holds
    <2>3. CASE c # d
      <3>1. c \in DOMAIN subscribers[t] /\ subscribers'[t][c] = subscribers[t][c]
        BY <2>1, <2>3 DEF Holds, Put
      <3> QED BY <1>4, <2>3, <3>1 DEF Holds
    <2> QED BY <2>2, <2>3
  <1>5. CASE t = u /\ fifo[main.pid] # "open"
    <2>1. subscribers'[t] = Erase(subscribers[t], d)
      BY <1>1, <1>2, <1>5
    <2>2. c # d /\ c \in DOMAIN subscribers[t] /\ subscribers'[t][c] = subscribers[t][c]
      BY <2>1 DEF Holds, Erase
    <2> QED BY <2>2 DEF Holds
  <1> QED BY <1>3, <1>4, <1>5

(* A delivery to one subscriber leaves every other entry as it was. *)
LEMMA DeliverElsewhere ==
  ASSUME TypeInv, NEW t \in Topics, NEW c \in Names, deliver(t, c),
         NEW u \in Topics, NEW d, ~(u = t /\ d = c)
  PROVE  /\ d \in DOMAIN subscribers'[u] <=> d \in DOMAIN subscribers[u]
         /\ subscribers'[u][d] = subscribers[u][d]
  <1>1. PICK e : subscribers' = [subscribers EXCEPT ![t] = [subscribers[t] EXCEPT ![c] = e]]
    BY DEF deliver
  <1>2. DOMAIN subscribers = Topics
    BY DEF TypeInv
  <1> QED BY <1>1, <1>2

(* A delivery opens no descriptor; where it keeps one, the frame at the *)
(* cursor is at the end of the pipe and the cursor one further.         *)
LEMMA DeliverHolds ==
  ASSUME TypeInv, NEW t \in Topics, NEW c \in Names, deliver(t, c),
         NEW u \in Topics, NEW d, NEW q \in Pids, Holds(u, d, q)'
  PROVE  /\ Holds(u, d, q)
         /\ u = t /\ d = c =>
              /\ subscribers'[u][d].next_offset = subscribers[u][d].next_offset + 1
              /\ fifo[q] = "open" /\ Len(pipe[q]) < PipeCap
              /\ pipe'[q] = Append(pipe[q], [offset |-> subscribers[u][d].next_offset])
  <1> DEFINE p == subscribers[t][c].fifo_fd
             written == p # Nil /\ fifo[p] = "open" /\ Len(pipe[p]) < PipeCap
             e == [fifo_fd |-> IF written THEN p ELSE Nil,
                   next_offset |-> subscribers[t][c].next_offset + 1]
  <1>1. subscribers' = [subscribers EXCEPT ![t] = [subscribers[t] EXCEPT ![c] = e]]
        /\ c \in DOMAIN subscribers[t] /\ DOMAIN subscribers = Topics
    BY DEF deliver, TypeInv
  <1>2. CASE u = t /\ d = c
    <2>1. subscribers'[u][d] = e /\ d \in DOMAIN subscribers[u]
      BY <1>1, <1>2
    <2>2. e.fifo_fd = q
      BY <2>1 DEF Holds
    <2>3. written /\ p = q
      BY <2>2, ServerAssumption
    <2>4. pipe' = [pipe EXCEPT ![p] = Append(pipe[p], [offset |-> subscribers[t][c].next_offset])]
      BY <2>3 DEF deliver
    <2>5. pipe'[q] = Append(pipe[q], [offset |-> subscribers[u][d].next_offset])
      BY <1>2, <2>3, <2>4 DEF TypeInv
    <2> QED BY <1>2, <2>1, <2>3, <2>5 DEF Holds
  <1>3. CASE ~(u = t /\ d = c)
    BY <1>3, DeliverElsewhere DEF Holds
  <1> QED BY <1>2, <1>3

(* One process: from the queue, through the main thread, to the topic. *)
LEMMA PhaseStep ==
  ASSUME BaseInv, [Next]_vars
  PROVE  PhaseInv'
  <1> USE DEF BaseInv
  <1> SUFFICES ASSUME NEW q \in Pids PROVE (OneRequest(q) /\ Phases(q) /\ Answered(q))'
    BY DEF PhaseInv
  <1>q. OneRequest(q) /\ Phases(q) /\ Answered(q)
    BY DEF PhaseInv
  <1>1. CASE Handler
    <2>1. Takes
      BY <1>1, HandlerTakes
    <2>2. OneRequest(q)' /\ (InQueue(q)' => InQueue(q))
          /\ (Asks(Head(inbox), q) => InQueue(q) /\ ~InQueue(q)')
      BY <1>q, <2>1, TakeKeepsQueue DEF Takes
    <2>3. Attached(q)' => Attached(q)
      BY <1>1, HandlerHolds DEF Attached
    <2>4. ~Serving(q) /\ (Serving(q)' => Asks(Head(inbox), q) /\ main'.at = "respond")
      BY <2>1 DEF Serving, Takes, Asks
    <2>5. pc' = pc /\ pipe' = pipe
      BY <2>1 DEF Takes
    <2>6. Phases(q)'
      BY <1>q, <2>2, <2>3, <2>4, <2>5 DEF Phases
    <2>7. Answered(q)'
      BY <1>q, <2>2, <2>3, <2>4, <2>5 DEF Answered, Unanswered
    <2> QED BY <2>2, <2>6, <2>7
  <1>2. CASE send_response
    <2>1. inbox' = inbox /\ subscribers' = subscribers /\ pc' = pc /\ fifo' = fifo
      BY <1>2 DEF send_response, clientVars
    <2>2. (OneRequest(q)' <=> OneRequest(q)) /\ (InQueue(q)' <=> InQueue(q))
          /\ (Attached(q)' <=> Attached(q))
      BY <2>1 DEF OneRequest, InQueue, Attached, Holds
    <2>3. main.at = "respond" /\ main \in Mains
      BY <1>2 DEF send_response, TypeInv
    <2>4. main'.at # "idle" => main'.pid = main.pid
      BY <1>2, <2>3 DEF send_response, AfterResponse, Idle, Mains
    <2>5. Serving(q)' => Serving(q)
      BY <2>3, <2>4 DEF Serving
    <2>6. Phases(q)'
      BY <1>q, <2>1, <2>2, <2>5 DEF Phases
    <2>7. CASE pipe'[q] = pipe[q]
      <3>1. Unanswered(q)' => Unanswered(q)
        BY <2>2, <2>3, <2>5 DEF Unanswered
      <3>2. ASSUME Serving(q)', main'.at = "attach" PROVE pc[q] # "wait"
        <4>1. q = main.pid
          BY <2>5, <3>2 DEF Serving
        <4>2. fifo[q] # "open"
          <5>1. SUFFICES ASSUME fifo[q] = "open" PROVE FALSE
            OBVIOUS
          <5>2. pipe'[q] = Append(pipe[q], [status |-> main.status])
            BY <1>2, <4>1, <5>1 DEF send_response, TypeInv
          <5>3. pipe[q] \in Seq([status : Status] \cup Delivery)
                /\ [status |-> main.status] \in [status : Status] \cup Delivery
            BY <2>3, MainFields DEF TypeInv
          <5>4. Len(pipe'[q]) = Len(pipe[q]) + 1 /\ Len(pipe[q]) \in Nat
            BY <5>2, <5>3, AppendAt
          <5> QED BY <2>7, <5>4
        <4> QED BY <4>2 DEF FifoInv, Reading, Listening
      <3>3. Answered(q)'
        BY <1>q, <2>1, <2>2, <2>7, <3>1, <3>2 DEF Answered
      <3> QED BY <1>q, <2>2, <2>6, <3>3
    <2>8. CASE pipe'[q] # pipe[q]
      <3>1. q = main.pid /\ Serving(q) /\ main' = AfterResponse /\ main.status \in Status
            /\ pipe'[q] = Append(pipe[q], [status |-> main.status])
        BY <1>2, <2>8, ResponseTarget
      <3>2. pipe'[q] # <<>>
        <4>1. pipe[q] \in Seq([status : Status] \cup Delivery)
              /\ [status |-> main.status] \in [status : Status] \cup Delivery
          BY <3>1 DEF TypeInv
        <4> QED BY <3>1, <4>1, AppendAt
      <3>3. ~Unanswered(q)'
        BY <1>q, <2>2, <3>1 DEF Phases, Unanswered, AfterResponse, Serving, Idle
      <3>4. Answered(q)'
        BY <3>2, <3>3 DEF Answered
      <3> QED BY <1>q, <2>2, <2>6, <3>4
    <2> QED BY <1>q, <2>2, <2>6, <2>7, <2>8
  <1>3. CASE add_subscriber
    <2>1. inbox' = inbox /\ pc' = pc /\ pipe' = pipe /\ main' = Idle /\ main.at = "attach"
      BY <1>3 DEF add_subscriber, clientVars
    <2>2. (OneRequest(q)' <=> OneRequest(q)) /\ (InQueue(q)' <=> InQueue(q)) /\ ~Serving(q)'
      BY <2>1 DEF OneRequest, InQueue, Serving, Idle
    <2>3. Attached(q)' => Attached(q) \/ Serving(q)
      BY <1>3, <2>1, AttachHolds DEF Attached, Serving
    <2>4. Phases(q)'
      BY <1>q, <2>1, <2>2, <2>3 DEF Phases
    <2>5. Answered(q)'
      BY <1>q, <2>1, <2>2, <2>3 DEF Answered, Unanswered
    <2> QED BY <1>q, <2>2, <2>4, <2>5
  <1>4. ASSUME NEW t \in Topics, NEW c \in Names, deliver(t, c)
        PROVE  (OneRequest(q) /\ Phases(q) /\ Answered(q))'
    <2>1. inbox' = inbox /\ main' = main /\ pc' = pc
      BY <1>4 DEF deliver, clientVars
    <2>2. (OneRequest(q)' <=> OneRequest(q)) /\ (InQueue(q)' <=> InQueue(q))
          /\ (Serving(q)' <=> Serving(q)) /\ (Unanswered(q)' <=> Unanswered(q))
      BY <2>1 DEF OneRequest, InQueue, Serving, Unanswered
    <2>3. Attached(q)' => Attached(q)
      BY <1>4, DeliverHolds DEF Attached
    <2>4. Phases(q)'
      BY <1>q, <2>1, <2>2, <2>3 DEF Phases
    <2>5. ASSUME pipe'[q] # pipe[q] PROVE Attached(q) /\ pipe'[q] # <<>>
      <3>1. /\ Attached(q) /\ subscribers[t][c].next_offset \in Nat
            /\ pipe'[q] = Append(pipe[q], [offset |-> subscribers[t][c].next_offset])
        BY <1>4, <2>5, DeliverTarget
      <3>2. pipe[q] \in Seq([status : Status] \cup Delivery)
            /\ [offset |-> subscribers[t][c].next_offset] \in [status : Status] \cup Delivery
        BY <3>1 DEF TypeInv, Delivery
      <3> QED BY <3>1, <3>2, AppendAt
    <2>6. Unanswered(q) => ~Attached(q)
      BY <1>q DEF Unanswered, Phases
    <2>7. Answered(q)'
      BY <1>q, <2>1, <2>2, <2>3, <2>5, <2>6 DEF Answered
    <2> QED BY <1>q, <2>2, <2>4, <2>7
  <1>5. ASSUME NEW p, NEW command, NEW request, Starts(p, command, request)
        PROVE  (OneRequest(q) /\ Phases(q) /\ Answered(q))'
    <2>1. /\ p \in Pids /\ pc[p] = "new" /\ pc' = [pc EXCEPT ![p] = "wait"]
          /\ main' = main /\ subscribers' = subscribers /\ pipe' = pipe
      BY <1>5 DEF Starts, start
    <2>2. ~InQueue(p) /\ ~Serving(p) /\ ~Attached(p) /\ pipe[p] = <<>>
      BY <2>1 DEF PhaseInv, Phases, FifoInv
    <2>3. OneRequest(q)' /\ (InQueue(q)' <=> InQueue(q) \/ q = p)
      BY <1>5, <1>q, <2>2, StartKeepsQueue
    <2>4. (Serving(q)' <=> Serving(q)) /\ (Attached(q)' <=> Attached(q))
      BY <2>1 DEF Serving, Attached, Holds
    <2>5. CASE q = p
      BY <2>1, <2>2, <2>3, <2>4, <2>5 DEF Phases, Answered, Unanswered, TypeInv
    <2>6. CASE q # p
      <3>1. pc'[q] = pc[q] /\ pipe'[q] = pipe[q] /\ main'.at = main.at
        BY <2>1, <2>6 DEF TypeInv
      <3> QED BY <1>q, <2>3, <2>4, <2>6, <3>1 DEF Phases, Answered, Unanswered
    <2> QED BY <2>5, <2>6
  <1>6. ASSUME NEW p \in Pids, ClientAction(p)
        PROVE  (OneRequest(q) /\ Phases(q) /\ Answered(q))'
    <2>1. Continues(p)
      BY <1>6, ClientContinues
    <2>2. OneRequest(q)' /\ (InQueue(q)' <=> InQueue(q))
      BY <1>q, <2>1, SendKeepsQueue DEF Continues
    <2>3. main' = main /\ (Serving(q)' <=> Serving(q)) /\ (Attached(q)' <=> Attached(q))
      BY <2>1 DEF Continues, Serving, Attached, Holds
    <2>4. CASE q = p
      <3>1. /\ pc[q] # "new" /\ pc'[q] \notin {"new", "wait"}
            /\ pc'[q] \in {"consume", "ack"} =>
                 pc[q] \in Listening /\ (pc[q] = "wait" => pipe[q] # <<>>)
            /\ pipe[q] = <<>> => pipe'[q] = <<>>
        BY <2>1, <2>4 DEF Continues
      <3> QED BY <1>q, <2>2, <2>3, <3>1 DEF Phases, Answered, Unanswered, Listening
    <2>5. CASE q # p
      <3>1. pc'[q] = pc[q] /\ pipe'[q] = pipe[q]
        BY <2>1, <2>5 DEF Continues, Others
      <3> QED BY <1>q, <2>2, <2>3, <3>1 DEF Phases, Answered, Unanswered
    <2> QED BY <2>4, <2>5
  <1>7. CASE UNCHANGED vars
    BY <1>7, <1>q DEF vars, serverVars, clientVars, OneRequest, Phases, Answered, Unanswered,
         InQueue, Serving, Attached, Holds
  <1> QED BY <1>1, <1>2, <1>3, <1>4, <1>5, <1>6, <1>7, StepKinds

(* A frame with a status is a response, one with an offset is not. *)
LEMMA FrameKinds ==
  /\ \A s \in Status : IsResponse([status |-> s])
  /\ \A n : ~IsResponse([offset |-> n])
  BY DEF IsResponse

(* The response is the first frame a process reads, and the only one. *)
LEMMA ResponseStep ==
  ASSUME BaseInv, [Next]_vars
  PROVE  ResponseThenDeliveries'
  <1> USE DEF BaseInv
  <1> DEFINE Framed(q) == \A i \in 1 .. Len(pipe[q]) :
                            pc[q] \in Listening => (IsResponse(pipe[q][i]) <=> pc[q] = "wait" /\ i = 1)
  <1> SUFFICES ASSUME NEW q \in Pids PROVE Framed(q)'
    BY DEF ResponseThenDeliveries, Listening
  <1>q. Framed(q)
    BY DEF ResponseThenDeliveries, Listening
  <1>p. pipe[q] \in Seq([status : Status] \cup Delivery)
    BY DEF TypeInv
  <1>0. ASSUME pc'[q] = pc[q], pipe'[q] = pipe[q] PROVE Framed(q)'
    BY <1>0, <1>q
  <1>1. CASE Handler
    BY <1>0, <1>1, HandlerTakes DEF Takes
  <1>2. CASE send_response
    <2>1. pc' = pc
      BY <1>2 DEF send_response, clientVars
    <2>2. CASE pipe'[q] = pipe[q]
      BY <1>0, <2>1, <2>2
    <2>3. CASE pipe'[q] # pipe[q]
      <3>1. /\ Serving(q) /\ main.at = "respond" /\ main.status \in Status
            /\ pipe'[q] = Append(pipe[q], [status |-> main.status])
        BY <1>2, <2>3, ResponseTarget
      <3>2. pipe[q] = <<>> /\ pc[q] \notin {"consume", "ack"}
        BY <3>1 DEF PhaseInv, Answered, Unanswered
      <3>3. Len(pipe'[q]) = 1 /\ pipe'[q][1] = [status |-> main.status]
        BY <3>1, <3>2
      <3>4. IsResponse(pipe'[q][1])
        BY <3>1, <3>3, FrameKinds
      <3> QED BY <2>1, <3>2, <3>3, <3>4 DEF Listening
    <2> QED BY <2>2, <2>3
  <1>3. CASE add_subscriber
    BY <1>0, <1>3 DEF add_subscriber, clientVars
  <1>4. ASSUME NEW t \in Topics, NEW c \in Names, deliver(t, c) PROVE Framed(q)'
    <2>1. pc' = pc
      BY <1>4 DEF deliver, clientVars
    <2>2. CASE pipe'[q] = pipe[q]
      BY <1>0, <2>1, <2>2
    <2>3. CASE pipe'[q] # pipe[q]
      <3> DEFINE f == [offset |-> subscribers[t][c].next_offset]
      <3>1. /\ Attached(q) /\ subscribers[t][c].next_offset \in Nat
            /\ pipe'[q] = Append(pipe[q], f)
        BY <1>4, <2>3, DeliverTarget
      <3>2. f \in [status : Status] \cup Delivery /\ ~IsResponse(f)
        BY <3>1, FrameKinds DEF Delivery
      <3> HIDE DEF f
      <3>3. pc[q] = "wait" => pipe[q] # <<>>
        BY <3>1 DEF PhaseInv, Answered
      <3>4. /\ Len(pipe'[q]) = Len(pipe[q]) + 1 /\ Len(pipe[q]) \in Nat
            /\ pipe'[q][Len(pipe[q]) + 1] = f
            /\ \A i \in 1 .. Len(pipe[q]) : pipe'[q][i] = pipe[q][i]
        BY <1>p, <3>1, <3>2, AppendAt
      <3>5. pc[q] = "wait" => Len(pipe[q]) # 0
        BY <1>p, <3>3, EmptySeq
      <3> QED BY <1>q, <2>1, <3>2, <3>4, <3>5
    <2> QED BY <2>2, <2>3
  <1>5. ASSUME NEW p, NEW command, NEW request, Starts(p, command, request) PROVE Framed(q)'
    <2>1. p \in Pids /\ pc[p] = "new" /\ pc' = [pc EXCEPT ![p] = "wait"] /\ pipe' = pipe
      BY <1>5 DEF Starts, start
    <2>2. pipe[p] = <<>>
      BY <2>1 DEF FifoInv
    <2>3. CASE q = p
      BY <2>1, <2>2, <2>3
    <2>4. CASE q # p
      BY <1>0, <2>1, <2>4 DEF TypeInv
    <2> QED BY <2>3, <2>4
  <1>6. ASSUME NEW p \in Pids, ClientAction(p) PROVE Framed(q)'
    <2>1. Continues(p)
      BY <1>6, ClientContinues
    <2>2. CASE q # p
      BY <1>0, <2>1, <2>2 DEF Continues, Others
    <2>3. CASE q = p /\ pc'[p] \notin Listening
      BY <2>3
    <2>4. CASE q = p /\ pc'[p] \in Listening
      <3>0. pc \in [Pids -> PCs] /\ DOMAIN pipe = Pids
        BY DEF TypeInv
      <3>1. /\ pc'[q] \in {"consume", "ack"} /\ pc[q] \in Listening
            /\ \/ pipe'[q] = pipe[q] /\ pc[q] \in {"consume", "ack"}
               \/ pipe[q] # <<>> /\ pipe'[q] = Tail(pipe[q])
        BY <1>6, <2>4, <3>0 DEF ClientAction, Goes, Misfortune, Listening, read_response, consume, ack,
             close_fd, unlink_fifo, time_out, disconnect, output_error, crash, publish
      <3>2. CASE pipe'[q] = pipe[q] /\ pc[q] \in {"consume", "ack"}
        BY <1>q, <3>1, <3>2
      <3>3. CASE pipe[q] # <<>> /\ pipe'[q] = Tail(pipe[q])
        <4>1. \A i \in 1 .. Len(pipe'[q]) :
                pipe'[q][i] = pipe[q][i + 1] /\ i + 1 \in 1 .. Len(pipe[q]) /\ i + 1 # 1
          BY <1>p, <3>3, TailAt
        <4> QED BY <1>q, <3>1, <4>1
      <3> QED BY <3>1, <3>2, <3>3
    <2> QED BY <2>2, <2>3, <2>4
  <1>7. CASE UNCHANGED vars
    BY <1>0, <1>7 DEF vars, clientVars
  <1> QED BY <1>1, <1>2, <1>3, <1>4, <1>5, <1>6, <1>7, StepKinds

(* A process that has closed its FIFO never opens it again. *)
LEMMA BlockedStep ==
  ASSUME BaseInv, BlockedOnlyByDeparted, [Next]_vars
  PROVE  BlockedOnlyByDeparted'
  <1> USE DEF BaseInv
  <1> DEFINE Departed == {"unlinking", "exited", "publish", "crashed"}
  <1>1. CASE Handler
    <2>1. Takes
      BY <1>1, HandlerTakes
    <2>2. main'.at # "blocked"
      BY <2>1 DEF Takes
    <2> QED BY <2>2 DEF BlockedOnlyByDeparted
  <1>2. CASE send_response
    <2>1. main.at = "respond" /\ main \in Mains /\ pc' = pc
      BY <1>2 DEF send_response, TypeInv, clientVars
    <2>2. main.pid \in Pids
      BY <2>1, MainFields
    <2>3. AfterResponse.at # "blocked"
      BY DEF AfterResponse, Idle
    <2>4. ASSUME main'.at = "blocked"
          PROVE  main'.pid = main.pid /\ fifo[main.pid] = "orphan"
      BY <1>2, <2>1, <2>3, <2>4 DEF send_response, Mains
    <2> QED BY <2>1, <2>2, <2>4 DEF BlockedOnlyByDeparted, FifoInv
  <1>3. CASE add_subscriber
    BY <1>3 DEF add_subscriber, Idle, BlockedOnlyByDeparted
  <1>4. ASSUME NEW t \in Topics, NEW c \in Names, deliver(t, c) PROVE BlockedOnlyByDeparted'
    BY <1>4 DEF deliver, clientVars, BlockedOnlyByDeparted
  <1>5. ASSUME NEW p, NEW command, NEW request, Starts(p, command, request)
        PROVE  BlockedOnlyByDeparted'
    <2>1. pc[p] = "new" /\ pc' = [pc EXCEPT ![p] = "wait"] /\ main' = main
      BY <1>5 DEF Starts, start
    <2> QED BY <2>1 DEF BlockedOnlyByDeparted, TypeInv
  <1>6. ASSUME NEW p \in Pids, ClientAction(p) PROVE BlockedOnlyByDeparted'
    <2>1. Continues(p)
      BY <1>6, ClientContinues
    <2>2. ASSUME main.at = "blocked" PROVE pc'[main.pid] \in Departed
      <3>1. pc[main.pid] \in Departed /\ main.pid \in Pids
        BY <2>2, MainFields DEF BlockedOnlyByDeparted, TypeInv
      <3>2. CASE main.pid # p
        BY <2>1, <3>1, <3>2 DEF Continues, Others
      <3>3. CASE main.pid = p
        BY <1>6, <3>1, <3>3 DEF ClientAction, Goes, Misfortune, read_response, consume, ack,
             close_fd, unlink_fifo, time_out, disconnect, output_error, crash, publish, TypeInv
      <3> QED BY <3>2, <3>3
    <2> QED BY <2>1, <2>2 DEF Continues, BlockedOnlyByDeparted
  <1>7. CASE UNCHANGED vars
    BY <1>7 DEF vars, serverVars, clientVars, BlockedOnlyByDeparted
  <1> QED BY <1>1, <1>2, <1>3, <1>4, <1>5, <1>6, <1>7, StepKinds

-----------------------------------------------------------------------------
(* The index and the live entries of the topics.                           *)

(* LiveSessionIndexed, entry by entry. *)
EntriesIndexed ==
  \A t \in Topics, c \in Names, p \in SubPids :
    Holds(t, c, p) /\ fifo[p] = "open" => Indexed(t, c, p)

(* LiveSessionIndexed implies its form entry by entry. *)
LEMMA LiveIsIndexed ==
  ASSUME LiveSessionIndexed
  PROVE  EntriesIndexed
  <1> SUFFICES ASSUME NEW t \in Topics, NEW c \in Names, NEW p \in SubPids,
                      Holds(t, c, p), fifo[p] = "open"
               PROVE  Indexed(t, c, p)
    BY DEF EntriesIndexed
  <1>1. p # Nil
    BY ServerAssumption DEF Pids
  <1>2. <<t, c>> \in LiveEntries
    BY <1>1 DEF LiveEntries, Holds
  <1> QED BY <1>2 DEF LiveSessionIndexed, Indexed, Holds

(* The form entry by entry implies LiveSessionIndexed: the index holds one *)
(* session per name, so two live entries of a name are one.                *)
LEMMA IndexedIsLive ==
  ASSUME TypeInv', EntriesIndexed'
  PROVE  LiveSessionIndexed'
  <1> SUFFICES ASSUME NEW e \in LiveEntries'
               PROVE  /\ e[2] \in DOMAIN client_index'
                      /\ client_index'[e[2]].is_active
                      /\ client_index'[e[2]].topic = e[1]
                      /\ client_index'[e[2]].ipc_path = subscribers'[e[1]][e[2]].fifo_fd
    BY DEF LiveSessionIndexed
  <1>p. PICK t, c, p : t = e[1] /\ c = e[2] /\ p = subscribers'[e[1]][e[2]].fifo_fd
    OBVIOUS
  <1>1. t \in Topics /\ c \in Names /\ c \in DOMAIN subscribers'[t]
        /\ p # Nil /\ fifo'[p] = "open"
    BY <1>p DEF LiveEntries
  <1>2. p \in SubPids
    BY <1>1, <1>p DEF TypeInv, IsTable, ActiveSubscriber
  <1>3. Holds(t, c, p)'
    BY <1>1, <1>p DEF Holds
  <1>4. Indexed(t, c, p)'
    BY <1>1, <1>2, <1>3 DEF EntriesIndexed
  <1> QED BY <1>p, <1>4 DEF Indexed

(* A handler that replaces or erases a name's session in client_index *)
(* leaves no live entry that the index does not know.                 *)
LEMMA HandlerIndexes ==
  ASSUME TypeInv, EntriesIndexed, AttachInv, Handler
  PROVE  EntriesIndexed' /\ AttachInv'
  <1> DEFINE r == Head(inbox)
  <1>1. Takes
    BY HandlerTakes
  <1>2. r \in Requests
    BY <1>1, TailAt DEF TypeInv, Takes
  <1> HIDE DEF r
  <1>3. main.at = "idle" /\ fifo' = fifo
    BY <1>1 DEF Takes
  <1>4. ASSUME NEW s, NEW p, Respond(p, s) PROVE AttachInv'
    BY <1>4 DEF Respond, AttachInv
  <1>5. ASSUME client_index' = client_index PROVE EntriesIndexed'
    BY <1>3, <1>5, HandlerHolds DEF EntriesIndexed, Indexed
  <1>6. ASSUME main' = main PROVE AttachInv'
    BY <1>3, <1>6 DEF AttachInv
  <1>7. CASE handle_create \/ handle_list \/ handle_info \/ handle_producer_connect
    <2>1. client_index' = client_index /\ AttachInv'
      BY <1>4, <1>7 DEF handle_create, handle_list, handle_info, handle_producer_connect
    <2> QED BY <1>5, <2>1
  <1>8. CASE handle_publish
    BY <1>5, <1>6, <1>8 DEF handle_publish
  <1>9. CASE handle_commit
    <2>1. ASSUME NEW t, NEW c, NEW p, Indexed(t, c, p) PROVE Indexed(t, c, p)'
      <3>1. \/ client_index' = client_index
            \/ /\ r.client \in DOMAIN client_index
               /\ client_index' = [client_index EXCEPT ![r.client] =
                                     [client_index[r.client] EXCEPT !.offset = r.offset]]
        BY <1>9 DEF handle_commit, r
      <3>2. c \in DOMAIN client_index /\ client_index[c] \in ClientMetadata
        BY <2>1 DEF Indexed, TypeInv, IsTable
      <3>3. /\ DOMAIN client_index' = DOMAIN client_index
            /\ client_index'[c] = client_index[c]
               \/ client_index'[c] = [client_index[c] EXCEPT !.offset = r.offset]
        BY <3>1, <3>2
      <3>4. /\ client_index'[c].is_active = client_index[c].is_active
            /\ client_index'[c].topic = client_index[c].topic
            /\ client_index'[c].ipc_path = client_index[c].ipc_path
        BY <3>2, <3>3 DEF ClientMetadata
      <3> QED BY <2>1, <3>3, <3>4 DEF Indexed
    <2>2. subscribers' = subscribers /\ main' = main
      BY <1>9 DEF handle_commit
    <2>3. EntriesIndexed'
      BY <1>3, <2>1, <2>2 DEF EntriesIndexed, Holds
    <2> QED BY <1>6, <2>2, <2>3
  <1>10. CASE handle_disconnect
    <2>1. main' = main
      BY <1>10 DEF handle_disconnect
    <2>2. CASE r.client \notin DOMAIN client_index
      <3>1. client_index' = client_index
        BY <1>10, <2>2 DEF handle_disconnect, r
      <3> QED BY <1>5, <1>6, <2>1, <3>1
    <2>3. CASE r.client \in DOMAIN client_index
      <3> DEFINE u == client_index[r.client].topic
      <3>1. /\ client_index' = [client_index EXCEPT ![r.client] =
                                  [client_index[r.client] EXCEPT !.is_active = FALSE]]
            /\ subscribers' = [subscribers EXCEPT ![u] = Erase(subscribers[u], r.client)]
        BY <1>10, <2>3 DEF handle_disconnect, r
      <3>2. ASSUME NEW t \in Topics, NEW c \in Names, NEW p \in SubPids,
                   Holds(t, c, p)', fifo'[p] = "open"
            PROVE  Indexed(t, c, p)'
        <4>1. Holds(t, c, p)
          BY <3>2, HandlerHolds
        <4>2. Indexed(t, c, p)
          BY <1>3, <3>2, <4>1 DEF EntriesIndexed
        <4>3. c # r.client
          <5>1. SUFFICES ASSUME c = r.client PROVE FALSE
            OBVIOUS
          <5>2. u = t
            BY <4>2, <5>1 DEF Indexed
          <5>3. subscribers'[t] = Erase(subscribers[t], c)
            BY <3>1, <5>1, <5>2 DEF TypeInv
          <5> QED BY <3>2, <5>3 DEF Holds, Erase
        <4>4. client_index'[c] = client_index[c] /\ c \in DOMAIN client_index'
          BY <3>1, <4>2, <4>3 DEF Indexed
        <4> QED BY <4>2, <4>4 DEF Indexed
      <3> QED BY <1>6, <2>1, <3>2 DEF EntriesIndexed
    <2> QED BY <2>2, <2>3
  <1>11. CASE handle_subscriber_connect
    <2>1. r.type = "SUBSCRIBE"
      BY <1>11 DEF handle_subscriber_connect, Handles, r
    <2>2. CASE client_index' = client_index /\ Respond(r.pid, "TOPIC_CLIENT_ERR")
      BY <1>4, <1>5, <2>2
    <2>3. CASE ~Duplicate(r.client) /\ ~(client_index' = client_index /\ Respond(r.pid, "TOPIC_CLIENT_ERR"))
      <3> DEFINE a == [client |-> r.client, topic |-> r.topic, start |-> StartOffset(r)]
                 m == [topic |-> r.topic, offset |-> StartOffset(r), ipc_path |-> r.pid,
                       is_active |-> TRUE]
      <3>1. /\ client_index' = Put(client_index, r.client, m)
            /\ main' = [at |-> "respond", pid |-> r.pid, status |-> "SUCCESS", attach |-> a]
            /\ subscribers' = subscribers
        BY <1>11, <2>3 DEF handle_subscriber_connect, r
      <3>2. client_index'[r.client] = m /\ r.client \in DOMAIN client_index'
        BY <3>1 DEF Put
      <3>3. /\ main'.attach.topic = r.topic /\ main'.attach.client = r.client
            /\ main'.pid = r.pid
        BY <3>1
      <3>4. AttachInv'
        BY <3>2, <3>3 DEF AttachInv, Indexed
      <3>5. ASSUME NEW t \in Topics, NEW c \in Names, NEW p \in SubPids,
                   Holds(t, c, p)', fifo'[p] = "open"
            PROVE  Indexed(t, c, p)'
        <4>1. Indexed(t, c, p)
          BY <1>3, <3>1, <3>5 DEF EntriesIndexed, Holds
        <4>2. c # r.client
          BY <1>3, <2>3, <3>5, <4>1 DEF Indexed, Duplicate, is_reader_active
        <4>3. client_index'[c] = client_index[c] /\ c \in DOMAIN client_index'
          BY <3>1, <4>1, <4>2 DEF Indexed, Put
        <4> QED BY <4>1, <4>3 DEF Indexed
      <3> QED BY <3>4, <3>5 DEF EntriesIndexed
    <2> QED BY <1>11, <2>2, <2>3 DEF handle_subscriber_connect, r
  <1> QED BY <1>7, <1>8, <1>9, <1>10, <1>11 DEF Handler

(* No second live process under a name. *)
LEMMA IndexStep ==
  ASSUME BaseInv, IndexInv, [Next]_vars
  PROVE  IndexInv'
  <1> USE DEF BaseInv, IndexInv
  <1>a. EntriesIndexed
    BY LiveIsIndexed
  <1>b. TypeInv'
    BY TypeStep
  <1>c. SUFFICES EntriesIndexed' /\ AttachInv'
    BY <1>b, IndexedIsLive
  <1>1. CASE Handler
    BY <1>1, <1>a, HandlerIndexes
  <1>2. CASE send_response
    <2>1. /\ subscribers' = subscribers /\ client_index' = client_index /\ fifo' = fifo
          /\ main.at = "respond" /\ main \in Mains
      BY <1>2 DEF send_response, TypeInv
    <2>2. main'.at # "idle" /\ main'.attach # Nil => main'.pid = main.pid /\ main'.attach = main.attach
      BY <1>2, <2>1 DEF send_response, AfterResponse, Idle, Mains
    <2>3. AttachInv'
      BY <2>1, <2>2 DEF AttachInv, Indexed
    <2> QED BY <1>a, <2>1, <2>3 DEF EntriesIndexed, Holds, Indexed
  <1>3. CASE add_subscriber
    <2>1. client_index' = client_index /\ fifo' = fifo /\ main' = Idle /\ main.at = "attach"
      BY <1>3 DEF add_subscriber
    <2>2. main.attach # Nil
      BY <2>1, MainFields DEF TypeInv
    <2>3. Indexed(main.attach.topic, main.attach.client, main.pid)
      BY <2>1, <2>2 DEF AttachInv
    <2>4. ASSUME NEW t \in Topics, NEW c \in Names, NEW p \in SubPids,
                 Holds(t, c, p)', fifo'[p] = "open"
          PROVE  Indexed(t, c, p)'
      <3>1. Indexed(t, c, p)
        <4>1. \/ Holds(t, c, p)
              \/ p = main.pid /\ t = main.attach.topic /\ c = main.attach.client
          BY <1>3, <2>4, AttachHolds
        <4> QED BY <1>a, <2>1, <2>3, <2>4, <4>1 DEF EntriesIndexed
      <3> QED BY <2>1, <3>1 DEF Indexed
    <2> QED BY <2>1, <2>4 DEF EntriesIndexed, AttachInv, Idle
  <1>4. ASSUME NEW t \in Topics, NEW c \in Names, deliver(t, c) PROVE EntriesIndexed' /\ AttachInv'
    <2>1. client_index' = client_index /\ fifo' = fifo /\ main' = main
      BY <1>4 DEF deliver
    <2>2. ASSUME NEW u \in Topics, NEW d \in Names, NEW p \in SubPids, Holds(u, d, p)'
          PROVE  Holds(u, d, p)
      BY <1>4, <2>2, DeliverHolds DEF Pids
    <2> QED BY <1>a, <2>1, <2>2 DEF EntriesIndexed, Indexed, AttachInv
  <1>5. ASSUME NEW p, NEW command, NEW request, Starts(p, command, request)
        PROVE  EntriesIndexed' /\ AttachInv'
    <2>1. /\ client_index' = client_index /\ subscribers' = subscribers /\ main' = main
          /\ p \in Pids /\ pc[p] = "new" /\ fifo' = [fifo EXCEPT ![p] = "open"]
      BY <1>5 DEF Starts, start
    <2>2. ~Attached(p)
      BY <2>1 DEF PhaseInv, Phases
    <2>3. ASSUME NEW u \in Topics, NEW d \in Names, NEW q \in SubPids,
                 Holds(u, d, q)', fifo'[q] = "open"
          PROVE  Indexed(u, d, q)'
      <3>1. Holds(u, d, q)
        BY <2>1, <2>3 DEF Holds
      <3>2. q # p
        BY <2>2, <3>1 DEF Attached
      <3>3. fifo[q] = "open"
        BY <2>1, <2>3, <3>2 DEF TypeInv, Pids
      <3> QED BY <1>a, <2>1, <3>1, <3>3 DEF EntriesIndexed, Indexed
    <2> QED BY <2>1, <2>3 DEF EntriesIndexed, AttachInv, Indexed
  <1>6. ASSUME NEW p \in Pids, ClientAction(p) PROVE EntriesIndexed' /\ AttachInv'
    <2>1. Continues(p)
      BY <1>6, ClientContinues
    <2>2. client_index' = client_index /\ subscribers' = subscribers /\ main' = main
      BY <2>1 DEF Continues
    <2>3. \A q \in SubPids : fifo'[q] = "open" => fifo[q] = "open"
      BY <2>1 DEF Continues, Others, Pids
    <2> QED BY <1>a, <2>2, <2>3 DEF EntriesIndexed, AttachInv, Indexed, Holds
  <1>7. CASE UNCHANGED vars
    BY <1>7, <1>a DEF vars, serverVars, EntriesIndexed, AttachInv, Indexed, Holds
  <1> QED BY <1>1, <1>2, <1>3, <1>4, <1>5, <1>6, <1>7, StepKinds

-----------------------------------------------------------------------------
(* What is done for a process is what it asked for.                        *)

(* Every step keeps what is queued for, served to and attached under a *)
(* subscriber in line with its command line.                           *)
LEMMA CommandStep ==
  ASSUME BaseInv, CommandInv, [Next]_vars
  PROVE  CommandInv'
  <1> USE DEF BaseInv
  <1> SUFFICES ASSUME NEW q \in SubPids, pc'[q] \in Listening
               PROVE  (AskedFor(q) /\ ServedFor(q) /\ AttachedFor(q))'
    BY DEF CommandInv
  <1>p. q \in Pids /\ inbox \in Seq(Requests) /\ main \in Mains
    BY DEF Pids, TypeInv
  <1>q. pc[q] \in Listening => AskedFor(q) /\ ServedFor(q) /\ AttachedFor(q)
    BY DEF CommandInv
  <1>1. CASE Handler
    <2>1. Takes
      BY <1>1, HandlerTakes
    <2>2. pc' = pc /\ cmd' = cmd /\ inbox # <<>> /\ inbox' = Tail(inbox) /\ main.at = "idle"
      BY <2>1 DEF Takes
    <2>3. AskedFor(q) /\ ServedFor(q) /\ AttachedFor(q)
      BY <1>q, <2>2
    <2>4. /\ \A i \in 1 .. Len(inbox') : inbox'[i] = inbox[i + 1] /\ i + 1 \in 1 .. Len(inbox)
          /\ Head(inbox) = inbox[1] /\ 1 \in 1 .. Len(inbox) /\ Head(inbox) \in Requests
      BY <1>p, <2>2, TailAt
    <2>5. AskedFor(q)'
      BY <2>2, <2>3, <2>4 DEF AskedFor, Subscribes
    <2>6. AttachedFor(q)'
      BY <1>1, <2>2, <2>3, HandlerHolds DEF AttachedFor, Subscribes
    <2>7. ASSUME Serving(q)' PROVE ServedFor(q)'
      <3> DEFINE r == Head(inbox)
      <3>1. r.type \in Asking /\ r.pid = q
        BY <2>1, <2>7 DEF Serving, Takes
      <3>2. r.type = "SUBSCRIBE"
        BY <2>4, <3>1, RequestFields, ServerAssumption DEF Asking
      <3>3. handle_subscriber_connect
        BY <1>1, <3>2 DEF Handler, Handles, handle_create, handle_list, handle_info,
             handle_producer_connect, handle_publish, handle_commit, handle_disconnect
      <3>4. CASE Respond(r.pid, "TOPIC_CLIENT_ERR")
        BY <3>4 DEF Respond, ServedFor
      <3>5. CASE main' = [at |-> "respond", pid |-> r.pid, status |-> "SUCCESS",
                          attach |-> [client |-> r.client, topic |-> r.topic,
                                      start |-> StartOffset(r)]]
        <4>1. Subscribes(q, inbox[1].client, inbox[1].topic)
          BY <2>3, <2>4, <3>1 DEF AskedFor, Asks
        <4>2. cmd'[q].client = r.client /\ cmd'[q].topic = r.topic
          BY <2>2, <2>4, <4>1 DEF Subscribes
        <4>3. main'.attach.client = r.client /\ main'.attach.topic = r.topic
          BY <3>5
        <4>4. main'.attach # Nil
          <5>1. StartOffset(r) \in Offsets /\ r.client \in Names /\ r.topic \in Topics
            BY <2>4, <3>2, StartIsOffset, RequestFields
          <5>2. main'.attach \in Attachment
            BY <3>5, <5>1 DEF Attachment
          <5> QED BY <5>2, NilAssumption
        <4> QED BY <4>2, <4>3, <4>4 DEF ServedFor, Subscribes
      <3> QED BY <3>3, <3>4, <3>5 DEF handle_subscriber_connect
    <2>8. ServedFor(q)'
      BY <2>7 DEF ServedFor
    <2> QED BY <2>5, <2>6, <2>8
  <1>2. CASE send_response
    <2>1. inbox' = inbox /\ subscribers' = subscribers /\ pc' = pc /\ cmd' = cmd /\ main.at = "respond"
      BY <1>2 DEF send_response, clientVars
    <2>2. AskedFor(q)' /\ AttachedFor(q)' /\ ServedFor(q)
      BY <1>q, <2>1 DEF AskedFor, AttachedFor, Subscribes, Holds
    <2>3. \/ main' = Idle
          \/ main.attach # Nil /\ main'.attach = main.attach /\ main'.pid = main.pid
          \/ main'.attach = main.attach /\ main'.pid = main.pid /\ main'.status = main.status
      BY <1>2, <1>p, <2>1 DEF send_response, AfterResponse, Mains
    <2>4. ServedFor(q)'
      BY <2>1, <2>2, <2>3 DEF ServedFor, Serving, Subscribes, Idle
    <2> QED BY <2>2, <2>4
  <1>3. CASE add_subscriber
    <2>1. inbox' = inbox /\ pc' = pc /\ cmd' = cmd /\ main' = Idle /\ main.at = "attach"
      BY <1>3 DEF add_subscriber, clientVars
    <2>2. AskedFor(q)' /\ AttachedFor(q) /\ ServedFor(q) /\ ServedFor(q)'
      BY <1>q, <2>1 DEF AskedFor, ServedFor, Serving, Subscribes, Idle
    <2>3. ASSUME NEW t \in Topics, NEW c \in Names, Holds(t, c, q)' PROVE Subscribes(q, c, t)
      <3>1. CASE Holds(t, c, q)
        BY <2>2, <3>1 DEF AttachedFor
      <3>2. CASE q = main.pid /\ t = main.attach.topic /\ c = main.attach.client
        <4>1. Serving(q) /\ main.attach # Nil
          BY <1>p, <2>1, <3>2, MainFields DEF Serving
        <4> QED BY <2>2, <3>2, <4>1 DEF ServedFor
      <3> QED BY <1>3, <2>3, <3>1, <3>2, AttachHolds
    <2>4. AttachedFor(q)'
      BY <2>1, <2>3 DEF AttachedFor, Subscribes
    <2> QED BY <2>2, <2>4
  <1>4. ASSUME NEW t \in Topics, NEW c \in Names, deliver(t, c)
        PROVE  (AskedFor(q) /\ ServedFor(q) /\ AttachedFor(q))'
    <2>1. inbox' = inbox /\ main' = main /\ pc' = pc /\ cmd' = cmd
      BY <1>4 DEF deliver, clientVars
    <2>2. AskedFor(q)' /\ ServedFor(q)' /\ AttachedFor(q)
      BY <1>q, <2>1 DEF AskedFor, ServedFor, Serving, Subscribes
    <2>3. \A u \in Topics, d \in Names : Holds(u, d, q)' => Holds(u, d, q)
      BY <1>4, <1>p, DeliverHolds
    <2> QED BY <2>1, <2>2, <2>3 DEF AttachedFor, Subscribes
  <1>5. ASSUME NEW p, NEW command, NEW request, Starts(p, command, request)
        PROVE  (AskedFor(q) /\ ServedFor(q) /\ AttachedFor(q))'
    <2>1. /\ p \in Pids /\ pc[p] = "new" /\ pc' = [pc EXCEPT ![p] = "wait"]
          /\ main' = main /\ subscribers' = subscribers /\ cmd' = [cmd EXCEPT ![p] = command]
          /\ inbox' = Append(inbox, request) /\ request \in Requests /\ Asks(request, p)
      BY <1>5 DEF Starts, start, Send
    <2>2. /\ Len(inbox') = Len(inbox) + 1 /\ Len(inbox) \in Nat
          /\ inbox'[Len(inbox) + 1] = request
          /\ \A i \in 1 .. Len(inbox) : inbox'[i] = inbox[i]
      BY <1>p, <2>1, AppendAt
    <2>3. CASE q = p
      <3>1. ~InQueue(q) /\ ~Serving(q) /\ ~Attached(q)
        BY <2>1, <2>3 DEF PhaseInv, Phases
      <3>2. cmd'[q] = command /\ request.client = command.client /\ request.topic = command.topic
        BY <1>5, <2>1, <2>3 DEF Starts, TypeInv
      <3>3. AskedFor(q)'
        BY <2>2, <3>1, <3>2 DEF AskedFor, InQueue, Subscribes
      <3> QED BY <2>1, <3>1, <3>3 DEF ServedFor, AttachedFor, Serving, Attached, Holds
    <2>4. CASE q # p
      <3>1. pc'[q] = pc[q] /\ cmd'[q] = cmd[q] /\ ~Asks(request, q)
        BY <2>1, <2>4 DEF TypeInv, Asks
      <3>2. AskedFor(q)'
        BY <1>q, <2>2, <3>1 DEF AskedFor, Subscribes
      <3> QED BY <1>q, <2>1, <3>1, <3>2 DEF ServedFor, AttachedFor, Serving, Holds, Subscribes
    <2> QED BY <2>3, <2>4
  <1>6. ASSUME NEW p \in Pids, ClientAction(p)
        PROVE  (AskedFor(q) /\ ServedFor(q) /\ AttachedFor(q))'
    <2>1. Continues(p)
      BY <1>6, ClientContinues
    <2>2. main' = main /\ subscribers' = subscribers /\ Sends
      BY <2>1 DEF Continues
    <2>3. cmd'[q] = cmd[q] /\ pc[q] \in Listening
      BY <1>p, <2>1 DEF Continues, Others, Listening
    <2>4. AskedFor(q)'
      <3>1. CASE inbox' = inbox
        BY <1>q, <2>3, <3>1 DEF AskedFor, Subscribes
      <3>2. ASSUME NEW r \in Requests, r.type \notin Asking, inbox' = Append(inbox, r)
            PROVE  AskedFor(q)'
        <4>1. /\ Len(inbox') = Len(inbox) + 1 /\ Len(inbox) \in Nat
              /\ inbox'[Len(inbox) + 1] = r
              /\ \A i \in 1 .. Len(inbox) : inbox'[i] = inbox[i]
          BY <1>p, <3>2, AppendAt
        <4> QED BY <1>q, <2>3, <3>2, <4>1 DEF AskedFor, Asks, Subscribes
      <3> QED BY <2>2, <3>1, <3>2 DEF Sends
    <2> QED BY <1>q, <2>2, <2>3, <2>4 DEF ServedFor, AttachedFor, Serving, Holds, Subscribes
  <1>7. CASE UNCHANGED vars
    BY <1>7, <1>q DEF vars, serverVars, clientVars, AskedFor, ServedFor, AttachedFor, Serving,
         Holds, Subscribes
  <1> QED BY <1>1, <1>2, <1>3, <1>4, <1>5, <1>6, <1>7, StepKinds

-----------------------------------------------------------------------------
(* A subscription is only lost to a full pipe or a DISCONNECT.             *)

(* A handler takes the entry of a process away only by counting it as lost. *)
LEMMA HandlerKeeps ==
  ASSUME TypeInv, Handler, NEW t \in Topics, NEW c, NEW q \in SubPids
  PROVE  /\ q \in lost => q \in lost'
         /\ Holds(t, c, q) => Holds(t, c, q)' \/ q \in lost'
  <1>1. q # Nil
    BY ServerAssumption DEF Pids
  <1>2. CASE subscribers' = subscribers /\ lost' = lost
    BY <1>2 DEF Holds
  <1>3. CASE handle_disconnect /\ ~(subscribers' = subscribers /\ lost' = lost)
    <2> DEFINE d == Head(inbox).client
               u == client_index[d].topic
    <2>1. /\ subscribers' = [subscribers EXCEPT ![u] = Erase(subscribers[u], d)]
          /\ lost' = IF d \in DOMAIN subscribers[u]
                     THEN (lost \cup {subscribers[u][d].fifo_fd}) \ {Nil} ELSE lost
      BY <1>3 DEF handle_disconnect
    <2>2. DOMAIN subscribers = Topics
      BY DEF TypeInv
    <2> HIDE DEF u, d
    <2>3. q \in lost => q \in lost'
      BY <1>1, <2>1
    <2>4. ASSUME Holds(t, c, q), t = u, c = d PROVE q \in lost'
      BY <1>1, <2>1, <2>4 DEF Holds
    <2>5. ASSUME Holds(t, c, q), ~(t = u /\ c = d) PROVE Holds(t, c, q)'
      BY <2>1, <2>2, <2>5 DEF Holds, Erase
    <2> QED BY <2>3, <2>4, <2>5
  <1> QED BY <1>2, <1>3 DEF Handler, handle_create, handle_list, handle_info,
        handle_producer_connect, handle_publish, handle_subscriber_connect, handle_commit

(* A delivery takes a descriptor away only from a process it counts as *)
(* lost.                                                               *)
LEMMA DeliverKeeps ==
  ASSUME TypeInv, NEW t \in Topics, NEW c \in Names, deliver(t, c),
         NEW u \in Topics, NEW d, NEW q \in SubPids
  PROVE  /\ q \in lost => q \in lost'
         /\ Holds(u, d, q) => Holds(u, d, q)' \/ q \in lost'
  <1> DEFINE p == subscribers[t][c].fifo_fd
             written == p # Nil /\ fifo[p] = "open" /\ Len(pipe[p]) < PipeCap
             e == [fifo_fd |-> IF written THEN p ELSE Nil,
                   next_offset |-> subscribers[t][c].next_offset + 1]
  <1>1. /\ subscribers' = [subscribers EXCEPT ![t] = [subscribers[t] EXCEPT ![c] = e]]
        /\ lost' = IF written \/ p = Nil THEN lost ELSE lost \cup {p}
        /\ c \in DOMAIN subscribers[t] /\ DOMAIN subscribers = Topics /\ q # Nil
    BY ServerAssumption DEF deliver, TypeInv, Pids
  <1>2. q \in lost => q \in lost'
    BY <1>1
  <1>3. ASSUME Holds(u, d, q), u = t, d = c PROVE Holds(u, d, q)' \/ q \in lost'
    <2>1. p = q
      BY <1>3 DEF Holds
    <2>2. subscribers'[u][d] = e /\ d \in DOMAIN subscribers'[u]
      BY <1>1, <1>3
    <2>3. CASE written
      BY <2>1, <2>2, <2>3 DEF Holds
    <2>4. CASE ~written
      BY <1>1, <2>1, <2>4
    <2> QED BY <2>3, <2>4
  <1>4. ASSUME Holds(u, d, q), ~(u = t /\ d = c) PROVE Holds(u, d, q)'
    <2> HIDE DEF e
    <2>1. DOMAIN subscribers'[u] = DOMAIN subscribers[u]
      BY <1>1
    <2>2. d \in DOMAIN subscribers[u] => subscribers'[u][d] = subscribers[u][d]
      BY <1>1, <1>4
    <2> QED BY <1>4, <2>1, <2>2 DEF Holds
  <1> QED BY <1>2, <1>3, <1>4

(* Every step keeps an accepted consumer in the table of its topic, unless *)
(* it is about to be attached or has lost its place for a reason.          *)
LEMMA AcceptedStep ==
  ASSUME BaseInv, IndexInv, CommandInv, AcceptedInv, [Next]_vars
  PROVE  AcceptedInv'
  <1> USE DEF BaseInv, IndexInv
  <1> DEFINE Kept(p) == \/ p \in lost \/ (main.at = "attach" /\ main.pid = p)
                        \/ Holds(cmd[p].topic, cmd[p].client, p)
  <1> SUFFICES ASSUME NEW q \in SubPids, Accepted(q)' PROVE Kept(q)'
    BY DEF AcceptedInv
  <1>p. q \in Pids /\ main \in Mains /\ pipe[q] \in Seq([status : Status] \cup Delivery)
    BY DEF Pids, TypeInv
  <1>q. Accepted(q) => Kept(q)
    BY DEF AcceptedInv
  <1>l. Accepted(q) => pc[q] \in Listening /\ fifo[q] = "open"
    BY <1>p DEF Accepted, Listening, Reading, FifoInv
  <1>c. Accepted(q) => \E t \in Topics, c \in Names : Subscribes(q, c, t)
    BY <1>l, <1>p DEF ShapeInv, SubscribeCommands, Subscribes
  <1>k. ASSUME NEW t \in Topics, NEW c \in Names, Subscribes(q, c, t)
        PROVE  Kept(q) <=> \/ q \in lost \/ (main.at = "attach" /\ main.pid = q)
                           \/ Holds(t, c, q)
    BY <1>k DEF Subscribes
  <1>m. ASSUME NEW t \in Topics, NEW c \in Names, Subscribes(q, c, t), cmd'[q] = cmd[q],
               q \in lost' \/ (main.at = "attach" /\ main.pid = q)' \/ Holds(t, c, q)'
        PROVE  Kept(q)'
    BY <1>m DEF Subscribes
  <1>1. CASE Handler
    <2>1. pc' = pc /\ cmd' = cmd /\ pipe' = pipe /\ main.at = "idle"
      BY <1>1, HandlerTakes DEF Takes
    <2>2. Accepted(q)
      BY <2>1 DEF Accepted
    <2>3. PICK t \in Topics, c \in Names : Subscribes(q, c, t)
      BY <1>c, <2>2
    <2>4. q \in lost \/ Holds(t, c, q)
      BY <1>q, <1>k, <2>1, <2>2, <2>3
    <2> QED BY <1>1, <1>m, <2>1, <2>3, <2>4, HandlerKeeps
  <1>2. CASE send_response
    <2>1. /\ subscribers' = subscribers /\ pc' = pc /\ cmd' = cmd /\ lost' = lost
          /\ main.at = "respond"
      BY <1>2 DEF send_response, clientVars
    <2>2. CASE pipe'[q] = pipe[q]
      <3>1. Accepted(q)
        BY <2>1, <2>2 DEF Accepted
      <3>2. PICK t \in Topics, c \in Names : Subscribes(q, c, t)
        BY <1>c, <3>1
      <3>3. q \in lost \/ Holds(t, c, q)
        BY <1>q, <1>k, <2>1, <3>1, <3>2
      <3>4. q \in lost' \/ Holds(t, c, q)'
        BY <2>1, <3>3 DEF Holds
      <3> QED BY <1>m, <2>1, <3>2, <3>4
    <2>3. CASE pipe'[q] # pipe[q]
      <3>1. /\ Serving(q) /\ q = main.pid /\ main' = AfterResponse /\ main.status \in Status
            /\ pipe'[q] = Append(pipe[q], [status |-> main.status])
        BY <1>2, <1>p, <2>3, ResponseTarget
      <3>2. pipe[q] = <<>> /\ pc[q] \notin {"consume", "ack"}
        BY <1>p, <2>1, <3>1 DEF PhaseInv, Answered, Unanswered
      <3>3. pc[q] = "wait" /\ Head(pipe'[q]) = [status |-> "SUCCESS"]
        BY <2>1, <3>2 DEF Accepted
      <3>4. Head(pipe'[q]) = [status |-> main.status]
        BY <3>1, <3>2
      <3>5. main.status = "SUCCESS"
        <4>1. [status |-> main.status].status = [status |-> "SUCCESS"].status
          BY <3>3, <3>4
        <4> QED BY <4>1
      <3>6. main.attach # Nil
        BY <3>1, <3>3, <3>5 DEF CommandInv, ServedFor, Listening
      <3>7. main'.at = "attach" /\ main'.pid = q
        BY <3>1, <3>6 DEF AfterResponse
      <3> QED BY <3>7
    <2> QED BY <2>2, <2>3
  <1>3. CASE add_subscriber
    <2> DEFINE d == main.attach.client
               u == main.attach.topic
               e == [fifo_fd |-> main.pid, next_offset |-> main.attach.start]
    <2>1. /\ pipe' = pipe /\ pc' = pc /\ cmd' = cmd /\ lost' = lost /\ main.at = "attach"
          /\ subscribers' = [subscribers EXCEPT ![u] =
                               IF fifo[main.pid] = "open" THEN Put(subscribers[u], d, e)
                               ELSE Erase(subscribers[u], d)]
      BY <1>3 DEF add_subscriber, clientVars
    <2>2. /\ DOMAIN subscribers = Topics /\ main.attach # Nil /\ u \in Topics /\ d \in Names
          /\ main.pid \in SubPids
      BY <1>p, <2>1, MainFields DEF TypeInv
    <2>3. Accepted(q)
      BY <2>1 DEF Accepted
    <2>4. PICK t \in Topics, c \in Names : Subscribes(q, c, t)
      BY <1>c, <2>3
    <2>5. CASE q \in lost
      BY <2>1, <2>5
    <2>6. CASE main.pid = q
      <3>1. Subscribes(q, d, u)
        BY <1>l, <2>1, <2>2, <2>3, <2>6 DEF CommandInv, ServedFor, Serving
      <3>2. subscribers'[u] = Put(subscribers[u], d, e)
        BY <1>l, <2>1, <2>2, <2>3, <2>6
      <3>3. subscribers'[u][d] = e /\ d \in DOMAIN subscribers'[u]
        BY <3>2 DEF Put
      <3>4. u = t /\ d = c
        BY <2>4, <3>1 DEF Subscribes
      <3>5. Holds(t, c, q)'
        BY <2>6, <3>3, <3>4 DEF Holds
      <3> QED BY <1>m, <2>1, <2>4, <3>5
    <2>7. CASE main.pid # q /\ q \notin lost
      <3>1. Holds(t, c, q)
        BY <1>q, <1>k, <2>3, <2>4, <2>7
      <3>2. Indexed(t, c, q)
        BY <1>l, <2>3, <3>1, LiveIsIndexed DEF EntriesIndexed
      <3>3. Indexed(u, d, main.pid)
        BY <2>1, <2>2 DEF AttachInv
      <3>4. ~(t = u /\ c = d)
        BY <2>7, <3>2, <3>3 DEF Indexed
      <3> HIDE DEF u, d, e
      <3>5. Holds(t, c, q)'
        <4>1. CASE t # u
          <5>1. subscribers'[t] = subscribers[t]
            BY <2>1, <2>2, <4>1
          <5> QED BY <3>1, <5>1 DEF Holds
        <4>2. CASE t = u /\ c # d
          <5>1. subscribers'[t] \in {Put(subscribers[t], d, e), Erase(subscribers[t], d)}
            BY <2>1, <2>2, <4>2
          <5>2. c \in DOMAIN subscribers'[t] /\ subscribers'[t][c] = subscribers[t][c]
            BY <3>1, <4>2, <5>1 DEF Holds, Put, Erase
          <5> QED BY <3>1, <5>2 DEF Holds
        <4> QED BY <3>4, <4>1, <4>2
      <3> QED BY <1>m, <2>1, <2>4, <3>5
    <2> QED BY <2>5, <2>6, <2>7
  <1>4. ASSUME NEW t \in Topics, NEW c \in Names, deliver(t, c) PROVE Kept(q)'
    <2>1. pc' = pc /\ cmd' = cmd /\ main' = main
      BY <1>4 DEF deliver, clientVars
    <2>2. Accepted(q)
      <3>1. CASE pipe'[q] = pipe[q]
        BY <2>1, <3>1 DEF Accepted
      <3>2. CASE pipe'[q] # pipe[q]
        <4> DEFINE f == [offset |-> subscribers[t][c].next_offset]
        <4>1. Attached(q) /\ subscribers[t][c].next_offset \in Nat /\ pipe'[q] = Append(pipe[q], f)
          BY <1>4, <1>p, <3>2, DeliverTarget
        <4>2. f \in [status : Status] \cup Delivery
          BY <4>1 DEF Delivery
        <4> HIDE DEF f
        <4>3. pc[q] = "wait" => pipe[q] # <<>>
          BY <1>p, <4>1 DEF PhaseInv, Answered
        <4>4. pc[q] = "wait" => Head(pipe'[q]) = Head(pipe[q])
          BY <1>p, <4>1, <4>2, <4>3, AppendAt
        <4> QED BY <2>1, <4>3, <4>4 DEF Accepted
      <3> QED BY <3>1, <3>2
    <2>3. PICK u \in Topics, d \in Names : Subscribes(q, d, u)
      BY <1>c, <2>2
    <2>4. q \in lost \/ (main.at = "attach" /\ main.pid = q) \/ Holds(u, d, q)
      BY <1>q, <1>k, <2>2, <2>3
    <2>5. q \in lost' \/ (main.at = "attach" /\ main.pid = q)' \/ Holds(u, d, q)'
      BY <1>4, <2>1, <2>4, DeliverKeeps
    <2> QED BY <1>m, <2>1, <2>3, <2>5
  <1>5. ASSUME NEW p, NEW command, NEW request, Starts(p, command, request) PROVE Kept(q)'
    <2>1. /\ p \in Pids /\ pc[p] = "new" /\ pc' = [pc EXCEPT ![p] = "wait"] /\ lost' = lost
          /\ main' = main /\ subscribers' = subscribers /\ cmd' = [cmd EXCEPT ![p] = command]
          /\ pipe' = pipe
      BY <1>5 DEF Starts, start
    <2>2. q # p
      BY <2>1 DEF Accepted, FifoInv, TypeInv
    <2>3. pc'[q] = pc[q] /\ cmd'[q] = cmd[q]
      BY <1>p, <2>1, <2>2 DEF TypeInv
    <2>4. Accepted(q)
      BY <2>1, <2>3 DEF Accepted
    <2> QED BY <1>q, <2>1, <2>3, <2>4 DEF Holds
  <1>6. ASSUME NEW p \in Pids, ClientAction(p) PROVE Kept(q)'
    <2>1. Continues(p)
      BY <1>6, ClientContinues
    <2>2. main' = main /\ subscribers' = subscribers /\ lost' = lost
      BY <2>1 DEF Continues
    <2>3. cmd'[q] = cmd[q]
      BY <1>p, <2>1 DEF Continues, Others, Accepted, Listening
    <2>4. Accepted(q)
      <3>1. CASE q # p
        BY <1>p, <2>1, <3>1 DEF Continues, Others, Accepted
      <3>2. CASE q = p
        <4>1. pc'[p] \in {"consume", "ack"}
          BY <2>1, <3>2 DEF Continues, Accepted
        <4>2. \/ pc[p] \in {"consume", "ack"}
              \/ pc[p] = "wait" /\ pipe[p] # <<>> /\ Head(pipe[p]) = [status |-> "SUCCESS"]
          BY <1>6, <4>1 DEF ClientAction, Goes, Misfortune, read_response, consume, ack, close_fd,
               unlink_fifo, time_out, disconnect, output_error, crash, publish, TypeInv
        <4> QED BY <3>2, <4>2 DEF Accepted
      <3> QED BY <3>1, <3>2
    <2> QED BY <1>q, <2>2, <2>3, <2>4 DEF Holds
  <1>7. CASE UNCHANGED vars
    <2>1. Accepted(q)
      BY <1>7 DEF vars, clientVars, Accepted
    <2> QED BY <1>7, <1>q, <2>1 DEF vars, serverVars, clientVars, Holds
  <1> QED BY <1>1, <1>2, <1>3, <1>4, <1>5, <1>6, <1>7, StepKinds

-----------------------------------------------------------------------------
(* Offsets: what was printed or asked for stays so.                        *)

(* What was covered stays covered: printed, swallowed and asked only grow. *)
LEMMA CoverGrows ==
  ASSUME BaseInv, [Next]_vars
  PROVE  \A c \in Names : /\ \A o \in Int : Covered(c, o) => Covered(c, o)'
                          /\ \A n \in Int : Below(c, n) => Below(c, n)'
  <1> USE DEF BaseInv
  <1> SUFFICES ASSUME NEW c \in Names
               PROVE  \A o \in Int : Covered(c, o) => Covered(c, o)'
    BY DEF Below
  <1>1. asked[c] \in Int /\ asked'[c] \in Int /\ asked \in [Names -> Offsets]
    BY TypeStep DEF TypeInv, Offsets
  <1>2. /\ asked[c] <= asked'[c] /\ swallowed \subseteq swallowed'
        /\ \A t \in Topics : printed[c][t] \subseteq printed'[c][t]
    <2>1. CASE Handler
      <3>1. printed' = printed /\ swallowed' = swallowed
        BY <2>1, HandlerTakes DEF Takes
      <3>2. CASE asked' = asked
        BY <1>1, <3>1, <3>2
      <3>3. CASE handle_subscriber_connect /\ asked' # asked
        <4> DEFINE r == Head(inbox)
        <4>1. r.offset > asked[r.client] /\ asked' = [asked EXCEPT ![r.client] = r.offset]
          BY <3>3 DEF handle_subscriber_connect
        <4> HIDE DEF r
        <4> QED BY <1>1, <3>1, <4>1
      <3> QED BY <2>1, <3>2, <3>3 DEF Handler, handle_create, handle_list, handle_info,
            handle_producer_connect, handle_publish, handle_commit, handle_disconnect
    <2>2. CASE asked' = asked /\ printed' = printed /\ swallowed' = swallowed
      BY <1>1, <2>2
    <2>3. ASSUME NEW p \in Pids, ClientAction(p)
          PROVE  /\ asked[c] <= asked'[c] /\ swallowed \subseteq swallowed'
                 /\ \A t \in Topics : printed[c][t] \subseteq printed'[c][t]
      <3>1. asked' = asked
        BY <2>3, ClientContinues DEF Continues
      <3>2. CASE printed' = printed /\ swallowed \subseteq swallowed'
        BY <1>1, <3>1, <3>2
      <3>3. CASE consume(p) /\ Prints(p, Head(pipe[p]).offset)
        <4> DEFINE d == cmd[p].client
                   u == cmd[p].topic
                   o == Head(pipe[p]).offset
        <4>1. /\ printed' = [printed EXCEPT ![d] = [printed[d] EXCEPT ![u] = printed[d][u] \cup {o}]]
              /\ swallowed' = swallowed
          BY <3>3 DEF Prints
        <4> HIDE DEF d, u, o
        <4>2. \A t \in Topics : printed[c][t] \subseteq printed'[c][t]
          BY <4>1 DEF TypeInv
        <4> QED BY <1>1, <3>1, <4>1, <4>2
      <3>4. CASE consume(p) /\ Swallows(p, Head(pipe[p]).offset)
        BY <3>2, <3>4 DEF Swallows
      <3>5. CASE consume(p)
        BY <3>3, <3>4, <3>5 DEF consume
      <3> QED BY <2>3, <3>2, <3>5 DEF ClientAction, Goes, Misfortune, read_response, ack, close_fd,
            unlink_fifo, time_out, disconnect, output_error, crash, publish
    <2>4. CASE send_response \/ add_subscriber
      BY <2>2, <2>4 DEF send_response, add_subscriber, clientVars
    <2>5. ASSUME NEW t \in Topics, NEW d \in Names, deliver(t, d)
          PROVE  asked' = asked /\ printed' = printed /\ swallowed' = swallowed
      BY <2>5 DEF deliver, clientVars
    <2>6. ASSUME NEW p, NEW command, NEW request, Starts(p, command, request)
          PROVE  asked' = asked /\ printed' = printed /\ swallowed' = swallowed
      BY <2>6 DEF Starts, start
    <2>7. CASE UNCHANGED vars
      BY <2>2, <2>7 DEF vars, clientVars
    <2> QED BY <2>1, <2>2, <2>3, <2>4, <2>5, <2>6, <2>7, StepKinds
  <1> QED BY <1>1, <1>2 DEF Covered

(* A process nothing is sent to or read by. *)
LEMMA CoveredStays ==
  ASSUME BaseInv, [Next]_vars, NEW q \in SubPids, ProcessCovered(q),
         pc'[q] = pc[q], cmd'[q] = cmd[q], pipe'[q] = pipe[q], held'[q] = held[q],
         \A t \in Topics, c \in Names :
           Holds(t, c, q)' => Holds(t, c, q) /\ subscribers'[t][c] = subscribers[t][c]
  PROVE  ProcessCovered(q)'
  <1> USE DEF BaseInv
  <1>1. SUFFICES ASSUME pc[q] \in Listening
                 PROVE  (CursorCovered(q) /\ PipeCovered(q) /\ HeldCovered(q))'
    BY DEF ProcessCovered
  <1>2. CursorCovered(q) /\ PipeCovered(q) /\ HeldCovered(q)
    BY <1>1 DEF ProcessCovered
  <1>3. q \in Pids /\ cmd[q] \in SubscribeCommands /\ cmd[q].client \in Names
    BY <1>1 DEF ShapeInv, SubscribeCommands, Pids
  <1>4. ASSUME NEW c \in Names, NEW o \in Int, NEW n, Told(q, c, o, n) PROVE Told(q, c, o, n)'
    BY <1>4, CoverGrows DEF Told
  <1>5. CursorCovered(q)'
    <2>1. SUFFICES ASSUME NEW t \in Topics, NEW c \in Names, Holds(t, c, q)',
                          NEW o \in 0 .. subscribers'[t][c].next_offset - 1
                   PROVE  Told(q, c, o, Len(pipe[q]))'
      BY DEF CursorCovered
    <2>2. Told(q, c, o, Len(pipe[q]))
      BY <1>2, <2>1 DEF CursorCovered
    <2> QED BY <2>2, CoverGrows DEF Told
  <1>6. PipeCovered(q)'
    <2>1. SUFFICES ASSUME NEW i \in 1 .. Len(pipe'[q]), pipe'[q][i] \in Delivery,
                          NEW o \in 0 .. pipe'[q][i].offset - 1
                   PROVE  Told(q, cmd[q].client, o, i - 1)'
      BY DEF PipeCovered
    <2>2. Told(q, cmd[q].client, o, i - 1)
      BY <1>2, <2>1 DEF PipeCovered
    <2> QED BY <1>3, <2>2, CoverGrows DEF Told
  <1>7. HeldCovered(q)'
    <2>1. SUFFICES ASSUME pc[q] = "ack" PROVE Below(cmd[q].client, held[q] + 1)'
      BY DEF HeldCovered
    <2>2. Below(cmd[q].client, held[q] + 1) /\ held[q] + 1 \in Int
      BY <1>2, <1>3, <2>1 DEF HeldCovered, ShapeInv
    <2>3. PICK c, n : c = cmd[q].client /\ n = held[q] + 1
      OBVIOUS
    <2>4. Below(c, n)'
      BY <1>3, <2>2, <2>3, CoverGrows
    <2> QED BY <2>3, <2>4 DEF Below, Covered
  <1> QED BY <1>5, <1>6, <1>7

(* A process is attached where what lies below is covered. *)
LEMMA StartCovered ==
  ASSUME BaseInv, CommittedBelow, [Next]_vars, handle_subscriber_connect,
         NEW c, NEW n, c = Head(inbox).client, n = StartOffset(Head(inbox)),
         asked' = IF Head(inbox).offset # OFFSET_UNSET /\ Head(inbox).offset > asked[c]
                  THEN [asked EXCEPT ![c] = Head(inbox).offset] ELSE asked
  PROVE  Below(c, n)'
  <1> USE DEF BaseInv
  <1> DEFINE r == Head(inbox)
  <1>1. r \in Requests /\ r.type = "SUBSCRIBE"
    BY TailAt DEF handle_subscriber_connect, Handles, TypeInv
  <1>2. c \in Names /\ r.offset \in Offsets
    BY <1>1, RequestFields
  <1>3. CASE r.offset # OFFSET_UNSET
    <2>1. n = r.offset
      BY <1>3 DEF StartOffset
    <2>2. n \in Int /\ asked[c] \in Int /\ n <= asked'[c]
      BY <1>2, <1>3, <2>1 DEF TypeInv, Offsets
    <2>3. asked'[c] \in Int
      BY <1>2, TypeStep DEF TypeInv, Offsets
    <2> QED BY <2>2, <2>3 DEF Below, Covered
  <1>4. CASE r.offset = OFFSET_UNSET /\ c \in DOMAIN client_index
    <2>1. n = client_index[c].offset
      BY <1>4 DEF StartOffset
    <2>2. n \in Int
      BY <1>4, <2>1, ServerAssumption DEF TypeInv, IsTable, ClientMetadata, Offsets
    <2>3. Below(c, n)
      BY <1>4, <2>1 DEF CommittedBelow
    <2> QED BY <1>2, <2>2, <2>3, CoverGrows
  <1>5. CASE r.offset = OFFSET_UNSET /\ c \notin DOMAIN client_index
    <2>1. n = 0
      BY <1>5 DEF StartOffset
    <2> QED BY <2>1 DEF Below
  <1> QED BY <1>3, <1>4, <1>5

(* Every step keeps all offsets below a committed offset, a queued ACK or *)
(* the start of a pending subscription printed or declined by --offset.   *)
LEMMA TablesBelow ==
  ASSUME BaseInv, OffsetInv, [Next]_vars
  PROVE  CommittedBelow' /\ AcksBelow' /\ StartBelow'
  <1> USE DEF BaseInv
  <1>a. CommittedBelow /\ AcksBelow /\ StartBelow
    BY DEF OffsetInv
  <1>t. inbox \in Seq(Requests) /\ main \in Mains /\ inbox' \in Seq(Requests)
    BY TypeStep DEF TypeInv
  <1>g. \A c \in Names, n \in Int : Below(c, n) => Below(c, n)'
    BY CoverGrows
  <1>i. \A c \in DOMAIN client_index : c \in Names /\ client_index[c].offset \in Int
    BY ServerAssumption DEF TypeInv, IsTable, ClientMetadata, Offsets
  <1>j. \A i \in 1 .. Len(inbox) : inbox[i] \in Requests
    BY <1>t
  <1>k. \A r \in Requests : r.type = "ACK" => r.client \in Names /\ r.offset \in Int
    BY RequestFields, ServerAssumption DEF Offsets
  <1>l. main.at # "idle" /\ main.attach # Nil => main.attach.client \in Names /\ main.attach.start \in Int
    BY <1>t, MainFields, ServerAssumption DEF Offsets
  <1>1. ASSUME client_index' = client_index PROVE CommittedBelow'
    <2>1. SUFFICES ASSUME NEW c \in DOMAIN client_index PROVE Below(c, client_index[c].offset)'
      BY <1>1 DEF CommittedBelow
    <2>2. PICK n \in Int : n = client_index[c].offset
      BY <1>i
    <2>3. Below(c, n)'
      BY <1>a, <1>g, <1>i, <2>2 DEF CommittedBelow
    <2> QED BY <1>1, <2>2, <2>3 DEF Below, Covered
  <1>2. ASSUME \A i \in 1 .. Len(inbox') : inbox'[i].type = "ACK" =>
                 \E j \in 1 .. Len(inbox) : inbox'[i] = inbox[j]
        PROVE  AcksBelow'
    <2>1. SUFFICES ASSUME NEW i \in 1 .. Len(inbox'), inbox'[i].type = "ACK"
                   PROVE  Below(inbox[i].client, inbox[i].offset)'
      BY DEF AcksBelow
    <2>2. PICK j \in 1 .. Len(inbox) : inbox'[i] = inbox[j]
      BY <1>2, <2>1
    <2>3. PICK c \in Names, n \in Int : c = inbox[j].client /\ n = inbox[j].offset
      BY <1>j, <1>k, <2>1, <2>2
    <2>4. Below(c, n)'
      BY <1>a, <1>g, <2>1, <2>2, <2>3 DEF AcksBelow
    <2> QED BY <2>2, <2>3, <2>4 DEF Below, Covered
  <1>3. ASSUME main'.at # "idle" /\ main'.attach # Nil =>
                 main.at # "idle" /\ main.attach # Nil /\ main'.attach = main.attach
        PROVE  StartBelow'
    <2>1. SUFFICES ASSUME main'.at # "idle", main'.attach # Nil
                   PROVE  Below(main.attach.client, main.attach.start)'
      BY DEF StartBelow
    <2>2. PICK c \in Names, n \in Int : c = main.attach.client /\ n = main.attach.start
      BY <1>3, <1>l, <2>1
    <2>3. Below(c, n)'
      BY <1>3, <1>a, <1>g, <2>1, <2>2 DEF StartBelow
    <2> QED BY <1>3, <2>1, <2>2, <2>3 DEF Below, Covered
  <1>4. CASE Handler
    <2> DEFINE r == Head(inbox)
    <2>1. Takes
      BY <1>4, HandlerTakes
    <2>2. /\ Head(inbox) = inbox[1] /\ 1 \in 1 .. Len(inbox) /\ r \in Requests
          /\ \A i \in 1 .. Len(inbox') : inbox'[i] = inbox[i + 1] /\ i + 1 \in 1 .. Len(inbox)
      BY <1>t, <2>1, TailAt DEF Takes
    <2>3. AcksBelow'
      BY <1>2, <2>2
    <2>4. ASSUME NEW p, NEW s, Respond(p, s) PROVE StartBelow'
      BY <1>3, <2>4 DEF Respond
    <2> HIDE DEF r
    <2>5. CASE handle_create \/ handle_list \/ handle_info \/ handle_producer_connect
      <3>1. client_index' = client_index /\ StartBelow'
        BY <2>4, <2>5 DEF handle_create, handle_list, handle_info, handle_producer_connect
      <3> QED BY <1>1, <2>3, <3>1
    <2>6. CASE handle_publish
      BY <1>1, <1>3, <2>3, <2>6 DEF handle_publish
    <2>7. CASE handle_commit
      <3>1. main' = main /\ r.type = "ACK"
        BY <2>7 DEF handle_commit, Handles, r
      <3>2. CASE client_index' = client_index
        BY <1>1, <1>3, <2>3, <3>1, <3>2
      <3>3. CASE client_index' # client_index
        <4>1. PICK d \in Names, n \in Int : d = r.client /\ n = r.offset
          BY <1>k, <2>2, <3>1
        <4>2. d \in DOMAIN client_index
              /\ client_index' = [client_index EXCEPT ![d] = [client_index[d] EXCEPT !.offset = n]]
          BY <2>7, <3>3, <4>1 DEF handle_commit, r
        <4>3. Below(d, n)'
          BY <1>a, <1>g, <2>2, <3>1, <4>1 DEF AcksBelow, r
        <4>4. client_index'[d].offset = n
          BY <4>2 DEF TypeInv, IsTable, ClientMetadata
        <4>5. ASSUME NEW c \in DOMAIN client_index' PROVE Below(c, client_index[c].offset)'
          <5>1. CASE c = d
            BY <4>3, <4>4, <5>1 DEF Below, Covered
          <5>2. CASE c # d
            <6>1. c \in DOMAIN client_index /\ client_index'[c] = client_index[c]
              BY <4>2, <5>2
            <6>2. PICK m \in Int : m = client_index[c].offset
              BY <1>i, <6>1
            <6>3. Below(c, m)'
              BY <1>a, <1>g, <1>i, <6>1, <6>2 DEF CommittedBelow
            <6> QED BY <6>1, <6>2, <6>3 DEF Below, Covered
          <5> QED BY <5>1, <5>2
        <4> QED BY <1>3, <2>3, <3>1, <4>5 DEF CommittedBelow
      <3> QED BY <3>2, <3>3
    <2>8. CASE handle_disconnect
      <3>1. main' = main
        BY <2>8 DEF handle_disconnect
      <3>2. CASE client_index' = client_index
        BY <1>1, <1>3, <2>3, <3>1, <3>2
      <3>3. CASE client_index' # client_index
        <4>1. PICK d : d = r.client
          OBVIOUS
        <4>2. d \in DOMAIN client_index
              /\ client_index' = [client_index EXCEPT ![d] = [client_index[d] EXCEPT !.is_active = FALSE]]
          BY <2>8, <3>3, <4>1 DEF handle_disconnect, r
        <4>3. \A c \in DOMAIN client_index : client_index'[c].offset = client_index[c].offset
          BY <4>2 DEF TypeInv, IsTable, ClientMetadata
        <4>4. ASSUME NEW c \in DOMAIN client_index' PROVE Below(c, client_index[c].offset)'
          <5>1. c \in DOMAIN client_index /\ client_index'[c].offset = client_index[c].offset
            BY <4>2, <4>3
          <5>2. PICK m \in Int : m = client_index[c].offset
            BY <1>i, <5>1
          <5>3. Below(c, m)'
            BY <1>a, <1>g, <1>i, <5>1, <5>2 DEF CommittedBelow
          <5> QED BY <5>1, <5>2, <5>3 DEF Below, Covered
        <4> QED BY <1>3, <2>3, <3>1, <4>4 DEF CommittedBelow
      <3> QED BY <3>2, <3>3
    <2>9. CASE handle_subscriber_connect
      <3>1. CASE client_index' = client_index /\ Respond(r.pid, "TOPIC_CLIENT_ERR")
        BY <1>1, <2>3, <2>4, <3>1
      <3>2. CASE ~(client_index' = client_index /\ Respond(r.pid, "TOPIC_CLIENT_ERR"))
        <4>1. PICK d, n : d = r.client /\ n = StartOffset(r)
          OBVIOUS
        <4>2. /\ client_index' = Put(client_index, d, [topic |-> r.topic, offset |-> n,
                                                       ipc_path |-> r.pid, is_active |-> TRUE])
              /\ main' = [at |-> "respond", pid |-> r.pid, status |-> "SUCCESS",
                          attach |-> [client |-> d, topic |-> r.topic, start |-> n]]
              /\ asked' = IF r.offset # OFFSET_UNSET /\ r.offset > asked[d]
                          THEN [asked EXCEPT ![d] = r.offset] ELSE asked
          BY <2>9, <3>2, <4>1 DEF handle_subscriber_connect, r
        <4>3. Below(d, n)'
          BY <1>a, <2>9, <4>1, <4>2, StartCovered DEF r
        <4>4. StartBelow'
          <5>1. main'.attach.client = d /\ main'.attach.start = n
            BY <4>2
          <5> QED BY <4>3, <5>1 DEF StartBelow, Below, Covered
        <4>5. ASSUME NEW c \in DOMAIN client_index' PROVE Below(c, client_index[c].offset)'
          <5>1. CASE c = d
            <6>1. client_index'[c].offset = n
              BY <4>2, <5>1 DEF Put
            <6> QED BY <4>3, <5>1, <6>1 DEF Below, Covered
          <5>2. CASE c # d
            <6>1. c \in DOMAIN client_index /\ client_index'[c] = client_index[c]
              BY <4>2, <5>2 DEF Put
            <6>2. PICK m \in Int : m = client_index[c].offset
              BY <1>i, <6>1
            <6>3. Below(c, m)'
              BY <1>a, <1>g, <1>i, <6>1, <6>2 DEF CommittedBelow
            <6> QED BY <6>1, <6>2, <6>3 DEF Below, Covered
          <5> QED BY <5>1, <5>2
        <4> QED BY <2>3, <4>4, <4>5 DEF CommittedBelow
      <3> QED BY <3>1, <3>2
    <2> QED BY <1>4, <2>5, <2>6, <2>7, <2>8, <2>9 DEF Handler
  <1>5. CASE send_response
    <2>1. client_index' = client_index /\ inbox' = inbox /\ main.at = "respond"
      BY <1>5 DEF send_response
    <2>2. main'.at # "idle" /\ main'.attach # Nil => main.attach # Nil /\ main'.attach = main.attach
      BY <1>5, <1>t, <2>1 DEF send_response, AfterResponse, Idle, Mains
    <2> QED BY <1>1, <1>2, <1>3, <2>1, <2>2
  <1>6. CASE add_subscriber
    BY <1>1, <1>2, <1>3, <1>6 DEF add_subscriber, Idle
  <1>7. ASSUME NEW t \in Topics, NEW c \in Names, deliver(t, c)
        PROVE  CommittedBelow' /\ AcksBelow' /\ StartBelow'
    BY <1>1, <1>2, <1>3, <1>7 DEF deliver
  <1>8. ASSUME NEW p, NEW command, NEW request, Starts(p, command, request)
        PROVE  CommittedBelow' /\ AcksBelow' /\ StartBelow'
    <2>1. /\ client_index' = client_index /\ main' = main /\ request \in Requests
          /\ inbox' = Append(inbox, request) /\ request.type # "ACK"
      BY <1>8 DEF Starts, start, Send, Asks, Asking
    <2>2. /\ Len(inbox') = Len(inbox) + 1 /\ Len(inbox) \in Nat
          /\ inbox'[Len(inbox) + 1] = request
          /\ \A i \in 1 .. Len(inbox) : inbox'[i] = inbox[i]
      BY <1>t, <2>1, AppendAt
    <2> QED BY <1>1, <1>2, <1>3, <2>1, <2>2
  <1>9. ASSUME NEW p \in Pids, ClientAction(p)
        PROVE  CommittedBelow' /\ AcksBelow' /\ StartBelow'
    <2>1. Continues(p)
      BY <1>9, ClientContinues
    <2>2. client_index' = client_index /\ main' = main
      BY <2>1 DEF Continues
    <2>3. CASE inbox' = inbox
      BY <1>1, <1>2, <1>3, <2>2, <2>3
    <2>4. ASSUME NEW r \in Requests, inbox' = Append(inbox, r),
                 r.type = "ACK" => \E c \in Names, n \in Int :
                                      c = r.client /\ n = r.offset /\ Below(c, n)
          PROVE  AcksBelow'
      <3>1. /\ Len(inbox') = Len(inbox) + 1 /\ Len(inbox) \in Nat
            /\ inbox'[Len(inbox) + 1] = r
            /\ \A i \in 1 .. Len(inbox) : inbox'[i] = inbox[i]
        BY <1>t, <2>4, AppendAt
      <3>2. SUFFICES ASSUME NEW i \in 1 .. Len(inbox'), inbox'[i].type = "ACK"
                     PROVE  Below(inbox[i].client, inbox[i].offset)'
        BY DEF AcksBelow
      <3>3. PICK c \in Names, n \in Int :
              c = inbox'[i].client /\ n = inbox'[i].offset /\ Below(c, n)
        <4>1. CASE i \in 1 .. Len(inbox)
          BY <1>a, <1>j, <1>k, <3>1, <3>2, <4>1 DEF AcksBelow
        <4>2. CASE i = Len(inbox) + 1
          BY <2>4, <3>1, <3>2, <4>2
        <4> QED BY <3>1, <4>1, <4>2
      <3>4. Below(c, n)'
        BY <1>g, <3>3
      <3> QED BY <3>3, <3>4 DEF Below, Covered
    <2>5. CASE ack(p)
      <3> DEFINE r == [type |-> "ACK", client |-> cmd[p].client, offset |-> (held[p] + 1) % U32]
      <3>1. pc[p] = "ack" /\ inbox' = Append(inbox, r)
        BY <2>5 DEF ack, Send
      <3>2. p \in SubPids /\ held[p] \in Nat /\ cmd[p].client \in Names
        BY <3>1 DEF ShapeInv, Listening, SubscribeCommands
      <3>3. Below(cmd[p].client, held[p] + 1)
        BY <3>1, <3>2 DEF OffsetInv, ProcessCovered, HeldCovered, Listening
      <3>4. (held[p] + 1) % U32 \in Offsets /\ (held[p] + 1) % U32 <= held[p] + 1
        BY <3>2, ServerAssumption DEF Offsets
      <3>5. Below(cmd[p].client, (held[p] + 1) % U32) /\ (held[p] + 1) % U32 \in Int
        BY <3>2, <3>3, <3>4, ServerAssumption DEF Below, Offsets
      <3>6. r \in Requests
        BY <3>2, <3>4 DEF Requests
      <3>7. AcksBelow'
        BY <2>4, <3>1, <3>2, <3>5, <3>6
      <3> QED BY <1>1, <1>3, <2>2, <3>7
    <2>6. CASE disconnect(p)
      <3> DEFINE r == [type |-> "DISCONNECT", client |-> cmd[p].client]
      <3>1. pc[p] = "consume" /\ inbox' = Append(inbox, r)
        BY <2>6 DEF disconnect, Send
      <3>2. r \in Requests /\ r.type # "ACK"
        BY <3>1 DEF ShapeInv, Listening, SubscribeCommands, Requests
      <3> HIDE DEF r
      <3> QED BY <1>1, <1>3, <2>2, <2>4, <3>1, <3>2
    <2>7. CASE p \in ProdPids /\ publish(p)
      <3> DEFINE r == [type |-> "PRODUCE", topic |-> cmd[p].topic]
      <3>1. pc[p] = "publish" /\ inbox' = Append(inbox, r)
        BY <2>7 DEF publish, Send
      <3>2. r \in Requests /\ r.type # "ACK"
        BY <2>7, <3>1 DEF ShapeInv, Requests
      <3> HIDE DEF r
      <3> QED BY <1>1, <1>3, <2>2, <2>4, <3>1, <3>2
    <2> QED BY <1>9, <2>3, <2>5, <2>6, <2>7 DEF ClientAction, Goes, Misfortune, read_response,
          consume, close_fd, unlink_fifo, time_out, output_error, crash, serverVars
  <1>10. CASE UNCHANGED vars
    BY <1>1, <1>2, <1>3, <1>10 DEF vars, serverVars
  <1> QED BY <1>4, <1>5, <1>6, <1>7, <1>8, <1>9, <1>10, StepKinds

(* A delivery moves the cursor over an offset only by putting it into the  *)
(* pipe, so everything between start and cursor is printed, held or on its *)
(* way.                                                                    *)
LEMMA DeliverCovers ==
  ASSUME BaseInv, CommandInv, [Next]_vars, NEW t \in Topics, NEW c \in Names, deliver(t, c),
         NEW q \in SubPids, ProcessCovered(q)
  PROVE  ProcessCovered(q)'
  <1> USE DEF BaseInv
  <1>p. q \in Pids /\ pipe[q] \in Seq([status : Status] \cup Delivery)
    BY DEF Pids, TypeInv
  <1>1. pc' = pc /\ cmd' = cmd /\ held' = held
    BY DEF deliver, clientVars
  <1> DEFINE n == subscribers[t][c].next_offset
             f == [offset |-> n]
             L == Len(pipe[q])
  <1>2. c \in DOMAIN subscribers[t] /\ n \in Nat
    BY DEF deliver, TypeInv, IsTable, ActiveSubscriber
  <1>3. /\ Append(pipe[q], f) \in Seq([status : Status] \cup Delivery)
        /\ Len(Append(pipe[q], f)) = L + 1 /\ L \in Nat
        /\ Append(pipe[q], f)[L + 1] = f
        /\ \A i \in 1 .. L : Append(pipe[q], f)[i] = pipe[q][i]
    <2>1. f \in [status : Status] \cup Delivery
      BY <1>2 DEF Delivery
    <2> HIDE DEF f
    <2> QED BY <1>p, <2>1, AppendAt
  <1>4. CASE pipe'[q] = pipe[q]
    <2>1. ASSUME NEW u \in Topics, NEW d \in Names, Holds(u, d, q)'
          PROVE  Holds(u, d, q) /\ subscribers'[u][d] = subscribers[u][d]
      <3>1. CASE u = t /\ d = c
        <4>1. pipe'[q] = Append(pipe[q], f)
          BY <1>p, <2>1, <3>1, DeliverHolds
        <4> QED BY <1>3, <1>4, <4>1
      <3>2. CASE ~(u = t /\ d = c)
        <4>1. Holds(u, d, q)
          BY <1>p, <2>1, DeliverHolds
        <4>2. subscribers'[u][d] = subscribers[u][d]
          BY <3>2, DeliverElsewhere
        <4> QED BY <4>1, <4>2
      <3> QED BY <3>1, <3>2
    <2> QED BY <1>1, <1>4, <2>1, CoveredStays
  <1>5. CASE pipe'[q] # pipe[q] /\ pc[q] \in Listening
    <2>1. Holds(t, c, q) /\ pipe'[q] = Append(pipe[q], f)
      BY <1>p, <1>5, DeliverTarget
    <2>2. CursorCovered(q) /\ PipeCovered(q) /\ HeldCovered(q)
      BY <1>5 DEF ProcessCovered
    <2>3. cmd[q].client = c /\ cmd[q].client \in Names
      BY <1>5, <2>1 DEF CommandInv, AttachedFor, Subscribes
    <2>4. /\ Len(pipe'[q]) = L + 1 /\ L \in Nat /\ pipe'[q][L + 1] = f
          /\ \A i \in 1 .. L : pipe'[q][i] = pipe[q][i]
      BY <1>3, <2>1
    <2> HIDE DEF f
    <2>5. ASSUME NEW d \in Names, NEW o \in Int, NEW k \in 0 .. L, Told(q, d, o, k)
          PROVE  Covered(d, o)' \/ \E j \in 1 .. k : pipe'[q][j] = [offset |-> o]
      <3>1. CASE Covered(d, o)
        BY <3>1, CoverGrows
      <3>2. ASSUME NEW j \in 1 .. k, pipe[q][j] = [offset |-> o]
            PROVE  \E i \in 1 .. k : pipe'[q][i] = [offset |-> o]
        BY <2>4, <3>2
      <3> QED BY <2>5, <3>1, <3>2 DEF Told
    <2> HIDE DEF L
    <2>6. CursorCovered(q)'
      <3>1. SUFFICES ASSUME NEW u \in Topics, NEW d \in Names, Holds(u, d, q)',
                            NEW o \in 0 .. subscribers'[u][d].next_offset - 1
                     PROVE  Covered(d, o)' \/ \E j \in 1 .. L + 1 : pipe'[q][j] = [offset |-> o]
        BY <2>4 DEF CursorCovered, Told
      <3>2. Holds(u, d, q)
        BY <1>p, <3>1, DeliverHolds
      <3>3. subscribers[u][d].next_offset \in Nat
        BY <3>2 DEF Holds, TypeInv, IsTable, ActiveSubscriber
      <3>4. CASE o \in 0 .. subscribers[u][d].next_offset - 1
        <4>1. Told(q, d, o, L)
          BY <2>2, <3>2, <3>4 DEF CursorCovered, L
        <4>2. Covered(d, o)' \/ \E j \in 1 .. L : pipe'[q][j] = [offset |-> o]
          BY <2>4, <2>5, <4>1
        <4> QED BY <2>4, <4>2
      <3>5. CASE o \notin 0 .. subscribers[u][d].next_offset - 1
        <4>1. u = t /\ d = c
          <5>1. SUFFICES ASSUME ~(u = t /\ d = c) PROVE FALSE
            OBVIOUS
          <5>2. subscribers'[u][d] = subscribers[u][d]
            BY <5>1, DeliverElsewhere
          <5> QED BY <3>1, <3>5, <5>2
        <4>2. subscribers'[t][c].next_offset = n + 1
          BY <1>2 DEF deliver, TypeInv
        <4>3. o = n
          BY <3>1, <3>3, <3>5, <4>1, <4>2
        <4> QED BY <2>4, <4>3 DEF f
      <3> QED BY <3>4, <3>5
    <2>7. PipeCovered(q)'
      <3>1. SUFFICES ASSUME NEW i \in 1 .. L + 1, pipe'[q][i] \in Delivery,
                            NEW o \in 0 .. pipe'[q][i].offset - 1
                     PROVE  Covered(c, o)' \/ \E j \in 1 .. i - 1 : pipe'[q][j] = [offset |-> o]
        BY <1>1, <2>3, <2>4 DEF PipeCovered, Told, Covered
      <3>2. CASE i \in 1 .. L
        <4>1. Told(q, c, o, i - 1)
          BY <2>2, <2>3, <2>4, <3>1, <3>2 DEF PipeCovered, L
        <4>2. i - 1 \in 0 .. L /\ o \in Int
          BY <2>4, <3>1, <3>2
        <4> QED BY <2>5, <4>1, <4>2
      <3>3. CASE i = L + 1
        <4>1. o \in 0 .. n - 1
          BY <2>4, <3>1, <3>3 DEF f
        <4>2. Told(q, c, o, L)
          BY <2>1, <2>2, <4>1 DEF CursorCovered, L
        <4>3. L \in 0 .. L /\ i - 1 = L
          BY <2>4, <3>3
        <4>4. Covered(c, o)' \/ \E j \in 1 .. L : pipe'[q][j] = [offset |-> o]
          BY <2>5, <4>2, <4>3
        <4> QED BY <4>3, <4>4
      <3> QED BY <2>4, <3>2, <3>3
    <2>8. HeldCovered(q)'
      <3>1. SUFFICES ASSUME pc[q] = "ack" PROVE Below(c, held[q] + 1)'
        BY <1>1, <2>3 DEF HeldCovered, Below, Covered
      <3>2. PICK m \in Int : m = held[q] + 1
        BY <1>p, <3>1 DEF ShapeInv
      <3>3. Below(c, m)
        BY <2>2, <2>3, <3>1, <3>2 DEF HeldCovered
      <3>4. Below(c, m)'
        BY <3>3, CoverGrows
      <3> QED BY <1>1, <3>2, <3>4 DEF Below, Covered
    <2> QED BY <2>6, <2>7, <2>8 DEF ProcessCovered
  <1>6. CASE pc[q] \notin Listening
    BY <1>1, <1>6 DEF ProcessCovered
  <1> QED BY <1>4, <1>5, <1>6

(* Reading from the FIFO: the response goes, a delivery is output. *)
LEMMA ReadingCovers ==
  ASSUME BaseInv, CommandInv, [Next]_vars, NEW q \in SubPids, ProcessCovered(q), ClientAction(q)
  PROVE  ProcessCovered(q)'
  <1> USE DEF BaseInv
  <1>p. q \in Pids /\ pipe[q] \in Seq([status : Status] \cup Delivery)
    BY DEF Pids, TypeInv
  <1>1. Continues(q)
    BY <1>p, ClientContinues
  <1>2. SUFFICES ASSUME pc'[q] \in Listening
                 PROVE  (CursorCovered(q) /\ PipeCovered(q) /\ HeldCovered(q))'
    BY DEF ProcessCovered
  <1>3. pc'[q] \in {"consume", "ack"} /\ pc[q] \in Listening /\ cmd'[q] = cmd[q]
        /\ subscribers' = subscribers
    BY <1>1, <1>2 DEF Continues, Listening
  <1>4. CursorCovered(q) /\ PipeCovered(q) /\ HeldCovered(q)
    BY <1>3 DEF ProcessCovered
  <1>5. PICK c \in Names, t \in Topics : cmd[q].client = c /\ cmd[q].topic = t
    BY <1>p, <1>3 DEF ShapeInv, SubscribeCommands
  <1>6. CASE ack(q)
    <2>1. pc'[q] = "consume" /\ pipe' = pipe
      BY <1>6, <1>p DEF ack, TypeInv
    <2>2. ASSUME NEW d \in Names, NEW o \in Int, NEW k, Told(q, d, o, k) PROVE Told(q, d, o, k)'
      BY <2>1, <2>2, CoverGrows DEF Told
    <2>3. CursorCovered(q)'
      <3>1. SUFFICES ASSUME NEW u \in Topics, NEW d \in Names, Holds(u, d, q)',
                            NEW o \in 0 .. subscribers'[u][d].next_offset - 1
                     PROVE  Told(q, d, o, Len(pipe[q]))'
        BY DEF CursorCovered
      <3>2. Told(q, d, o, Len(pipe[q]))
        BY <1>3, <1>4, <3>1 DEF CursorCovered, Holds
      <3> QED BY <2>1, <3>2, CoverGrows DEF Told
    <2>4. PipeCovered(q)'
      <3>1. SUFFICES ASSUME NEW i \in 1 .. Len(pipe'[q]), pipe'[q][i] \in Delivery,
                            NEW o \in 0 .. pipe'[q][i].offset - 1
                     PROVE  Told(q, c, o, i - 1)'
        BY <1>3, <1>5 DEF PipeCovered, Told, Covered
      <3>2. Told(q, c, o, i - 1)
        BY <1>4, <1>5, <2>1, <3>1 DEF PipeCovered
      <3> QED BY <2>2, <3>2
    <2>5. HeldCovered(q)'
      BY <2>1 DEF HeldCovered
    <2> QED BY <2>3, <2>4, <2>5
  <1>7. CASE read_response(q) \/ consume(q)
    <2> DEFINE h == Head(pipe[q])
    <2>1. pipe[q] # <<>> /\ pipe'[q] = Tail(pipe[q])
      BY <1>7, <1>p DEF read_response, consume, TypeInv
    <2>2. /\ Len(pipe'[q]) = Len(pipe[q]) - 1 /\ Len(pipe[q]) \in Nat \ {0} /\ h = pipe[q][1]
          /\ \A i \in 1 .. Len(pipe'[q]) : pipe'[q][i] = pipe[q][i + 1] /\ i + 1 \in 1 .. Len(pipe[q])
      BY <1>p, <2>1, TailAt
    (* If the frame read is a delivery, it is printed or swallowed. *)
    <2>3. ASSUME NEW o, h = [offset |-> o] PROVE Covered(c, o)'
      <3>1. CASE read_response(q)
        <4>1. pc[q] = "wait" /\ 1 \in 1 .. Len(pipe[q])
          BY <2>2, <3>1 DEF read_response
        <4>2. IsResponse(pipe[q][1])
          BY <1>p, <4>1 DEF ResponseThenDeliveries
        <4> QED BY <2>2, <2>3, <4>2, FrameKinds
      <3>2. CASE consume(q)
        <4>1. h.offset = o
          BY <2>3
        <4>2. CASE printed' = [printed EXCEPT ![c] = [printed[c] EXCEPT ![t] = printed[c][t] \cup {o}]]
          <5>1. o \in printed'[c][t]
            BY <4>2 DEF TypeInv
          <5> QED BY <5>1 DEF Covered
        <4>3. CASE <<q, c, o>> \in swallowed'
          BY <4>3 DEF Covered
        <4> QED BY <1>5, <3>2, <4>1, <4>2, <4>3 DEF consume, Prints, Swallows
      <3> QED BY <1>7, <3>1, <3>2
    <2> HIDE DEF h
    <2>4. ASSUME NEW o \in Int, NEW k \in 1 .. Len(pipe[q]), Told(q, c, o, k)
          PROVE  Covered(c, o)' \/ \E j \in 1 .. k - 1 : pipe'[q][j] = [offset |-> o]
      <3>1. CASE Covered(c, o)
        BY <3>1, CoverGrows
      <3>2. ASSUME NEW j \in 1 .. k, pipe[q][j] = [offset |-> o]
            PROVE  Covered(c, o)' \/ \E i \in 1 .. k - 1 : pipe'[q][i] = [offset |-> o]
        <4>1. CASE j = 1
          BY <2>2, <2>3, <3>2, <4>1
        <4>2. CASE j # 1
          <5>1. j - 1 \in 1 .. Len(pipe'[q]) /\ j - 1 \in 1 .. k - 1 /\ j - 1 + 1 = j
            BY <2>2, <3>2, <4>2
          <5>2. pipe'[q][j - 1] = pipe[q][j]
            BY <2>2, <5>1
          <5> QED BY <3>2, <5>1, <5>2
        <4> QED BY <4>1, <4>2
      <3> QED BY <2>4, <3>1, <3>2 DEF Told
    <2>5. CursorCovered(q)'
      <3>1. SUFFICES ASSUME NEW u \in Topics, NEW d \in Names, Holds(u, d, q)',
                            NEW o \in 0 .. subscribers'[u][d].next_offset - 1
                     PROVE  Covered(d, o)' \/ \E j \in 1 .. Len(pipe'[q]) : pipe'[q][j] = [offset |-> o]
        BY DEF CursorCovered, Told
      <3>2. Holds(u, d, q)
        BY <1>3, <3>1 DEF Holds
      <3>3. d = c
        BY <1>3, <1>5, <3>2 DEF CommandInv, AttachedFor, Subscribes
      <3>4. Told(q, c, o, Len(pipe[q])) /\ Len(pipe[q]) \in 1 .. Len(pipe[q])
        BY <1>3, <1>4, <2>2, <3>1, <3>2, <3>3 DEF CursorCovered
      <3> QED BY <2>2, <2>4, <3>3, <3>4
    <2>6. PipeCovered(q)'
      <3>1. SUFFICES ASSUME NEW i \in 1 .. Len(pipe'[q]), pipe'[q][i] \in Delivery,
                            NEW o \in 0 .. pipe'[q][i].offset - 1
                     PROVE  Covered(c, o)' \/ \E j \in 1 .. i - 1 : pipe'[q][j] = [offset |-> o]
        BY <1>3, <1>5 DEF PipeCovered, Told, Covered
      <3>2. pipe'[q][i] = pipe[q][i + 1] /\ i + 1 \in 1 .. Len(pipe[q]) /\ (i + 1) - 1 = i
            /\ i \in 1 .. Len(pipe[q])
        BY <2>2
      <3>3. Told(q, c, o, i)
        BY <1>4, <1>5, <3>1, <3>2 DEF PipeCovered
      <3> QED BY <2>4, <3>2, <3>3
    <2>7. HeldCovered(q)'
      <3>1. SUFFICES ASSUME pc'[q] = "ack" PROVE Below(c, held[q] + 1)'
        BY <1>3, <1>5 DEF HeldCovered, Below, Covered
      <3>2. consume(q) /\ pc[q] = "consume"
        BY <1>7, <1>p, <3>1 DEF read_response, consume, TypeInv
      <3>3. PICK n \in Nat : n = h.offset
        BY <1>p, <2>1, <3>2, ReadsDelivery DEF h
      <3>4. h \in Delivery /\ h = [offset |-> n]
        BY <1>p, <2>1, <3>2, <3>3, ReadsDelivery DEF h, Delivery
      <3>5. held'[q] = n
        BY <3>2, <3>3 DEF consume, TypeInv, h
      <3>6. ASSUME NEW o \in 0 .. n PROVE Covered(c, o)'
        <4>1. CASE o = n
          BY <2>3, <3>4, <4>1
        <4>2. CASE o # n
          <5>1. o \in 0 .. pipe[q][1].offset - 1 /\ 1 \in 1 .. Len(pipe[q]) /\ pipe[q][1] \in Delivery
            BY <2>2, <3>3, <3>4, <4>2
          <5>2. Told(q, c, o, 1 - 1)
            BY <1>4, <1>5, <5>1 DEF PipeCovered
          <5>3. Covered(c, o)
            BY <5>2 DEF Told
          <5> QED BY <5>3, CoverGrows
        <4> QED BY <4>1, <4>2
      <3>7. \A o \in 0 .. (n + 1) - 1 : Covered(c, o)'
        BY <3>6
      <3> QED BY <3>5, <3>7 DEF Below, Covered
    <2> QED BY <2>5, <2>6, <2>7
  <1> QED BY <1>3, <1>6, <1>7, <1>p DEF ClientAction, Goes, Misfortune, Listening, close_fd, unlink_fifo,
        time_out, disconnect, output_error, crash, publish, TypeInv

(* Every step keeps the offsets covered along their way from cursor to *)
(* committed offset.                                                   *)
LEMMA OffsetStep ==
  ASSUME BaseInv, CommandInv, OffsetInv, [Next]_vars
  PROVE  OffsetInv'
  <1> USE DEF BaseInv
  <1>0. CommittedBelow' /\ AcksBelow' /\ StartBelow'
    BY TablesBelow
  <1> SUFFICES ASSUME NEW q \in SubPids PROVE ProcessCovered(q)'
    BY <1>0 DEF OffsetInv
  <1>p. q \in Pids /\ main \in Mains
    BY DEF Pids, TypeInv
  <1>q. ProcessCovered(q) /\ StartBelow
    BY DEF OffsetInv
  <1>1. CASE Handler
    <2>1. pc' = pc /\ cmd' = cmd /\ pipe' = pipe /\ held' = held
      BY <1>1, HandlerTakes DEF Takes
    <2>2. \A t \in Topics, c \in Names :
            Holds(t, c, q)' => Holds(t, c, q) /\ subscribers'[t][c] = subscribers[t][c]
      BY <1>1, HandlerHolds
    <2> QED BY <1>q, <2>1, <2>2, CoveredStays
  <1>2. CASE send_response
    <2>1. pc' = pc /\ cmd' = cmd /\ held' = held /\ subscribers' = subscribers
      BY <1>2 DEF send_response, clientVars
    <2>2. CASE pipe'[q] = pipe[q]
      BY <1>q, <2>1, <2>2, CoveredStays DEF Holds
    <2>3. CASE pipe'[q] # pipe[q]
      <3>1. /\ Serving(q) /\ main.at = "respond" /\ main.status \in Status
            /\ pipe'[q] = Append(pipe[q], [status |-> main.status])
        BY <1>2, <1>p, <2>3, ResponseTarget
      <3>2. pipe[q] = <<>> /\ pc[q] # "ack" /\ ~Attached(q)
        BY <1>p, <3>1 DEF PhaseInv, Phases, Answered, Unanswered
      <3>3. Len(pipe'[q]) = 1 /\ pipe'[q][1] = [status |-> main.status]
        BY <3>1, <3>2
      <3>4. [status |-> main.status] \notin Delivery
        BY DEF Delivery
      <3>5. CursorCovered(q)'
        BY <2>1, <3>2 DEF CursorCovered, Attached, Holds
      <3>6. PipeCovered(q)'
        BY <3>3, <3>4 DEF PipeCovered
      <3>7. HeldCovered(q)'
        BY <2>1, <3>2 DEF HeldCovered
      <3> QED BY <3>5, <3>6, <3>7 DEF ProcessCovered
    <2> QED BY <2>2, <2>3
  <1>3. CASE add_subscriber
    <2>1. pc' = pc /\ cmd' = cmd /\ held' = held /\ pipe' = pipe /\ main.at = "attach"
      BY <1>3 DEF add_subscriber, clientVars
    <2>2. CASE main.pid # q
      <3>1. \A t \in Topics, c \in Names :
              Holds(t, c, q)' => Holds(t, c, q) /\ subscribers'[t][c] = subscribers[t][c]
        BY <1>3, <2>2, AttachHolds
      <3> QED BY <1>q, <2>1, <3>1, CoveredStays
    <2>3. CASE main.pid = q /\ pc[q] \in Listening
      <3>1. ~Attached(q) /\ main.attach # Nil
        BY <1>p, <2>1, <2>3, MainFields DEF Serving, PhaseInv, Phases
      <3>2. PICK d \in Names, n \in Int :
              d = main.attach.client /\ n = main.attach.start /\ Below(d, n)
        BY <1>p, <1>q, <2>1, <3>1, MainFields, ServerAssumption DEF StartBelow, Offsets
      <3>3. Below(d, n)'
        BY <3>2, CoverGrows
      <3>4. CursorCovered(q)'
        <4>1. SUFFICES ASSUME NEW t \in Topics, NEW c \in Names, Holds(t, c, q)',
                              NEW o \in 0 .. subscribers'[t][c].next_offset - 1
                       PROVE  Covered(c, o)'
          BY DEF CursorCovered, Told
        <4>2. ~Holds(t, c, q)
          BY <3>1 DEF Attached
        <4>3. c = d /\ subscribers'[t][c] = [fifo_fd |-> q, next_offset |-> n]
          BY <1>3, <3>2, <4>1, <4>2, AttachHolds
        <4>4. o \in 0 .. n - 1
          BY <4>1, <4>3
        <4> QED BY <3>3, <4>3, <4>4 DEF Below
      <3>5. PipeCovered(q) /\ HeldCovered(q)
        BY <1>q, <2>3 DEF ProcessCovered
      <3>6. PICK c \in Names : c = cmd[q].client
        BY <1>p, <2>3 DEF ShapeInv, SubscribeCommands
      <3>7. PipeCovered(q)'
        <4>1. SUFFICES ASSUME NEW i \in 1 .. Len(pipe[q]), pipe[q][i] \in Delivery,
                              NEW o \in 0 .. pipe[q][i].offset - 1
                       PROVE  Told(q, c, o, i - 1)'
          BY <2>1, <3>6 DEF PipeCovered, Told, Covered
        <4>2. Told(q, c, o, i - 1)
          BY <3>5, <3>6, <4>1 DEF PipeCovered
        <4> QED BY <2>1, <4>2, CoverGrows DEF Told
      <3>8. HeldCovered(q)'
        <4>1. SUFFICES ASSUME pc[q] = "ack" PROVE Below(c, held[q] + 1)'
          BY <2>1, <3>6 DEF HeldCovered, Below, Covered
        <4>2. PICK m \in Int : m = held[q] + 1
          BY <1>p, <4>1 DEF ShapeInv
        <4>3. Below(c, m)'
          BY <3>5, <3>6, <4>1, <4>2, CoverGrows DEF HeldCovered
        <4> QED BY <2>1, <4>2, <4>3 DEF Below, Covered
      <3> QED BY <3>4, <3>7, <3>8 DEF ProcessCovered
    <2>4. CASE pc[q] \notin Listening
      BY <2>1, <2>4 DEF ProcessCovered
    <2> QED BY <2>2, <2>3, <2>4
  <1>4. ASSUME NEW t \in Topics, NEW c \in Names, deliver(t, c) PROVE ProcessCovered(q)'
    BY <1>4, <1>q, DeliverCovers
  <1>5. ASSUME NEW p, NEW command, NEW request, Starts(p, command, request)
        PROVE  ProcessCovered(q)'
    <2>1. /\ p \in Pids /\ pc[p] = "new" /\ pc' = [pc EXCEPT ![p] = "wait"]
          /\ subscribers' = subscribers /\ cmd' = [cmd EXCEPT ![p] = command]
          /\ pipe' = pipe /\ held' = held
      BY <1>5 DEF Starts, start
    <2>2. CASE q = p
      <3>1. ~Attached(q) /\ pipe[q] = <<>>
        BY <1>p, <2>1, <2>2 DEF PhaseInv, Phases, FifoInv
      <3>2. CursorCovered(q)'
        BY <2>1, <3>1 DEF CursorCovered, Attached, Holds
      <3>3. PipeCovered(q)'
        BY <2>1, <3>1 DEF PipeCovered
      <3>4. HeldCovered(q)'
        BY <2>1, <2>2 DEF HeldCovered, TypeInv
      <3> QED BY <3>2, <3>3, <3>4 DEF ProcessCovered
    <2>3. CASE q # p
      <3>1. pc'[q] = pc[q] /\ cmd'[q] = cmd[q]
        BY <1>p, <2>1, <2>3 DEF TypeInv
      <3> QED BY <1>q, <2>1, <3>1, CoveredStays DEF Holds
    <2> QED BY <2>2, <2>3
  <1>6. ASSUME NEW p \in Pids, ClientAction(p) PROVE ProcessCovered(q)'
    <2>1. CASE q = p
      BY <1>6, <1>q, <2>1, ReadingCovers
    <2>2. CASE q # p
      <3>1. Continues(p)
        BY <1>6, ClientContinues
      <3>2. /\ pc'[q] = pc[q] /\ cmd'[q] = cmd[q] /\ pipe'[q] = pipe[q] /\ held'[q] = held[q]
            /\ subscribers' = subscribers
        BY <1>p, <2>2, <3>1 DEF Continues, Others
      <3> QED BY <1>q, <3>2, CoveredStays DEF Holds
    <2> QED BY <2>1, <2>2
  <1>7. CASE UNCHANGED vars
    BY <1>7, <1>q, CoveredStays DEF vars, serverVars, clientVars, Holds
  <1> QED BY <1>1, <1>2, <1>3, <1>4, <1>5, <1>6, <1>7, StepKinds
-----------------------------------------------------------------------------
(* The theorems.                                                           *)

(* The invariant holds at the start. *)
LEMMA InitInv ==
  ASSUME Init
  PROVE  ServerInv
  <1> USE DEF Init
  <1>1. \A p : ~InQueue(p) /\ ~Serving(p)
    BY DEF InQueue, Serving, Idle
  <1>2. \A t \in Topics : \A c, p : ~Holds(t, c, p)
    BY DEF Holds, Nobody
  <1>3. \A p : ~Attached(p)
    BY <1>2 DEF Attached
  <1>4. TypeInv
    <2>1. IsTable(log, Topics, Nat)
      BY ServerAssumption DEF IsTable
    <2>2. IsTable(client_index, Names, ClientMetadata)
      BY DEF IsTable, Nobody
    <2>3. \A t \in Topics : IsTable(subscribers[t], Names, ActiveSubscriber)
      BY DEF IsTable, Nobody
    <2>4. inbox \in Seq(Requests) /\ pipe \in [Pids -> Seq([status : Status] \cup Delivery)]
      BY EmptySeq
    <2>5. main \in Mains
      BY DEF Mains, Idle
    <2>6. asked \in [Names -> Offsets]
      BY ServerAssumption DEF Offsets
    <2>7. printed \in [Names -> [Topics -> SUBSET Nat]]
      OBVIOUS
    <2> QED BY <2>1, <2>2, <2>3, <2>4, <2>5, <2>6, <2>7 DEF TypeInv, PCs
  <1>5. ShapeInv
    BY DEF ShapeInv, Listening, Pids
  <1>6. FifoInv
    BY DEF FifoInv, Reading, Listening
  <1>7. PhaseInv
    BY <1>1, <1>3 DEF PhaseInv, Phases, Answered, Unanswered, OneRequest
  <1>8. ResponseThenDeliveries /\ BlockedOnlyByDeparted
    BY DEF ResponseThenDeliveries, BlockedOnlyByDeparted, Idle
  <1>9. LiveSessionIndexed
    BY DEF LiveSessionIndexed, LiveEntries, Nobody
  <1>10. AttachInv
    BY DEF AttachInv, Idle
  <1>11. CommandInv
    BY DEF CommandInv, Listening, Pids
  <1>12. AcceptedInv
    BY DEF AcceptedInv, Accepted, Pids
  <1>13. OffsetInv
    BY DEF OffsetInv, CommittedBelow, AcksBelow, StartBelow, ProcessCovered, Listening, Nobody,
         Idle, Pids
  <1> QED BY <1>4, <1>5, <1>6, <1>7, <1>8, <1>9, <1>10, <1>11, <1>12, <1>13
        DEF ServerInv, BaseInv, IndexInv

(* The inductive invariant of the broker with its clients: where each      *)
(* request, each process and each offset stands between the steps of       *)
(* Server::run, the topic workers and the client processes.                *)
THEOREM ServerInvariance == Spec => []ServerInv
  <1>1. Init => ServerInv
    BY InitInv
  <1>2. ServerInv /\ [Next]_vars => ServerInv'
    BY TypeStep, ShapeStep, FifoStep, PhaseStep, ResponseStep, BlockedStep, IndexStep,
       CommandStep, AcceptedStep, OffsetStep DEF ServerInv, BaseInv
  <1> QED BY <1>1, <1>2, PTL DEF Spec

(* A process that receives from any topic is the one client_index names,   *)
(* so the duplicate check of handle_subscriber_connect never leaves two    *)
(* live subscribers under a name, whatever crashes, times out or arrives   *)
(* late.                                                                   *)
THEOREM OneLiveSession == Spec => []LiveSessionIndexed
  <1>1. ServerInv => LiveSessionIndexed
    BY DEF ServerInv, IndexInv
  <1> QED BY <1>1, ServerInvariance, PTL

(* A client that reads its FIFO without looking at the kind of the frame   *)
(* gets its response first and deliveries after it: send_response comes    *)
(* before add_subscriber.                                                  *)
THEOREM ResponseComesFirst == Spec => []ResponseThenDeliveries
  <1>1. ServerInv => ResponseThenDeliveries
    BY DEF ServerInv, BaseInv
  <1> QED BY <1>1, ServerInvariance, PTL

(* send_response hangs in open() only on the FIFO of a process that has    *)
(* gone before it was answered.                                            *)
THEOREM BlockedByDeparted == Spec => []BlockedOnlyByDeparted
  <1>1. ServerInv => BlockedOnlyByDeparted
    BY DEF ServerInv
  <1> QED BY <1>1, ServerInvariance, PTL

(* A consuming process is attached, or about to be, or was dropped for a   *)
(* full pipe or a DISCONNECT of its name: no re-subscription, commit or    *)
(* late attachment of another process takes its subscription.              *)
THEOREM SubscriptionsStay == Spec => []ConsumersStayAttached
  <1>1. ServerInv => ConsumersStayAttached
    <2> SUFFICES ASSUME ServerInv, NEW p \in SubPids, pc[p] \in {"consume", "ack"},
                        p \notin lost, ~(main.at = "attach" /\ main.pid = p)
                 PROVE  /\ <<cmd[p].topic, cmd[p].client>> \in LiveEntries
                        /\ subscribers[cmd[p].topic][cmd[p].client].fifo_fd = p
      BY DEF ConsumersStayAttached
    <2>1. Holds(cmd[p].topic, cmd[p].client, p)
      BY DEF ServerInv, AcceptedInv, Accepted
    <2>2. p \in Pids /\ p # Nil
      BY ServerAssumption DEF Pids
    <2>3. cmd[p].topic \in Topics /\ cmd[p].client \in Names
      BY <2>2 DEF ServerInv, BaseInv, ShapeInv, Listening, SubscribeCommands
    <2>4. fifo[p] = "open"
      BY <2>2 DEF ServerInv, BaseInv, FifoInv, Reading, Listening
    <2> QED BY <2>1, <2>2, <2>3, <2>4 DEF Holds, LiveEntries
  <1> QED BY <1>1, ServerInvariance, PTL

(* The offset handle_commit leaves for a name skips no message but those a *)
(* process of that name printed, asked to skip, or acknowledged after its  *)
(* output had failed.                                                      *)
THEOREM CommitsArePrinted == Spec => []CommittedWasPrinted
  <1>1. ServerInv => CommittedWasPrinted
    BY DEF ServerInv, OffsetInv, CommittedBelow, Below, Covered, CommittedWasPrinted
  <1> QED BY <1>1, ServerInvariance, PTL
-----------------------------------------------------------------------------
(* What TLAPS proves about the bounds in Server: the queues and the pipes  *)
(* keep their capacity, and no offset passes 2^32 as long as the producers *)
(* together publish fewer messages than that.                              *)

(* The part of the type invariant that is about bounds. *)
Bounds ==
  /\ Len(inbox) <= InboxCap
  /\ IsTable(producer_topics, ProdPids, Topics)
  /\ \A p \in Pids : pipe[p] \in Seq(Frames) /\ Len(pipe[p]) <= PipeCap
  /\ held \in [SubPids -> Offsets \cup {Nil}]
  /\ published \in [ProdPids -> 0 .. MaxPublish]
  /\ printed \in [Names -> [Topics -> SUBSET Offsets]]
  /\ swallowed \subseteq SubPids \X Names \X Offsets
  /\ lost \subseteq SubPids

(* Every message was sent by a producer, and is in the queue or in at most *)
(* one place of one log.                                                   *)
Produced == {i \in 1 .. Len(inbox) : inbox[i].type = "PRODUCE"}
Sent == {e \in ProdPids \X (1 .. MaxPublish) : e[2] <= published[e[1]]}
CountInv ==
  /\ Cardinality(Produced) <= Cardinality(Sent)
  /\ \A t \in DOMAIN log : log[t] + Cardinality(Produced) <= Cardinality(Sent)

BoundInv == BaseInv /\ Bounds /\ CountInv

(* Sets of positions are finite. *)
LEMMA Positions ==
  ASSUME NEW n \in Nat, NEW S, S \subseteq 1 .. n
  PROVE  IsFiniteSet(S) /\ Cardinality(S) \in Nat
  <1>1. IsFiniteSet(1 .. n)
    BY FS_Interval
  <1>2. IsFiniteSet(S)
    BY <1>1, FS_Subset
  <1> QED BY <1>2, FS_CardinalityType

(* The queued PRODUCEs and the messages sent are finite in number, and *)
(* fewer than 2^32 messages are ever sent.                             *)
LEMMA Counts ==
  ASSUME TypeInv
  PROVE  /\ IsFiniteSet(Produced) /\ Cardinality(Produced) \in Nat
         /\ IsFiniteSet(Sent) /\ Cardinality(Sent) \in Nat
         /\ Cardinality(Sent) < U32
  <1>1. Len(inbox) \in Nat
    BY LenProperties DEF TypeInv
  <1>2. Produced \subseteq 1 .. Len(inbox)
    BY DEF Produced
  <1>3. IsFiniteSet(Produced)
    BY <1>1, <1>2, Positions
  <1>4. /\ IsFiniteSet(1 .. MaxPublish) /\ Cardinality(1 .. MaxPublish) = MaxPublish
        /\ IsFiniteSet(ProdPids) /\ Cardinality(ProdPids) \in Nat /\ MaxPublish \in Nat
    BY FS_Interval, FS_CardinalityType, ServerAssumption
  <1>5. /\ IsFiniteSet(ProdPids \X (1 .. MaxPublish))
        /\ Cardinality(ProdPids \X (1 .. MaxPublish)) = Cardinality(ProdPids) * MaxPublish
    BY <1>4, FS_Product
  <1>6. Sent \in SUBSET (ProdPids \X (1 .. MaxPublish))
    BY DEF Sent
  <1>7. IsFiniteSet(Sent) /\ Cardinality(Sent) <= Cardinality(ProdPids) * MaxPublish
    BY <1>5, <1>6, FS_Subset
  <1>8. Cardinality(ProdPids) * MaxPublish = MaxPublish * Cardinality(ProdPids)
    BY <1>4
  <1>9. Cardinality(Produced) \in Nat /\ Cardinality(Sent) \in Nat
    BY <1>3, <1>7, FS_CardinalityType
  <1>10. MaxPublish * Cardinality(ProdPids) < U32 /\ MaxPublish * Cardinality(ProdPids) \in Nat
         /\ U32 \in Nat
    BY <1>4, ServerAssumption
  <1> QED BY <1>3, <1>7, <1>8, <1>9, <1>10

(* Taking a frame queues nothing new, and one PRODUCE less if it was one. *)
LEMMA TakenCount ==
  ASSUME TypeInv, TypeInv', inbox # <<>>, inbox' = Tail(inbox)
  PROVE  /\ Cardinality(Produced') <= Cardinality(Produced)
         /\ Head(inbox).type = "PRODUCE" => Cardinality(Produced') + 1 <= Cardinality(Produced)
  <1> DEFINE f == [i \in Produced' |-> i + 1]
             R == Produced \ {1}
  <1>1. inbox \in Seq(Requests)
    BY DEF TypeInv
  <1>2. /\ Len(inbox) \in Nat \ {0} /\ Head(inbox) = inbox[1]
        /\ \A i \in 1 .. Len(inbox') : inbox'[i] = inbox[i + 1] /\ i + 1 \in 1 .. Len(inbox)
    BY <1>1, TailAt
  <1>3. ASSUME NEW i \in Produced' PROVE i \in Nat \ {0} /\ i + 1 \in R
    BY <1>2 DEF Produced
  <1>4. f \in [Produced' -> R]
    BY <1>3
  <1>5. ASSUME NEW i \in Produced', NEW j \in Produced', f[i] = f[j] PROVE i = j
    BY <1>3, <1>5
  <1>6. f \in Injection(Produced', R)
    BY <1>4, <1>5 DEF Injection, IsInjective
  <1>7. /\ IsFiniteSet(Produced) /\ Cardinality(Produced) \in Nat
        /\ IsFiniteSet(R)
        /\ Cardinality(R) = IF 1 \in Produced THEN Cardinality(Produced) - 1 ELSE Cardinality(Produced)
    BY Counts, FS_RemoveElement
  <1>8. IsFiniteSet(Produced') /\ Cardinality(Produced') <= Cardinality(R)
    BY <1>6, <1>7, FS_Injection
  <1>9. Cardinality(Produced') \in Nat
    BY <1>8, FS_CardinalityType
  <1>10. Head(inbox).type = "PRODUCE" => 1 \in Produced
    BY <1>2 DEF Produced
  <1> QED BY <1>7, <1>8, <1>9, <1>10

(* Adding a frame queues at most one more PRODUCE, and none if it is *)
(* another request.                                                  *)
LEMMA AddedCount ==
  ASSUME TypeInv, NEW r \in Requests, inbox' = Append(inbox, r)
  PROVE  /\ r.type # "PRODUCE" => Produced' = Produced
         /\ Cardinality(Produced') <= Cardinality(Produced) + 1
  <1>1. inbox \in Seq(Requests)
    BY DEF TypeInv
  <1>2. /\ Len(inbox') = Len(inbox) + 1 /\ Len(inbox) \in Nat
        /\ inbox'[Len(inbox) + 1] = r
        /\ \A i \in 1 .. Len(inbox) : inbox'[i] = inbox[i]
    BY <1>1, AppendAt
  <1>n. PICK n \in Nat : n = Len(inbox)
    BY <1>2
  <1>m. \A i : i \in 1 .. n + 1 <=> i \in 1 .. n \/ i = n + 1
    OBVIOUS
  <1>3. \A i : i \in Produced' <=> i \in Produced \/ (i = n + 1 /\ r.type = "PRODUCE")
    <2>1. \A i \in 1 .. n : inbox'[i].type = inbox[i].type
      BY <1>2, <1>n
    <2>2. inbox'[n + 1].type = r.type /\ Len(inbox') = n + 1 /\ n + 1 \notin 1 .. n
      BY <1>2, <1>n
    <2> QED BY <1>n, <1>m, <2>1, <2>2 DEF Produced
  <1>4. IsFiniteSet(Produced) /\ Cardinality(Produced) \in Nat
    BY Counts
  <1>5. ASSUME NEW x PROVE Cardinality(Produced \cup {x}) <= Cardinality(Produced) + 1
    <2>1. Cardinality(Produced \cup {x}) =
            IF x \in Produced THEN Cardinality(Produced) ELSE Cardinality(Produced) + 1
      BY <1>4, FS_AddElement
    <2>2. PICK m \in Nat : m = Cardinality(Produced)
      BY <1>4
    <2>3. Cardinality(Produced \cup {x}) = m \/ Cardinality(Produced \cup {x}) = m + 1
      BY <2>1, <2>2
    <2> QED BY <2>2, <2>3
  <1>6. r.type # "PRODUCE" => Produced' = Produced
    BY <1>3
  <1>7. CASE r.type = "PRODUCE"
    <2>1. PICK x : x = n + 1
      OBVIOUS
    <2>2. Produced' = Produced \cup {x}
      BY <1>3, <1>7, <2>1
    <2>3. Cardinality(Produced') = Cardinality(Produced \cup {x})
      BY <2>2
    <2> QED BY <1>5, <1>7, <2>3
  <1>8. CASE r.type # "PRODUCE"
    <2>1. Cardinality(Produced') = Cardinality(Produced)
      BY <1>6, <1>8
    <2> QED BY <1>4, <1>6, <2>1
  <1> QED BY <1>7, <1>8

(* Every step keeps the messages logged and queued within the messages *)
(* sent.                                                               *)
LEMMA CountStep ==
  ASSUME BoundInv, [Next]_vars
  PROVE  CountInv'
  <1> USE DEF BoundInv, BaseInv
  <1>t. TypeInv'
    BY TypeStep
  <1>c. /\ IsFiniteSet(Produced) /\ Cardinality(Produced) \in Nat
        /\ IsFiniteSet(Sent) /\ Cardinality(Sent) \in Nat
    BY Counts
  <1>l. \A t \in DOMAIN log : log[t] \in Nat
    BY DEF TypeInv, IsTable
  <1>1. CASE Handler
    <2>1. Takes
      BY <1>1, HandlerTakes
    <2>2. /\ Cardinality(Produced') <= Cardinality(Produced)
          /\ Head(inbox).type = "PRODUCE" => Cardinality(Produced') + 1 <= Cardinality(Produced)
      BY <1>t, <2>1, TakenCount DEF Takes
    <2>3. Sent' = Sent
      BY <2>1 DEF Takes, Sent
    <2>4. IsFiniteSet(Produced') /\ Cardinality(Produced') \in Nat
      <3>1. Produced' \in SUBSET (1 .. Len(inbox')) /\ Len(inbox') \in Nat
        BY <1>t, LenProperties DEF Produced, TypeInv
      <3> QED BY <3>1, Positions
    <2>5. CASE log' = log
      BY <1>c, <1>l, <2>2, <2>3, <2>4, <2>5 DEF CountInv
    <2>6. CASE handle_create /\ log' # log
      <3>1. PICK u : log' = Put(log, u, 0)
        BY <2>6 DEF handle_create
      <3>2. \A t \in DOMAIN log' : log'[t] = 0 \/ (t \in DOMAIN log /\ log'[t] = log[t])
        BY <3>1 DEF Put
      <3> QED BY <1>c, <1>l, <2>2, <2>3, <2>4, <3>2 DEF CountInv
    <2>7. CASE handle_publish
      <3>1. Head(inbox).type = "PRODUCE"
        BY <2>7 DEF handle_publish, Handles
      <3>2. PICK u : log' = log \/ log' = [log EXCEPT ![u] = log[u] + 1]
        BY <2>7 DEF handle_publish
      <3>3. \A t \in DOMAIN log' : t \in DOMAIN log /\ log'[t] \in {log[t], log[t] + 1}
        BY <3>2
      <3> QED BY <1>c, <1>l, <2>2, <2>3, <2>4, <3>1, <3>3 DEF CountInv
    <2> QED BY <1>1, <2>5, <2>6, <2>7 DEF Handler, handle_list, handle_info, handle_producer_connect,
          handle_subscriber_connect, handle_commit, handle_disconnect
  <1>2. ASSUME inbox' = inbox \/ Produced' = Produced, published' = published, log' = log
        PROVE  CountInv'
    <2>1. Produced' = Produced /\ Sent' = Sent
      BY <1>2 DEF Produced, Sent
    <2> QED BY <1>2, <2>1 DEF CountInv
  <1>3. CASE send_response \/ add_subscriber
    BY <1>2, <1>3 DEF send_response, add_subscriber, clientVars
  <1>4. ASSUME NEW t \in Topics, NEW c \in Names, deliver(t, c) PROVE CountInv'
    BY <1>2, <1>4 DEF deliver, clientVars
  <1>5. ASSUME NEW p, NEW command, NEW request, Starts(p, command, request) PROVE CountInv'
    <2>1. /\ request \in Requests /\ inbox' = Append(inbox, request) /\ request.type # "PRODUCE"
          /\ published' = published /\ log' = log
      BY <1>5 DEF Starts, start, Send, Asks, Asking
    <2> QED BY <1>2, <2>1, AddedCount
  <1>6. ASSUME NEW p \in Pids, ClientAction(p) PROVE CountInv'
    <2>1. Continues(p)
      BY <1>6, ClientContinues
    <2>2. log' = log
      BY <2>1 DEF Continues
    <2>3. CASE inbox' = inbox /\ published' = published
      BY <1>2, <2>2, <2>3
    <2>4. CASE ack(p)
      <3>1. PICK r \in Requests : inbox' = Append(inbox, r) /\ r.type # "PRODUCE"
        <4> DEFINE r == [type |-> "ACK", client |-> cmd[p].client, offset |-> (held[p] + 1) % U32]
        <4>1. pc[p] = "ack" /\ inbox' = Append(inbox, r)
          BY <2>4 DEF ack, Send
        <4>2. held[p] \in Nat /\ cmd[p].client \in Names
          BY <4>1 DEF ShapeInv, Listening, SubscribeCommands
        <4>3. (held[p] + 1) % U32 \in Offsets
          BY <4>2, ServerAssumption DEF Offsets
        <4>4. r \in Requests /\ r.type # "PRODUCE"
          BY <4>2, <4>3 DEF Requests
        <4> QED BY <4>1, <4>4
      <3>2. published' = published
        BY <2>4 DEF ack
      <3> QED BY <1>2, <2>2, <3>1, <3>2, AddedCount
    <2>5. CASE disconnect(p)
      <3>1. PICK r \in Requests : inbox' = Append(inbox, r) /\ r.type # "PRODUCE"
        <4> DEFINE r == [type |-> "DISCONNECT", client |-> cmd[p].client]
        <4>1. pc[p] = "consume" /\ inbox' = Append(inbox, r)
          BY <2>5 DEF disconnect, Send
        <4>2. r \in Requests /\ r.type # "PRODUCE"
          BY <4>1 DEF ShapeInv, Listening, SubscribeCommands, Requests
        <4> QED BY <4>1, <4>2
      <3>2. published' = published
        BY <2>5 DEF disconnect
      <3> QED BY <1>2, <2>2, <3>1, <3>2, AddedCount
    <2>6. CASE p \in ProdPids /\ publish(p)
      <3>1. PICK r \in Requests : inbox' = Append(inbox, r)
        <4> DEFINE r == [type |-> "PRODUCE", topic |-> cmd[p].topic]
        <4>1. pc[p] = "publish" /\ inbox' = Append(inbox, r)
          BY <2>6 DEF publish, Send
        <4>2. r \in Requests
          BY <2>6, <4>1 DEF ShapeInv, Requests
        <4> QED BY <4>1, <4>2
      <3>2. Cardinality(Produced') <= Cardinality(Produced) + 1
        BY <3>1, AddedCount
      <3>3. /\ published[p] \in Nat /\ published[p] + 1 \in 1 .. MaxPublish
            /\ published' = [published EXCEPT ![p] = published[p] + 1]
        BY <2>6, ServerAssumption DEF publish, Bounds
      <3>4. <<p, published[p] + 1>> \notin Sent
        BY <3>3 DEF Sent
      <3>5. Sent' = Sent \cup {<<p, published[p] + 1>>}
        <4>1. ASSUME NEW a \in ProdPids, NEW b \in 1 .. MaxPublish
              PROVE  b <= published'[a] <=> b <= published[a] \/ (a = p /\ b = published[p] + 1)
          <5>1. published[a] \in Nat /\ published'[a] = IF a = p THEN published[p] + 1 ELSE published[a]
            BY <3>3 DEF Bounds
          <5> QED BY <3>3, <5>1
        <4>2. \A e \in ProdPids \X (1 .. MaxPublish) :
                e[2] <= published'[e[1]] <=> e[2] <= published[e[1]] \/ e = <<p, published[p] + 1>>
          BY <4>1
        <4> QED BY <2>6, <3>3, <4>2 DEF Sent
      <3>6. Cardinality(Sent') = Cardinality(Sent) + 1
        BY <1>c, <3>4, <3>5, FS_AddElement
      <3>7. Cardinality(Produced') \in Nat
        <4>1. Produced' \in SUBSET (1 .. Len(inbox')) /\ Len(inbox') \in Nat
          BY <1>t, LenProperties DEF Produced, TypeInv
        <4> QED BY <4>1, Positions
      <3> QED BY <1>c, <1>l, <2>2, <3>2, <3>6, <3>7 DEF CountInv
    <2> QED BY <1>6, <2>3, <2>4, <2>5, <2>6 DEF ClientAction, Goes, Misfortune, read_response, consume,
          close_fd, unlink_fifo, time_out, output_error, crash, serverVars
  <1>7. CASE UNCHANGED vars
    BY <1>2, <1>7 DEF vars, serverVars, clientVars
  <1> QED BY <1>1, <1>3, <1>4, <1>5, <1>6, <1>7, StepKinds

(* Nothing outgrows its place. *)
LEMMA BoundsStep ==
  ASSUME BoundInv, [Next]_vars
  PROVE  Bounds'
  <1> USE DEF BoundInv, BaseInv
  <1>t. TypeInv' /\ inbox \in Seq(Requests) /\ main \in Mains
    BY TypeStep DEF TypeInv
  <1>n. Len(inbox) \in Nat /\ InboxCap \in Nat /\ PipeCap \in Nat \ {0}
    BY <1>t, LenProperties, ServerAssumption
  <1>p. \A q \in Pids : pipe[q] \in Seq(Frames) /\ Len(pipe[q]) <= PipeCap /\ Len(pipe[q]) \in Nat
    BY LenProperties DEF Bounds
  <1>1. CASE Handler
    <2>1. Takes
      BY <1>1, HandlerTakes
    <2>2. Len(inbox') <= InboxCap
      <3>1. Len(inbox') = Len(inbox) - 1
        BY <1>t, <2>1, TailAt DEF Takes
      <3> QED BY <1>n, <3>1 DEF Bounds
    <2>3. IsTable(producer_topics', ProdPids, Topics)
      <3>1. CASE producer_topics' = producer_topics
        BY <3>1 DEF Bounds
      <3>2. CASE handle_producer_connect /\ producer_topics' # producer_topics
        <4> DEFINE r == Head(inbox)
        <4>1. r.type = "CONNECT" /\ producer_topics' = Put(producer_topics, r.pid, r.topic)
          BY <3>2 DEF handle_producer_connect, Handles
        <4>2. r \in Requests
          BY <1>t, <2>1, TailAt DEF Takes
        <4> HIDE DEF r
        <4>3. r.pid \in ProdPids /\ r.topic \in Topics
          BY <4>1, <4>2, RequestFields
        <4> QED BY <4>1, <4>3, Tables DEF Bounds
      <3> QED BY <1>1, <3>1, <3>2 DEF Handler, handle_create, handle_list, handle_info,
            handle_publish, handle_subscriber_connect, handle_commit, handle_disconnect
    <2>4. lost' \subseteq SubPids
      <3>1. CASE lost' = lost
        BY <3>1 DEF Bounds
      <3>2. CASE handle_disconnect /\ lost' # lost
        <4> DEFINE d == Head(inbox).client
                   u == client_index[d].topic
        <4>1. /\ d \in DOMAIN client_index /\ d \in DOMAIN subscribers[u]
              /\ lost' = (lost \cup {subscribers[u][d].fifo_fd}) \ {Nil}
          BY <3>2 DEF handle_disconnect
        <4>2. u \in Topics
          BY <4>1 DEF TypeInv, IsTable, ClientMetadata
        <4> HIDE DEF u, d
        <4>3. subscribers[u][d].fifo_fd \in SubPids \cup {Nil}
          BY <4>1, <4>2 DEF TypeInv, IsTable, ActiveSubscriber
        <4> QED BY <4>1, <4>3 DEF Bounds
      <3> QED BY <1>1, <3>1, <3>2 DEF Handler, handle_create, handle_list, handle_info,
            handle_publish, handle_subscriber_connect, handle_commit, handle_producer_connect
    <2>5. UNCHANGED <<pipe, held, published, printed, swallowed>>
      BY <2>1 DEF Takes
    <2> QED BY <2>2, <2>3, <2>4, <2>5 DEF Bounds, IsTable
  <1>2. ASSUME NEW q \in Pids, NEW f \in Frames, pipe'[q] = Append(pipe[q], f), Len(pipe[q]) < PipeCap
        PROVE  pipe'[q] \in Seq(Frames) /\ Len(pipe'[q]) <= PipeCap
    <2>1. pipe'[q] \in Seq(Frames) /\ Len(pipe'[q]) = Len(pipe[q]) + 1
      BY <1>2, <1>p, AppendAt
    <2> QED BY <1>n, <1>p, <1>2, <2>1
  <1>3. CASE send_response
    <2>1. ASSUME NEW q \in Pids PROVE pipe'[q] \in Seq(Frames) /\ Len(pipe'[q]) <= PipeCap
      <3>1. CASE pipe'[q] = pipe[q]
        BY <1>p, <3>1
      <3>2. CASE pipe'[q] # pipe[q]
        <4>1. /\ Serving(q) /\ main.at = "respond" /\ main.status \in Status
              /\ pipe'[q] = Append(pipe[q], [status |-> main.status])
          BY <1>3, <3>2, ResponseTarget
        <4>2. pipe[q] = <<>>
          BY <4>1 DEF PhaseInv, Answered, Unanswered
        <4>3. Len(pipe[q]) < PipeCap
          BY <1>n, <4>2
        <4>4. [status |-> main.status] \in Frames
          BY <4>1 DEF Frames
        <4> QED BY <1>2, <4>1, <4>3, <4>4
      <3> QED BY <3>1, <3>2
    <2>2. UNCHANGED <<inbox, producer_topics, held, published, printed, swallowed, lost>>
      BY <1>3 DEF send_response, clientVars
    <2> QED BY <2>1, <2>2 DEF Bounds, IsTable
  <1>4. CASE add_subscriber
    BY <1>4 DEF add_subscriber, clientVars, Bounds, IsTable
  <1>5. ASSUME NEW t \in Topics, NEW c \in Names, deliver(t, c) PROVE Bounds'
    <2> DEFINE n == subscribers[t][c].next_offset
               p == subscribers[t][c].fifo_fd
               written == p # Nil /\ fifo[p] = "open" /\ Len(pipe[p]) < PipeCap
    <2>1. /\ c \in DOMAIN subscribers[t] /\ t \in DOMAIN log /\ n < log[t]
          /\ n \in Nat /\ p \in SubPids \cup {Nil} /\ log[t] \in Nat
      BY <1>5 DEF deliver, TypeInv, IsTable, ActiveSubscriber
    <2>2. log[t] < U32 /\ U32 \in Nat
      BY <2>1, Counts, ServerAssumption DEF CountInv
    <2>3. [offset |-> n] \in Frames
      BY <2>1, <2>2 DEF Frames, Offsets
    <2>4. ASSUME NEW q \in Pids PROVE pipe'[q] \in Seq(Frames) /\ Len(pipe'[q]) <= PipeCap
      <3>1. CASE pipe'[q] = pipe[q]
        BY <1>p, <3>1
      <3>2. CASE pipe'[q] # pipe[q]
        <4>1. pipe'[q] = Append(pipe[q], [offset |-> n]) /\ Holds(t, c, q)
          BY <1>5, <3>2, DeliverTarget
        <4>2. Len(pipe[q]) < PipeCap
          BY <1>5, <3>2, <4>1 DEF deliver, Holds
        <4> QED BY <1>2, <2>3, <4>1, <4>2
      <3> QED BY <3>1, <3>2
    <2>5. lost' \in {lost, lost \cup {p}} /\ (p = Nil => lost' = lost)
      BY <1>5 DEF deliver
    <2>6. lost' \subseteq SubPids
      BY <2>1, <2>5 DEF Bounds
    <2>7. UNCHANGED <<inbox, producer_topics, held, published, printed, swallowed>>
      BY <1>5 DEF deliver, clientVars
    <2> QED BY <2>4, <2>6, <2>7 DEF Bounds, IsTable
  <1>6. ASSUME NEW r, Send(r), inbox' \in Seq(Requests) PROVE Len(inbox') <= InboxCap
    <2>1. Len(inbox') = Len(inbox) + 1
      <3>1. inbox' = Append(inbox, r)
        BY <1>6 DEF Send
      <3> QED BY <1>t, <3>1
    <2> QED BY <1>n, <1>6, <2>1 DEF Send, CanSend
  <1>7. ASSUME NEW p, NEW command, NEW request, Starts(p, command, request) PROVE Bounds'
    <2>1. Send(request) /\ UNCHANGED <<producer_topics, pipe, held, published, printed, swallowed, lost>>
      BY <1>7 DEF Starts, start
    <2>2. Len(inbox') <= InboxCap
      BY <1>6, <1>t, <2>1 DEF TypeInv
    <2> QED BY <2>1, <2>2 DEF Bounds, IsTable
  <1>8. ASSUME NEW p \in Pids, ClientAction(p) PROVE Bounds'
    <2>1. Continues(p)
      BY <1>8, ClientContinues
    <2>2. producer_topics' = producer_topics /\ lost' = lost
      BY <2>1 DEF Continues
    <2>3. Len(inbox') <= InboxCap
      <3>1. CASE inbox' = inbox
        BY <3>1 DEF Bounds
      <3>2. CASE \E r : Send(r)
        BY <1>6, <1>t, <3>2 DEF TypeInv
      <3> QED BY <1>8, <3>1, <3>2 DEF ClientAction, Goes, Misfortune, read_response, consume, ack,
            close_fd, unlink_fifo, time_out, disconnect, output_error, crash, publish, serverVars
    <2>4. ASSUME NEW q \in Pids PROVE pipe'[q] \in Seq(Frames) /\ Len(pipe'[q]) <= PipeCap
      <3>1. CASE pipe'[q] = pipe[q]
        BY <1>p, <3>1
      <3>2. CASE pipe[q] # <<>> /\ pipe'[q] = Tail(pipe[q])
        <4>1. pipe'[q] \in Seq(Frames) /\ Len(pipe'[q]) = Len(pipe[q]) - 1
          BY <1>p, <3>2, TailAt
        <4> QED BY <1>n, <1>p, <4>1
      <3>3. CASE pipe'[q] = <<>>
        <4>1. <<>> \in Seq(Frames) /\ Len(<<>>) = 0
          BY EmptySeq
        <4> QED BY <1>n, <3>3, <4>1
      <3>4. DOMAIN pipe = Pids
        BY DEF TypeInv
      <3>5. pipe'[q] = pipe[q] \/ (pipe[q] # <<>> /\ pipe'[q] = Tail(pipe[q])) \/ pipe'[q] = <<>>
        BY <1>8, <3>4 DEF ClientAction, Goes, Misfortune, read_response, consume, ack,
             close_fd, unlink_fifo, time_out, disconnect, output_error, crash, publish, serverVars
      <3> QED BY <3>1, <3>2, <3>3, <3>5
    <2>5. CASE UNCHANGED <<held, published, printed, swallowed>>
      BY <2>2, <2>3, <2>4, <2>5 DEF Bounds, IsTable
    <2>6. CASE consume(p)
      <3> DEFINE o == Head(pipe[p]).offset
                 c == cmd[p].client
                 t == cmd[p].topic
      <3>1. pc[p] = "consume" /\ pipe[p] # <<>>
        BY <2>6 DEF consume
      <3>2. Head(pipe[p]) \in Delivery /\ Head(pipe[p]) \in Frames
        BY <1>p, <3>1, ReadsDelivery, TailAt
      <3>3. o \in Offsets
        BY <3>2 DEF Frames, Delivery
      <3>4. held' = [held EXCEPT ![p] = o] /\ published' = published
            /\ \/ /\ printed' = [printed EXCEPT ![c] = [printed[c] EXCEPT ![t] = printed[c][t] \cup {o}]]
                  /\ swallowed' = swallowed
               \/ printed' = printed /\ swallowed' = swallowed \cup {<<p, c, o>>}
        BY <2>6 DEF consume, Prints, Swallows
      <3>5. c \in Names /\ t \in Topics /\ p \in SubPids
        BY <3>1 DEF ShapeInv, Listening, SubscribeCommands
      <3> HIDE DEF o, c, t
      <3>6. held' \in [SubPids -> Offsets \cup {Nil}]
        BY <3>3, <3>4 DEF Bounds
      <3>7. /\ printed' \in [Names -> [Topics -> SUBSET Offsets]]
            /\ swallowed' \subseteq SubPids \X Names \X Offsets
        <4>1. /\ printed \in [Names -> [Topics -> SUBSET Offsets]]
              /\ swallowed \subseteq SubPids \X Names \X Offsets
          BY DEF Bounds
        <4>2. CASE /\ printed' = [printed EXCEPT ![c] = [printed[c] EXCEPT ![t] = printed[c][t] \cup {o}]]
                   /\ swallowed' = swallowed
          BY <3>3, <3>5, <4>1, <4>2
        <4>3. CASE printed' = printed /\ swallowed' = swallowed \cup {<<p, c, o>>}
          BY <3>3, <3>5, <4>1, <4>3
        <4> QED BY <3>4, <4>2, <4>3
      <3> QED BY <2>2, <2>3, <2>4, <3>4, <3>6, <3>7 DEF Bounds, IsTable
    <2>7. CASE ack(p)
      <3>1. /\ held' = [held EXCEPT ![p] = Nil] /\ printed' = printed /\ published' = published
            /\ swallowed' = swallowed
        BY <2>7 DEF ack
      <3>2. held' \in [SubPids -> Offsets \cup {Nil}]
        BY <3>1 DEF Bounds
      <3> QED BY <2>2, <2>3, <2>4, <3>1, <3>2 DEF Bounds, IsTable
    <2>8. CASE p \in ProdPids /\ publish(p)
      <3>1. /\ published[p] < MaxPublish /\ published' = [published EXCEPT ![p] = published[p] + 1]
            /\ held' = held /\ printed' = printed /\ swallowed' = swallowed
        BY <2>8 DEF publish
      <3>2. published' \in [ProdPids -> 0 .. MaxPublish]
        BY <2>8, <3>1, ServerAssumption DEF Bounds
      <3> QED BY <2>2, <2>3, <2>4, <3>1, <3>2 DEF Bounds, IsTable
    <2> QED BY <1>8, <2>5, <2>6, <2>7, <2>8 DEF ClientAction, Goes, Misfortune, read_response,
          close_fd, unlink_fifo, time_out, disconnect, output_error, crash
  <1>9. CASE UNCHANGED vars
    BY <1>9 DEF vars, serverVars, clientVars, Bounds, IsTable
  <1> QED BY <1>1, <1>3, <1>4, <1>5, <1>7, <1>8, <1>9, StepKinds

(* The bounds hold at the start: nothing is queued, logged or sent. *)
LEMMA InitBounds ==
  ASSUME Init
  PROVE  BoundInv
  <1>1. BaseInv
    BY InitInv DEF ServerInv
  <1>2. Bounds
    <2>1. Len(inbox) <= InboxCap
      BY ServerAssumption DEF Init
    <2>2. IsTable(producer_topics, ProdPids, Topics)
      BY DEF Init, Nobody, IsTable
    <2>3. \A p \in Pids : pipe[p] \in Seq(Frames) /\ Len(pipe[p]) <= PipeCap
      BY EmptySeq, ServerAssumption DEF Init
    <2>4. printed \in [Names -> [Topics -> SUBSET Offsets]] /\ swallowed = {}
      BY DEF Init
    <2> QED BY <2>1, <2>2, <2>3, <2>4, ServerAssumption DEF Init, Bounds
  <1>3. CountInv
    <2>1. Produced = {}
      BY DEF Init, Produced
    <2>2. Cardinality(Produced) = 0 /\ Cardinality(Sent) \in Nat
      BY <1>1, <2>1, FS_EmptySet, Counts DEF BaseInv
    <2> QED BY <2>2 DEF Init, CountInv
  <1> QED BY <1>1, <1>2, <1>3 DEF BoundInv

(* Every variable keeps its type: the request FIFO and the client FIFOs    *)
(* hold no more than their capacity, although send_response writes without *)
(* looking at the space left, and the offsets the workers put into the     *)
(* deliveries stay below 2^32, so that they never wrap.                    *)
THEOREM ServerTypes == Spec => []TypeOK
  <1>1. Init => BoundInv
    BY InitBounds
  <1>2. BoundInv /\ [Next]_vars => BoundInv'
    <2> SUFFICES ASSUME BoundInv, [Next]_vars PROVE BoundInv'
      OBVIOUS
    <2>1. BaseInv'
      BY TypeStep, ShapeStep, FifoStep, PhaseStep, ResponseStep DEF BoundInv, BaseInv
    <2> QED BY <2>1, BoundsStep, CountStep DEF BoundInv
  <1>3. BoundInv => TypeOK
    BY DEF BoundInv, BaseInv, TypeInv, Bounds, TypeOK, PCs
  <1> QED BY <1>1, <1>2, <1>3, PTL DEF Spec
=============================================================================
