------------------------------- MODULE Server --------------------------------
(***************************************************************************)
(* The broker and its clients: the main thread of server/src/Server.cpp    *)
(* with its tables, the request FIFO every client writes to, and the       *)
(* client processes (client/src) with the FIFO each of them reads from.    *)
(*                                                                         *)
(* The topics appear as PubSub describes them and Topic implements them: a *)
(* log and, per subscriber name, a descriptor and a cursor that the worker *)
(* moves one message at a time.  Every message matches (prefixes are in    *)
(* Topic), so a log is its length.                                         *)
(*                                                                         *)
(* The main thread handles one request at a time, but it gives way to the  *)
(* clients wherever it opens a FIFO: a request is a first action up to     *)
(* send_response, then the response, then, for SUBSCRIBE, add_subscriber.  *)
(* Names have been validated by the client (client/src/command.cpp) with   *)
(* the rule the server applies again, so that check never fails here.      *)
(***************************************************************************)
EXTENDS Integers, Sequences, FiniteSets

CONSTANTS
  Names,          \* subscriber names (client_id)
  Topics,         \* topic names
  InitialTopics,  \* topics that exist when the run begins
  SubPids,        \* processes that run "client ... subscribe"
  RawPids,        \* those of them with --raw
  ProdPids,       \* processes that run "client ... produce"
  AdminPids,      \* processes that run "client ... create | list | info"
  Nil,
  U32,            \* 2^32
  MaxPublish,     \* bound on the messages a producer publishes
  InboxCap,       \* requests that fit the request FIFO
  PipeCap,        \* frames that fit a client FIFO
  Mishaps         \* what may befall a client: subset of Mischances

Pids == SubPids \cup ProdPids \cup AdminPids
Mischances == {"crash", "timeout", "output", "interrupt"}

ASSUME ServerAssumption ==
  /\ InitialTopics \subseteq Topics /\ RawPids \subseteq SubPids
  /\ U32 \in Nat \ {0} /\ MaxPublish \in Nat
  /\ IsFiniteSet(ProdPids)
  /\ MaxPublish * Cardinality(ProdPids) < U32   \* offsets do not wrap
  /\ InboxCap \in Nat \ {0} /\ PipeCap \in Nat \ {0}
  /\ Mishaps \subseteq Mischances
  /\ Nil \notin Names \cup Topics \cup Pids
  (* A process runs one command. *)
  /\ SubPids \cap ProdPids = {} /\ SubPids \cap AdminPids = {} /\ ProdPids \cap AdminPids = {}

Offsets == 0 .. U32 - 1

OFFSET_UNSET == U32 - 1

VARIABLES
  inbox,            \* requests in the server FIFO or in recv_buf, in order
  main,             \* what the main thread is in the middle of
  log,              \* topics that exist, with the length of their log
  client_index,     \* HashMap client_id -> ClientMetadata
  producer_topics,  \* HashMap pid -> topic
  subscribers,      \* per topic: HashMap client_id -> descriptor and cursor
  fifo,             \* per process: its FIFO in /tmp
  pipe,             \* per process: the frames in its FIFO
  pc,               \* per process: where it stands
  cmd,              \* per process: its command line, but for --offset
  held,             \* per subscriber process: the offset it has in hand
  published,        \* per producer: messages sent so far
  printed,          \* per name and topic: offsets some process has output
  swallowed,        \* process, name and offset of what was lost unnoticed
  asked,            \* per name: the highest --offset some process used
  lost              \* processes dropped by the topic though they were alive

serverVars == <<inbox, main, log, client_index, producer_topics, subscribers>>
clientVars == <<pc, cmd, held, published, printed, swallowed>>
vars == <<serverVars, clientVars, fifo, pipe, asked, lost>>

Commands ==
  [type : {"SUBSCRIBE"}, client : Names, topic : Topics]
  \cup [type : {"CONNECT", "CREATE"}, topic : Topics]
  \cup [type : {"LIST"}] \cup [type : {"INFO"}, client : Names]

Requests ==
  [type : {"SUBSCRIBE"}, pid : SubPids, client : Names, topic : Topics,
   offset : Offsets]
  \cup [type : {"ACK"}, client : Names, offset : Offsets]
  \cup [type : {"DISCONNECT"}, client : Names]
  \cup [type : {"CONNECT"}, pid : ProdPids, topic : Topics]
  \cup [type : {"CREATE"}, pid : AdminPids, topic : Topics]
  \cup [type : {"PRODUCE"}, topic : Topics]
  \cup [type : {"LIST"}, pid : AdminPids]
  \cup [type : {"INFO"}, pid : AdminPids, client : Names]

ClientMetadata ==
  [topic : Topics, offset : Offsets, ipc_path : SubPids, is_active : BOOLEAN]
ActiveSubscriber == [fifo_fd : SubPids \cup {Nil}, next_offset : Nat]
Attachment == [client : Names, topic : Topics, start : Offsets]

ASSUME NilAssumption == Nil \notin Offsets /\ Nil \notin Commands /\ Nil \notin Attachment

Status == {"SUCCESS", "TOPIC_CLIENT_ERR"}

(* Where the main thread stands; a subscriber that is accepted is attached *)
(* after it has been answered.                                             *)
Mains ==
  [at : {"idle"}]
  \cup [at : {"respond", "blocked"}, pid : Pids, status : Status, attach : {Nil}]
  \cup [at : {"respond", "blocked"}, pid : SubPids, status : {"SUCCESS"},
        attach : Attachment]
  \cup [at : {"attach"}, pid : SubPids, attach : Attachment]

Frames == [status : Status] \cup [offset : Offsets]
IsResponse(f) == f \in [status : Status]

(* f is a table with keys in S and values in T. *)
IsTable(f, S, T) == DOMAIN f \subseteq S /\ \A x \in DOMAIN f : f[x] \in T

TypeOK ==
  /\ inbox \in Seq(Requests) /\ Len(inbox) <= InboxCap
  /\ main \in Mains
  /\ IsTable(log, Topics, Nat)
  /\ IsTable(client_index, Names, ClientMetadata)
  /\ IsTable(producer_topics, ProdPids, Topics)
  /\ DOMAIN subscribers = Topics
  /\ \A t \in Topics : IsTable(subscribers[t], Names, ActiveSubscriber)
  /\ fifo \in [Pids -> {"none", "open", "orphan"}]
  /\ pipe \in [Pids -> Seq(Frames)] /\ \A p \in Pids : Len(pipe[p]) <= PipeCap
  /\ pc \in [Pids -> {"new", "wait", "consume", "ack", "publish", "closing",
                      "unlinking", "exited", "crashed"}]
  /\ cmd \in [Pids -> Commands \cup {Nil}]
  /\ held \in [SubPids -> Offsets \cup {Nil}]
  /\ published \in [ProdPids -> 0 .. MaxPublish]
  /\ printed \in [Names -> [Topics -> SUBSET Offsets]]
  /\ swallowed \subseteq SubPids \X Names \X Offsets
  /\ asked \in [Names -> Offsets]
  /\ lost \subseteq SubPids

Idle == [at |-> "idle"]
Nobody == [x \in {} |-> Nil]

Init ==
  /\ inbox = <<>> /\ main = Idle
  /\ log = [t \in InitialTopics |-> 0]
  /\ client_index = Nobody /\ producer_topics = Nobody
  /\ subscribers = [t \in Topics |-> Nobody]
  /\ fifo = [p \in Pids |-> "none"]
  /\ pipe = [p \in Pids |-> <<>>]
  /\ pc = [p \in Pids |-> "new"]
  /\ cmd = [p \in Pids |-> Nil]
  /\ held = [p \in SubPids |-> Nil]
  /\ published = [p \in ProdPids |-> 0]
  /\ printed = [c \in Names |-> [t \in Topics |-> {}]]
  /\ swallowed = {}
  /\ asked = [c \in Names |-> 0]
  /\ lost = {}

(* HashMap::insert_or_assign and erase. *)
Put(f, k, v) == [x \in DOMAIN f \cup {k} |-> IF x = k THEN v ELSE f[x]]
Erase(f, k) == [x \in DOMAIN f \ {k} |-> f[x]]
-----------------------------------------------------------------------------
(* The main thread: Server::run takes one frame off recv_buf and handles   *)
(* it before it looks at the next one.                                     *)

Handles(type) ==
  /\ main.at = "idle" /\ inbox # <<>> /\ Head(inbox).type = type
  /\ inbox' = Tail(inbox)
  /\ UNCHANGED <<clientVars, fifo, pipe>>

Respond(p, status) ==
  main' = [at |-> "respond", pid |-> p, status |-> status, attach |-> Nil]

handle_create ==
  LET r == Head(inbox)
  IN  /\ Handles("CREATE")
      /\ IF r.topic \in DOMAIN log
         THEN log' = log /\ Respond(r.pid, "TOPIC_CLIENT_ERR")
         ELSE log' = Put(log, r.topic, 0) /\ Respond(r.pid, "SUCCESS")
      /\ UNCHANGED <<client_index, producer_topics, subscribers, asked, lost>>

(* The answers to LIST and INFO only read the tables. *)
handle_list ==
  /\ Handles("LIST")
  /\ Respond(Head(inbox).pid, "SUCCESS")
  /\ UNCHANGED <<log, client_index, producer_topics, subscribers, asked, lost>>

(* Mutant: no response for an unknown client. *)
handle_info_Silent ==
  LET r == Head(inbox)
  IN  /\ Handles("INFO")
      /\ IF r.client \in DOMAIN client_index THEN Respond(r.pid, "SUCCESS")
         ELSE main' = main
      /\ UNCHANGED <<log, client_index, producer_topics, subscribers, asked, lost>>

handle_info ==
  LET r == Head(inbox)
  IN  /\ Handles("INFO")
      /\ Respond(r.pid, IF r.client \in DOMAIN client_index
                        THEN "SUCCESS" ELSE "TOPIC_CLIENT_ERR")
      /\ UNCHANGED <<log, client_index, producer_topics, subscribers, asked, lost>>

handle_producer_connect ==
  LET r == Head(inbox)
  IN  /\ Handles("CONNECT")
      /\ IF r.topic \in DOMAIN log
         THEN /\ producer_topics' = Put(producer_topics, r.pid, r.topic)
              /\ Respond(r.pid, "SUCCESS")
         ELSE /\ producer_topics' = producer_topics
              /\ Respond(r.pid, "TOPIC_CLIENT_ERR")
      /\ UNCHANGED <<log, client_index, subscribers, asked, lost>>

(* No response; a message for an unknown topic is dropped. *)
handle_publish ==
  LET r == Head(inbox)
  IN  /\ Handles("PRODUCE")
      /\ log' = IF r.topic \in DOMAIN log
                THEN [log EXCEPT ![r.topic] = @ + 1] ELSE log
      /\ UNCHANGED <<main, client_index, producer_topics, subscribers, asked, lost>>

(* ipc::is_reader_active: a non-blocking open for writing succeeds. *)
is_reader_active(p) == fifo[p] = "open"

(* Mutant: the duplicate check is missing. *)
DuplicateUnchecked(c) == FALSE

(* The name is taken by a process that is still there. *)
Duplicate(c) ==
  /\ c \in DOMAIN client_index
  /\ client_index[c].is_active /\ is_reader_active(client_index[c].ipc_path)

(* Mutant: a new name starts at the end of the log. *)
StartAtEnd(r) ==
  IF r.offset # OFFSET_UNSET THEN r.offset
  ELSE IF r.client \in DOMAIN client_index THEN client_index[r.client].offset
  ELSE log[r.topic]

(* Where the delivery starts: as requested, else as last committed. *)
StartOffset(r) ==
  IF r.offset # OFFSET_UNSET THEN r.offset
  ELSE IF r.client \in DOMAIN client_index THEN client_index[r.client].offset
  ELSE 0

(* Mutant: the subscriber is attached before it is answered. *)
handle_subscriber_connect_AttachFirst ==
  LET r == Head(inbox)
  IN  /\ Handles("SUBSCRIBE")
      /\ r.topic \in DOMAIN log /\ ~Duplicate(r.client)
      /\ client_index' =
           Put(client_index, r.client,
               [topic |-> r.topic, offset |-> StartOffset(r),
                ipc_path |-> r.pid, is_active |-> TRUE])
      /\ subscribers' = [subscribers EXCEPT ![r.topic] =
                           Put(@, r.client, [fifo_fd |-> r.pid,
                                             next_offset |-> StartOffset(r)])]
      /\ Respond(r.pid, "SUCCESS")
      /\ UNCHANGED <<log, producer_topics, asked, lost>>

handle_subscriber_connect ==
  LET r == Head(inbox)
      start == StartOffset(r)
  IN  /\ Handles("SUBSCRIBE")
      /\ IF r.topic \notin DOMAIN log \/ Duplicate(r.client)
         THEN /\ Respond(r.pid, "TOPIC_CLIENT_ERR")
              /\ UNCHANGED <<client_index, asked>>
         ELSE /\ client_index' =
                   Put(client_index, r.client,
                       [topic |-> r.topic, offset |-> start,
                        ipc_path |-> r.pid, is_active |-> TRUE])
              /\ main' = [at |-> "respond", pid |-> r.pid, status |-> "SUCCESS",
                          attach |-> [client |-> r.client, topic |-> r.topic,
                                      start |-> start]]
              /\ asked' = IF r.offset # OFFSET_UNSET /\ r.offset > asked[r.client]
                          THEN [asked EXCEPT ![r.client] = r.offset] ELSE asked
      /\ UNCHANGED <<log, producer_topics, subscribers, lost>>

handle_commit ==
  LET r == Head(inbox)
  IN  /\ Handles("ACK")
      /\ client_index' = IF r.client \in DOMAIN client_index
                         THEN [client_index EXCEPT ![r.client].offset = r.offset]
                         ELSE client_index
      /\ UNCHANGED <<main, log, producer_topics, subscribers, asked, lost>>

(* The entry of the name goes, whoever holds the name by now. *)
handle_disconnect ==
  LET c == Head(inbox).client
      t == client_index[c].topic
  IN  /\ Handles("DISCONNECT")
      /\ IF c \in DOMAIN client_index
         THEN /\ client_index' = [client_index EXCEPT ![c].is_active = FALSE]
              /\ subscribers' = [subscribers EXCEPT ![t] = Erase(@, c)]
              /\ lost' = IF c \in DOMAIN subscribers[t]
                         THEN (lost \cup {subscribers[t][c].fifo_fd}) \ {Nil}
                         ELSE lost
         ELSE UNCHANGED <<client_index, subscribers, lost>>
      /\ UNCHANGED <<main, log, producer_topics, asked>>

(* Mutant: the subscriber is answered and never attached. *)
AfterResponseForgets == Idle

(* What the main thread does once the response is out of its hands. *)
AfterResponse ==
  IF main.attach = Nil THEN Idle
  ELSE [at |-> "attach", pid |-> main.pid, attach |-> main.attach]

(* send_response: open() fails if the FIFO is gone, and blocks, for good,  *)
(* if the FIFO is there and nobody has it open.                            *)
send_response ==
  /\ main.at = "respond"
  /\ \/ /\ fifo[main.pid] = "open"
        /\ pipe' = [pipe EXCEPT ![main.pid] = Append(@, [status |-> main.status])]
        /\ main' = AfterResponse
     \/ /\ fifo[main.pid] = "none"
        /\ main' = AfterResponse /\ pipe' = pipe
     \/ /\ fifo[main.pid] = "orphan"
        /\ main' = [main EXCEPT !.at = "blocked"] /\ pipe' = pipe
  /\ UNCHANGED <<inbox, log, client_index, producer_topics, subscribers,
                 clientVars, fifo, asked, lost>>

(* Topic::add_subscriber: an old entry goes even if the FIFO cannot be     *)
(* opened any more.                                                        *)
add_subscriber ==
  LET c == main.attach.client
      t == main.attach.topic
  IN  /\ main.at = "attach"
      /\ subscribers' =
           [subscribers EXCEPT ![t] =
              IF fifo[main.pid] = "open"
              THEN Put(@, c, [fifo_fd |-> main.pid,
                              next_offset |-> main.attach.start])
              ELSE Erase(@, c)]
      /\ main' = Idle
      /\ UNCHANGED <<inbox, log, client_index, producer_topics, clientVars,
                     fifo, pipe, asked, lost>>
-----------------------------------------------------------------------------
(* The topic workers, one message at a time (Topic.tla has the passes).    *)

deliver(t, c) ==
  /\ t \in DOMAIN log /\ c \in DOMAIN subscribers[t]
  /\ LET sub == subscribers[t][c]
         p == sub.fifo_fd
         written == p # Nil /\ fifo[p] = "open" /\ Len(pipe[p]) < PipeCap
     IN  /\ sub.next_offset < log[t]
         /\ pipe' = IF written
                    THEN [pipe EXCEPT ![p] = Append(@, [offset |-> sub.next_offset])]
                    ELSE pipe
         /\ lost' = IF written \/ p = Nil THEN lost ELSE lost \cup {p}
         /\ subscribers' =
              [subscribers EXCEPT ![t][c] =
                 [fifo_fd |-> IF written THEN p ELSE Nil,
                  next_offset |-> sub.next_offset + 1]]
  /\ UNCHANGED <<inbox, main, log, client_index, producer_topics, clientVars,
                 fifo, asked>>
-----------------------------------------------------------------------------
(* The client processes.                                                   *)

CanSend == Len(inbox) < InboxCap
Send(r) == CanSend /\ inbox' = Append(inbox, r)

(* Mutant: the request is sent before the FIFO is opened to read. *)
start_OpensLater(p, command, request) ==
  /\ pc[p] = "new"
  /\ pc' = [pc EXCEPT ![p] = "wait"]
  /\ cmd' = [cmd EXCEPT ![p] = command]
  /\ fifo' = [fifo EXCEPT ![p] = "orphan"]
  /\ Send(request)
  /\ UNCHANGED <<main, log, client_index, producer_topics, subscribers, pipe,
                 held, published, printed, swallowed, asked, lost>>

(* FifoReader::create, FifoWriter::open and the request. *)
start(p, command, request) ==
  /\ pc[p] = "new"
  /\ pc' = [pc EXCEPT ![p] = "wait"]
  /\ cmd' = [cmd EXCEPT ![p] = command]
  /\ fifo' = [fifo EXCEPT ![p] = "open"]
  /\ Send(request)
  /\ UNCHANGED <<main, log, client_index, producer_topics, subscribers, pipe,
                 held, published, printed, swallowed, asked, lost>>

(* No --offset travels as OFFSET_UNSET. *)
subscribe(p, c, t, offset) ==
  start(p,
    [type |-> "SUBSCRIBE", client |-> c, topic |-> t],
    [type |-> "SUBSCRIBE", pid |-> p, client |-> c, topic |-> t,
     offset |-> IF offset = Nil THEN OFFSET_UNSET ELSE offset])

produce(p, t) ==
  start(p, [type |-> "CONNECT", topic |-> t],
           [type |-> "CONNECT", pid |-> p, topic |-> t])

manage(p) ==
  \/ \E t \in Topics : start(p, [type |-> "CREATE", topic |-> t],
                                [type |-> "CREATE", pid |-> p, topic |-> t])
  \/ start(p, [type |-> "LIST"], [type |-> "LIST", pid |-> p])
  \/ \E c \in Names : start(p, [type |-> "INFO", client |-> c],
                               [type |-> "INFO", pid |-> p, client |-> c])

(* The process reads the header of its response: a subscriber goes on to   *)
(* consume, a producer closes its FIFO and publishes, the others return.   *)
read_response(p) ==
  /\ pc[p] = "wait" /\ pipe[p] # <<>>
  /\ pipe' = [pipe EXCEPT ![p] = Tail(@)]
  /\ pc' = [pc EXCEPT ![p] =
              IF Head(pipe[p]) = [status |-> "SUCCESS"] /\ p \in SubPids
              THEN "consume" ELSE "closing"]
  /\ cmd' = [cmd EXCEPT ![p] =
              IF Head(pipe[p]) # [status |-> "SUCCESS"] THEN Nil ELSE @]
  /\ UNCHANGED <<serverVars, fifo, held, published, printed, swallowed, asked, lost>>

(* Nothing came for two seconds. *)
time_out(p) ==
  /\ "timeout" \in Mishaps
  /\ pc[p] = "wait" /\ pipe[p] = <<>>
  /\ pc' = [pc EXCEPT ![p] = "closing"]
  /\ cmd' = [cmd EXCEPT ![p] = Nil]
  /\ UNCHANGED <<serverVars, fifo, pipe, held, published, printed, swallowed, asked, lost>>

(* Mutant: the delivery is acknowledged without being printed. *)
consume_Silent(p) ==
  /\ pc[p] = "consume" /\ pipe[p] # <<>>
  /\ pc' = [pc EXCEPT ![p] = "ack"]
  /\ pipe' = [pipe EXCEPT ![p] = Tail(@)]
  /\ held' = [held EXCEPT ![p] = Head(pipe[p]).offset]
  /\ UNCHANGED <<serverVars, fifo, cmd, published, printed, swallowed, asked, lost>>

(* The stream of process p has failed: it stays so. *)
OutputFailed(p) == \E e \in swallowed : e[1] = p

Prints(p, o) ==
  /\ ~OutputFailed(p)
  /\ printed' = [printed EXCEPT ![cmd[p].client][cmd[p].topic] = @ \cup {o}]
  /\ swallowed' = swallowed

(* Nobody looks at the state of std::cout after a text << or after flush():*)
(* a failure there goes unnoticed, and in text mode every later one too.   *)
Swallows(p, o) ==
  /\ "output" \in Mishaps
  /\ p \in RawPids => ~OutputFailed(p)
  /\ swallowed' = swallowed \cup {<<p, cmd[p].client, o>>}
  /\ printed' = printed

(* A delivery is read and output, then acknowledged. *)
consume(p) ==
  /\ pc[p] = "consume" /\ pipe[p] # <<>>
  /\ pc' = [pc EXCEPT ![p] = "ack"]
  /\ pipe' = [pipe EXCEPT ![p] = Tail(@)]
  /\ held' = [held EXCEPT ![p] = Head(pipe[p]).offset]
  /\ \/ Prints(p, Head(pipe[p]).offset)
     \/ Swallows(p, Head(pipe[p]).offset)
  /\ UNCHANGED <<serverVars, fifo, cmd, published, asked, lost>>

ack(p) ==
  /\ pc[p] = "ack"
  /\ Send([type |-> "ACK", client |-> cmd[p].client,
           offset |-> (held[p] + 1) % U32])
  /\ held' = [held EXCEPT ![p] = Nil]
  /\ pc' = [pc EXCEPT ![p] = "consume"]
  /\ UNCHANGED <<main, log, client_index, producer_topics, subscribers, fifo,
                 pipe, cmd, published, printed, swallowed, asked, lost>>

(* SIGINT: the loop sends DISCONNECT and returns. *)
disconnect(p) ==
  /\ "interrupt" \in Mishaps
  /\ pc[p] = "consume"
  /\ Send([type |-> "DISCONNECT", client |-> cmd[p].client])
  /\ pc' = [pc EXCEPT ![p] = "closing"]
  /\ UNCHANGED <<main, log, client_index, producer_topics, subscribers, fifo,
                 pipe, cmd, held, published, printed, swallowed, asked, lost>>

(* write_raw_message fails: the process returns without an ACK and without *)
(* a DISCONNECT.                                                           *)
output_error(p) ==
  /\ "output" \in Mishaps /\ p \in RawPids
  /\ pc[p] = "consume" /\ pipe[p] # <<>>
  /\ pc' = [pc EXCEPT ![p] = "closing"]
  /\ pipe' = [pipe EXCEPT ![p] = Tail(@)]
  /\ UNCHANGED <<serverVars, fifo, cmd, held, published, printed, swallowed, asked, lost>>

(* FifoReader::close: the descriptor first, the file after it. *)
close_fd(p) ==
  /\ pc[p] = "closing"
  /\ pc' = [pc EXCEPT ![p] = "unlinking"]
  /\ fifo' = [fifo EXCEPT ![p] = "orphan"]
  /\ pipe' = [pipe EXCEPT ![p] = <<>>]
  /\ UNCHANGED <<serverVars, cmd, held, published, printed, swallowed, asked, lost>>

unlink_fifo(p) ==
  /\ pc[p] = "unlinking"
  /\ pc' = [pc EXCEPT ![p] = IF p \in ProdPids /\ cmd[p] # Nil
                             THEN "publish" ELSE "exited"]
  /\ fifo' = [fifo EXCEPT ![p] = "none"]
  /\ UNCHANGED <<serverVars, pipe, cmd, held, published, printed, swallowed, asked, lost>>

publish(p) ==
  /\ pc[p] = "publish" /\ published[p] < MaxPublish
  /\ Send([type |-> "PRODUCE", topic |-> cmd[p].topic])
  /\ published' = [published EXCEPT ![p] = @ + 1]
  /\ UNCHANGED <<main, log, client_index, producer_topics, subscribers, fifo,
                 pipe, pc, cmd, held, printed, swallowed, asked, lost>>

(* SIGKILL: the FIFO stays in /tmp with nobody to read it. *)
crash(p) ==
  /\ "crash" \in Mishaps
  /\ pc[p] \notin {"new", "exited", "crashed"}
  /\ pc' = [pc EXCEPT ![p] = "crashed"]
  /\ fifo' = [fifo EXCEPT ![p] = IF @ = "open" THEN "orphan" ELSE @]
  /\ pipe' = [pipe EXCEPT ![p] = <<>>]
  /\ UNCHANGED <<serverVars, cmd, held, published, printed, swallowed, asked, lost>>
-----------------------------------------------------------------------------
MainThread ==
  \/ handle_create \/ handle_list \/ handle_info \/ handle_producer_connect
  \/ handle_publish \/ handle_subscriber_connect \/ handle_commit
  \/ handle_disconnect \/ send_response \/ add_subscriber

Workers == \E t \in Topics, c \in Names : deliver(t, c)

Launch ==
  \/ \E p \in SubPids, c \in Names, t \in Topics, offset \in Offsets \cup {Nil} :
       subscribe(p, c, t, offset)
  \/ \E p \in ProdPids, t \in Topics : produce(p, t)
  \/ \E p \in AdminPids : manage(p)

Goes(p) ==
  \/ read_response(p) \/ consume(p) \/ output_error(p) \/ ack(p)
  \/ close_fd(p) \/ unlink_fifo(p)

Misfortune(p) == time_out(p) \/ disconnect(p) \/ crash(p)

Next ==
  \/ MainThread \/ Workers \/ Launch
  \/ \E p \in Pids : Goes(p) \/ Misfortune(p)
  \/ \E p \in ProdPids : publish(p)

Spec == Init /\ [][Next]_vars

(* Every thread and process that can go on does; nobody has to start, to   *)
(* publish, to be interrupted or to fail.                                  *)
Fairness ==
  /\ WF_vars(MainThread)
  /\ \A t \in Topics, c \in Names : WF_vars(deliver(t, c))
  /\ \A p \in Pids : WF_vars(Goes(p))

FairSpec == Spec /\ Fairness
-----------------------------------------------------------------------------
(* Correctness.                                                            *)

(* A descriptor some topic holds, of a process that still reads. *)
LiveEntries ==
  {e \in Topics \X Names :
     /\ e[2] \in DOMAIN subscribers[e[1]]
     /\ subscribers[e[1]][e[2]].fifo_fd # Nil
     /\ fifo[subscribers[e[1]][e[2]].fifo_fd] = "open"}

(* A process that receives from any topic is the one client_index names,   *)
(* as active and on that topic: the duplicate check of                     *)
(* handle_subscriber_connect, re-subscriptions to other topics, late       *)
(* DISCONNECTs and timed out handshakes never leave a second live          *)
(* subscriber under a name.                                                *)
LiveSessionIndexed ==
  \A e \in LiveEntries :
    /\ e[2] \in DOMAIN client_index
    /\ client_index[e[2]].is_active
    /\ client_index[e[2]].topic = e[1]
    /\ client_index[e[2]].ipc_path = subscribers[e[1]][e[2]].fifo_fd

(* The client reads its FIFO without looking at what kind of frame comes:  *)
(* the first is the response to its request, and none of the later ones.   *)
ResponseThenDeliveries ==
  \A p \in Pids : \A i \in 1 .. Len(pipe[p]) :
    pc[p] \in {"wait", "consume", "ack"} =>
      (IsResponse(pipe[p][i]) <=> pc[p] = "wait" /\ i = 1)

(* A process that was accepted and is consuming is attached, or is about   *)
(* to be, unless its pipe was full when a message came or a DISCONNECT for *)
(* its name was handled: nothing else takes its subscription away.         *)
ConsumersStayAttached ==
  \A p \in SubPids :
    pc[p] \in {"consume", "ack"} =>
      \/ p \in lost
      \/ main.at = "attach" /\ main.pid = p
      \/ <<cmd[p].topic, cmd[p].client>> \in LiveEntries
         /\ subscribers[cmd[p].topic][cmd[p].client].fifo_fd = p

(* The offset a name resumes from skips a message nobody has seen only if  *)
(* the output of a process failed: below it, every offset was printed by a *)
(* process of that name, or lies below an offset some process explicitly   *)
(* asked for, or was acknowledged by a process of that name whose stream   *)
(* had failed.  (On some topic: the offset is kept per name, and goes with *)
(* it to another topic.)                                                   *)
CommittedWasPrinted ==
  \A c \in DOMAIN client_index :
    \A o \in 0 .. client_index[c].offset - 1 :
      \/ o < asked[c]
      \/ \E t \in Topics : o \in printed[c][t]
      \/ \E p \in SubPids : <<p, c, o>> \in swallowed

(* The main thread hangs in open() only on the FIFO of a process that has  *)
(* closed it or died before its response was written.                      *)
BlockedOnlyByDeparted ==
  main.at = "blocked" => pc[main.pid] \in {"unlinking", "exited", "publish", "crashed"}

(* Without crashes and timeouts every request that awaits a response gets  *)
(* one.                                                                    *)
RequestsAnswered == \A p \in Pids : pc[p] = "wait" ~> pc[p] # "wait"

(* What is published reaches a consuming process: it prints every message  *)
(* of its topic from its cursor on, unless it is dropped or stops, or its  *)
(* output fails.                                                           *)
PublishedIsPrinted ==
  \A p \in SubPids, o \in 0 .. MaxPublish - 1 :
    (/\ pc[p] = "consume" /\ cmd[p].topic \in DOMAIN log /\ o < log[cmd[p].topic]
     /\ <<cmd[p].topic, cmd[p].client>> \in LiveEntries
     /\ subscribers[cmd[p].topic][cmd[p].client] =
          [fifo_fd |-> p, next_offset |-> o])
      ~> (\/ p \in lost \/ pc[p] \notin {"consume", "ack"} \/ OutputFailed(p)
          \/ o \in printed[cmd[p].client][cmd[p].topic])
=============================================================================
