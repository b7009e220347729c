------------------------------ MODULE Shutdown -------------------------------
(***************************************************************************)
(* Termination of the broker by SIGINT or SIGTERM (main.cpp, Server::stop, *)
(* Server::run, the destructors).  The signal handler calls Server::stop   *)
(* on the stack of the main thread, wherever that thread stands: waiting   *)
(* in read(), in the middle of a request, with or without a mutex.         *)
(*                                                                         *)
(* The main thread is therefore a stack of steps: todo lists what it has   *)
(* yet to do, a signal puts the handler in front of it, and what was       *)
(* interrupted goes on when the handler returns.  A request is reduced to  *)
(* the mutexes it takes and what it does to the topics (Server.tla and     *)
(* Topic.tla have the rest).  A client may have departed when it is        *)
(* answered, so that the open of its FIFO blocks, and any write of a topic *)
(* to a subscriber may fail.  Every process subscribes under its own name. *)
(***************************************************************************)
EXTENDS Integers, Sequences, FiniteSets

CONSTANTS
  Topics,
  InitialTopics,  \* topics that exist when the run begins
  Procs,          \* subscriber processes
  Nil,
  MaxRequests,    \* bound on the requests the clients send
  MaxSignals      \* bound on the signals

ASSUME ShutdownAssumption ==
  /\ InitialTopics \subseteq Topics
  /\ MaxRequests \in Nat /\ MaxSignals \in Nat
  /\ Nil \notin Topics \cup Procs

VARIABLES
  running,
  main,          \* the main thread: in run(), in the destructors, or gone
  todo,          \* the steps on its stack, innermost first
  inbox,         \* requests in the server FIFO
  recv_buf,      \* requests read from it and not handled yet
  requests,      \* requests sent so far
  signals,       \* signals sent so far
  server_mutex,  \* "free" or "main"
  topic_mutex,   \* per topic: "free", "main" or "worker"
  topics,        \* the topics that exist
  stop_flag, worker, backlog, entries,  \* per topic
  sub,           \* per process: how far its subscription has come
  early          \* processes that were subscribed when stop() began

topicVars == <<topics, stop_flag, worker, backlog, entries>>
mutexVars == <<server_mutex, topic_mutex>>
inputVars == <<inbox, recv_buf, requests, signals>>
vars == <<running, main, todo, inputVars, mutexVars, topicVars, sub, early>>

Ops == {"CREATE", "LIST", "CONNECT", "PRODUCE", "SUBSCRIBE", "COMMIT",
        "DISCONNECT"}
Request ==
  [op : {"SUBSCRIBE", "DISCONNECT"}, t : Topics, p : Procs]
  \cup [op : Ops \ {"SUBSCRIBE", "DISCONNECT"}, t : Topics, p : {Nil}]

(* What the steps work on: nothing, the server, a topic, a subscriber of a *)
(* topic, or the topics a loop has yet to come to.                         *)
ServerOps == {"stop", "lock_server", "shutdown_all", "close", "unlock_server",
              "respond", "blocked"}
TopicOps == {"lock_topic", "shut", "unlock_topic", "notify", "join", "create",
             "append"}
Step ==
  [op : ServerOps, t : Topics \cup {Nil}, p : Procs \cup {Nil}]
  \cup [op : TopicOps, t : Topics, p : Procs \cup {Nil}]
  \cup [op : {"accept", "attach", "detach"}, t : Topics, p : Procs]
  \cup [op : {"shutdown_rest"}, rest : SUBSET Topics]

TypeOK ==
  /\ running \in BOOLEAN
  /\ main \in {"run", "exiting", "exited"}
  /\ todo \in Seq(Step)
  /\ inbox \in Seq(Request) /\ recv_buf \in Seq(Request)
  /\ requests \in 0 .. MaxRequests /\ signals \in 0 .. MaxSignals
  /\ server_mutex \in {"free", "main"}
  /\ topic_mutex \in [Topics -> {"free", "main", "worker"}]
  /\ topics \subseteq Topics
  /\ stop_flag \in [Topics -> BOOLEAN]
  /\ worker \in [Topics -> {"none", "ready", "waiting", "deliver", "done"}]
  /\ backlog \in [Topics -> BOOLEAN]
  /\ entries \in [Topics -> SUBSET Procs]
  /\ sub \in [Procs -> {"new", "asked", "refused", "accepted", "cut", "left", "told"}]
  /\ early \subseteq Procs
  /\ \A t \in Topics : worker[t] = "deliver" <=> topic_mutex[t] = "worker"

Init ==
  /\ running = TRUE /\ main = "run" /\ todo = <<>>
  /\ inbox = <<>> /\ recv_buf = <<>> /\ requests = 0 /\ signals = 0
  /\ server_mutex = "free"
  /\ topic_mutex = [t \in Topics |-> "free"]
  /\ topics = InitialTopics
  /\ stop_flag = [t \in Topics |-> FALSE]
  /\ worker = [t \in Topics |-> IF t \in InitialTopics THEN "ready" ELSE "none"]
  /\ backlog = [t \in Topics |-> FALSE]
  /\ entries = [t \in Topics |-> {}]
  /\ sub = [p \in Procs |-> "new"]
  /\ early = {}
-----------------------------------------------------------------------------
(* The programs: which mutexes a request takes, and what it does with them. *)

Steps(ops, t, p) == [i \in 1 .. Len(ops) |-> [op |-> ops[i], t |-> t, p |-> p]]

(* Every lock_guard of the handlers; an unknown topic ends them early. *)
handle_request(r) ==
  LET found == r.t \in topics
      ops ==
        CASE r.op = "CREATE" ->
               <<"lock_server", "create", "unlock_server", "respond">>
          [] r.op = "LIST" ->
               <<"lock_server", "respond", "unlock_server">>
          [] r.op = "CONNECT" ->
               IF found THEN <<"lock_server", "unlock_server", "lock_server",
                               "unlock_server", "respond">>
                        ELSE <<"lock_server", "unlock_server", "respond">>
          [] r.op = "PRODUCE" ->
               IF found THEN <<"lock_server", "unlock_server", "lock_topic",
                               "append", "unlock_topic">>
                        ELSE <<"lock_server", "unlock_server">>
          [] r.op = "SUBSCRIBE" ->
               IF found THEN <<"lock_server", "accept", "lock_topic", "attach",
                               "unlock_topic", "unlock_server">>
                        ELSE <<"lock_server", "respond", "unlock_server">>
          [] r.op = "COMMIT" -> <<"lock_server", "unlock_server">>
          [] r.op = "DISCONNECT" ->
               <<"lock_server", "lock_topic", "detach", "unlock_topic",
                 "unlock_server">>
  IN  Steps(ops, r.t, r.p)

(* Topic::shutdown(), and what is left of it once the topic is stopped. *)
shutdown(t) == Steps(<<"lock_topic", "shut">>, t, Nil)

(* Mutant: shutdown() joins the worker inside its critical section. *)
AfterShut_Locked(t) == Steps(<<"notify", "join", "unlock_topic">>, t, Nil)

AfterShut(t) == Steps(<<"unlock_topic", "notify", "join">>, t, Nil)

(* The loop of stop() over the table of topics, with rest yet to come. *)
Loop(rest) == <<[op |-> "shutdown_rest", rest |-> rest]>>

(* Mutant: a second call does it all again. *)
stop_Repeats ==
  Steps(<<"lock_server", "shutdown_all", "close", "unlock_server">>, Nil, Nil)

(* Server::stop() from the lock on; a second call does nothing. *)
stop ==
  IF running
  THEN Steps(<<"lock_server", "shutdown_all", "close", "unlock_server">>, Nil, Nil)
  ELSE <<>>
-----------------------------------------------------------------------------
(* The steps of the main thread.                                           *)

(* Step op is on top of the stack; it is replaced by the steps new. *)
Does(op, new) ==
  /\ todo # <<>> /\ Head(todo).op = op
  /\ todo' = new \o Tail(todo)
  /\ UNCHANGED <<main, inputVars>>

T == Head(todo).t
P == Head(todo).p

(* cv.notify_all() *)
Notified(t) == IF worker[t] = "waiting" THEN "ready" ELSE worker[t]

(* running = false; the FIFO is unlinked, so the open that would have      *)
(* written the waking byte fails.                                          *)
do_stop ==
  /\ Does("stop", stop)
  /\ running' = FALSE
  /\ early' = IF running THEN {p \in Procs : sub[p] \in {"accepted", "cut"}} ELSE early
  /\ UNCHANGED <<mutexVars, topicVars, sub>>

lock_server ==
  /\ Does("lock_server", <<>>)
  /\ server_mutex = "free" /\ server_mutex' = "main"
  /\ UNCHANGED <<running, topic_mutex, topicVars, sub, early>>

unlock_server ==
  /\ Does("unlock_server", <<>>)
  /\ server_mutex' = "free"
  /\ UNCHANGED <<running, topic_mutex, topicVars, sub, early>>

lock_topic ==
  /\ Does("lock_topic", <<>>)
  /\ topic_mutex[T] = "free" /\ topic_mutex' = [topic_mutex EXCEPT ![T] = "main"]
  /\ UNCHANGED <<running, server_mutex, topicVars, sub, early>>

unlock_topic ==
  /\ Does("unlock_topic", <<>>)
  /\ topic_mutex' = [topic_mutex EXCEPT ![T] = "free"]
  /\ UNCHANGED <<running, server_mutex, topicVars, sub, early>>

(* The loop over the table begins; it takes the topics in any order. *)
shutdown_all ==
  /\ Does("shutdown_all", Loop(topics))
  /\ UNCHANGED <<running, mutexVars, topicVars, sub, early>>

shutdown_rest ==
  /\ \/ Does("shutdown_rest", <<>>) /\ Head(todo).rest = {}
     \/ \E t \in Topics :
          /\ Does("shutdown_rest", shutdown(t) \o Loop(Head(todo).rest \ {t}))
          /\ t \in Head(todo).rest
  /\ UNCHANGED <<running, mutexVars, topicVars, sub, early>>

(* Steps that leave the tables alone: a response, close(fifo_fd). *)
respond ==
  /\ Does("respond", <<>>) \/ Does("close", <<>>)
  /\ UNCHANGED <<running, mutexVars, topicVars, sub, early>>

(* make_unique<Topic> starts the worker; a known name changes nothing. *)
create ==
  /\ Does("create", <<>>)
  /\ topics' = topics \cup {T}
  /\ worker' = [worker EXCEPT ![T] = IF T \in topics THEN @ ELSE "ready"]
  /\ UNCHANGED <<running, mutexVars, stop_flag, backlog, entries, sub, early>>

(* The open in send_response() finds the FIFO of a client that departed    *)
(* before it unlinked it, and never returns: a signal handler on top of it *)
(* runs, after which the open is begun again.                              *)
Blocked == Steps(<<"blocked">>, Nil, Nil)

open_blocks ==
  /\ todo # <<>> /\ Head(todo).op \in {"respond", "accept"}
  /\ todo' = Blocked \o todo
  /\ UNCHANGED <<running, main, inputVars, mutexVars, topicVars, sub, early>>

(* SUCCESS is written to the subscriber. *)
accept ==
  /\ Does("accept", <<>>)
  /\ sub' = [sub EXCEPT ![P] = "accepted"]
  /\ UNCHANGED <<running, mutexVars, topicVars, early>>

(* add_subscriber does not look at stop_flag. *)
attach ==
  /\ Does("attach", <<>>)
  /\ entries' = [entries EXCEPT ![T] = @ \cup {P}]
  /\ backlog' = [backlog EXCEPT ![T] = TRUE]
  /\ worker' = [worker EXCEPT ![T] = Notified(T)]
  /\ UNCHANGED <<running, mutexVars, topics, stop_flag, sub, early>>

detach ==
  /\ Does("detach", <<>>)
  /\ entries' = [entries EXCEPT ![T] = @ \ {P}]
  /\ UNCHANGED <<running, mutexVars, topics, stop_flag, worker, backlog, sub, early>>

append ==
  /\ Does("append", <<>>)
  /\ backlog' = [backlog EXCEPT ![T] = TRUE]
  /\ worker' = [worker EXCEPT ![T] = Notified(T)]
  /\ UNCHANGED <<running, mutexVars, topics, stop_flag, entries, sub, early>>

(* The processes a topic has a descriptor for: no write to them has failed. *)
Writable(t) == {p \in entries[t] : sub[p] = "accepted"}

(* Mutant: the table is cleared before the sentinel is sent. *)
shut_Untold ==
  /\ Does("shut", IF stop_flag[T] THEN Steps(<<"unlock_topic">>, T, Nil)
                                  ELSE AfterShut(T))
  /\ stop_flag' = [stop_flag EXCEPT ![T] = TRUE]
  /\ entries' = [entries EXCEPT ![T] = {}]
  /\ UNCHANGED <<running, mutexVars, topics, worker, backlog, sub, early>>

(* The critical section of shutdown(): a stopped topic returns at once,    *)
(* else the sentinel goes to the subscribers that have a descriptor, their *)
(* descriptors are closed whether or not the write has succeeded, and the  *)
(* table is cleared.                                                       *)
shut ==
  /\ Does("shut", IF stop_flag[T] THEN Steps(<<"unlock_topic">>, T, Nil)
                                  ELSE AfterShut(T))
  /\ stop_flag' = [stop_flag EXCEPT ![T] = TRUE]
  /\ IF stop_flag[T] THEN UNCHANGED <<entries, sub>>
     ELSE /\ \E full \in SUBSET Writable(T) :
               sub' = [p \in Procs |-> IF p \in full THEN "cut"
                                       ELSE IF p \in Writable(T) THEN "told"
                                       ELSE sub[p]]
          /\ entries' = [entries EXCEPT ![T] = {}]
  /\ UNCHANGED <<running, mutexVars, topics, worker, backlog, early>>

notify ==
  /\ Does("notify", <<>>)
  /\ worker' = [worker EXCEPT ![T] = Notified(T)]
  /\ UNCHANGED <<running, mutexVars, topics, stop_flag, backlog, entries, sub, early>>

join ==
  /\ Does("join", <<>>)
  /\ worker[T] = "done"
  /\ UNCHANGED <<running, mutexVars, topicVars, sub, early>>

(* Server::run reads what is there, or part of it. *)
read_requests ==
  /\ main = "run" /\ todo = <<>> /\ recv_buf = <<>> /\ running
  /\ \E n \in 1 .. Len(inbox) :
       /\ recv_buf' = SubSeq(inbox, 1, n)
       /\ inbox' = SubSeq(inbox, n + 1, Len(inbox))
  /\ UNCHANGED <<running, main, todo, requests, signals, mutexVars, topicVars,
                 sub, early>>

(* The frames already read are handled whatever running says. *)
next_request ==
  /\ main = "run" /\ todo = <<>> /\ recv_buf # <<>>
  /\ todo' = handle_request(Head(recv_buf))
  /\ recv_buf' = Tail(recv_buf)
  /\ sub' = IF Head(recv_buf).op = "SUBSCRIBE" /\ Head(recv_buf).t \notin topics
            THEN [sub EXCEPT ![Head(recv_buf).p] = "refused"] ELSE sub
  /\ UNCHANGED <<running, main, inbox, requests, signals, mutexVars, topicVars, early>>

(* Mutant: the topics are not shut down when they are destroyed. *)
leave_run_NoDestructors ==
  /\ main = "run" /\ todo = <<>> /\ recv_buf = <<>> /\ ~running
  /\ main' = "exiting" /\ todo' = <<>>
  /\ UNCHANGED <<running, inputVars, mutexVars, topicVars, sub, early>>

(* run() returns: ~Server calls stop(), then every ~Topic shutdown(). *)
leave_run ==
  /\ main = "run" /\ todo = <<>> /\ recv_buf = <<>> /\ ~running
  /\ main' = "exiting" /\ todo' = Steps(<<"stop", "shutdown_all">>, Nil, Nil)
  /\ UNCHANGED <<running, inputVars, mutexVars, topicVars, sub, early>>

exit ==
  /\ main = "exiting" /\ todo = <<>>
  /\ main' = "exited"
  /\ UNCHANGED <<running, todo, inputVars, mutexVars, topicVars, sub, early>>

(* The handler of main.cpp goes on top of whatever the thread is doing. *)
signal_handler ==
  /\ main # "exited" /\ signals < MaxSignals
  /\ signals' = signals + 1
  /\ todo' = Steps(<<"stop">>, Nil, Nil) \o todo
  /\ UNCHANGED <<running, main, inbox, recv_buf, requests, mutexVars, topicVars,
                 sub, early>>
-----------------------------------------------------------------------------
(* The workers (Topic::run): a pass is one critical section.               *)

has_work(t) == backlog[t] /\ entries[t] # {}

run_lock(t) ==
  /\ worker[t] = "ready" /\ topic_mutex[t] = "free"
  /\ worker' = [worker EXCEPT ![t] = IF stop_flag[t] THEN "done"
                                     ELSE IF has_work(t) THEN "deliver"
                                     ELSE "waiting"]
  /\ topic_mutex' = [topic_mutex EXCEPT ![t] =
                       IF ~stop_flag[t] /\ has_work(t) THEN "worker" ELSE @]
  /\ UNCHANGED <<running, main, todo, inputVars, server_mutex, topics,
                 stop_flag, backlog, entries, sub, early>>

(* Mutant: the pass ends and the mutex stays locked. *)
run_unlock_KeepsMutex(t) ==
  /\ worker[t] = "deliver"
  /\ worker' = [worker EXCEPT ![t] = "ready"]
  /\ backlog' = [backlog EXCEPT ![t] = FALSE]
  /\ UNCHANGED <<running, main, todo, inputVars, mutexVars, topics,
                 stop_flag, entries, sub, early>>

(* The pass ends.  A write that failed in it closed the descriptor; the    *)
(* entry stays.                                                            *)
run_unlock(t) ==
  /\ worker[t] = "deliver"
  /\ worker' = [worker EXCEPT ![t] = "ready"]
  /\ backlog' = [backlog EXCEPT ![t] = FALSE]
  /\ topic_mutex' = [topic_mutex EXCEPT ![t] = "free"]
  /\ \E full \in SUBSET Writable(t) :
       sub' = [p \in Procs |-> IF p \in full THEN "cut" ELSE sub[p]]
  /\ UNCHANGED <<running, main, todo, inputVars, server_mutex, topics,
                 stop_flag, entries, early>>
-----------------------------------------------------------------------------
(* The clients.  What they send once running is false is never read.       *)

Send(r) ==
  /\ requests < MaxRequests /\ running
  /\ requests' = requests + 1
  /\ inbox' = Append(inbox, r)
  /\ UNCHANGED <<running, main, todo, recv_buf, signals, mutexVars, topicVars, early>>

client_request ==
  /\ \E op \in Ops \ {"SUBSCRIBE", "DISCONNECT"}, t \in Topics :
       Send([op |-> op, t |-> t, p |-> Nil])
  /\ sub' = sub

subscribe(p) ==
  /\ sub[p] = "new"
  /\ \E t \in Topics : Send([op |-> "SUBSCRIBE", t |-> t, p |-> p])
  /\ sub' = [sub EXCEPT ![p] = "asked"]

disconnect(p) ==
  /\ sub[p] \in {"accepted", "cut"}
  /\ \E t \in Topics : p \in entries[t] /\ Send([op |-> "DISCONNECT", t |-> t, p |-> p])
  /\ sub' = [sub EXCEPT ![p] = "left"]
-----------------------------------------------------------------------------
MainThread ==
  \/ do_stop \/ lock_server \/ unlock_server \/ lock_topic \/ unlock_topic
  \/ shutdown_all \/ shutdown_rest \/ respond \/ open_blocks \/ create \/ accept \/ attach \/ detach \/ append
  \/ shut \/ notify \/ join
  \/ read_requests \/ next_request \/ leave_run \/ exit

Next ==
  \/ MainThread \/ signal_handler
  \/ \E t \in Topics : run_lock(t) \/ run_unlock(t)
  \/ client_request
  \/ \E p \in Procs : subscribe(p) \/ disconnect(p)

Spec == Init /\ [][Next]_vars

(* The scheduler runs every thread that can go on; no signal is assumed.   *)
FairSpec ==
  /\ Spec
  /\ WF_vars(MainThread)
  /\ \A t \in Topics : WF_vars(run_lock(t)) /\ WF_vars(run_unlock(t))
-----------------------------------------------------------------------------
(* Correctness.                                                            *)

(* When the process ends, no worker is left: not of a topic stop() shut    *)
(* down, nor of one a request created after it (destroying a joinable      *)
(* std::thread would abort).                                               *)
AllJoined == main = "exited" => \A t \in topics : worker[t] = "done"

(* Whoever was subscribed when stop() began, and has not left meanwhile,   *)
(* has been written the sentinel when the process ends, unless a write to  *)
(* its pipe has failed: of the sentinel itself, or of a message before.    *)
SubscribersAreTold ==
  main = "exited" => \A p \in early : sub[p] \in {"told", "left", "cut"}

(* The handler has been entered and is about to run stop() for real. *)
StopBegins == todo # <<>> /\ Head(todo).op = "stop" /\ running

MainHoldsNothing ==
  server_mutex = "free" /\ \A t \in Topics : topic_mutex[t] # "main"

(* The open on top of the stack waits for a reader that never comes.       *)
Hanging == todo # <<>> /\ Head(todo).op = "blocked"

(* A signal that finds the main thread outside its critical sections ends  *)
(* the process: no worker, pass or second signal keeps stop(), run() or a  *)
(* destructor waiting.  Only the open of a departed client's FIFO does,    *)
(* which is begun again when the handler has returned.                     *)
QuietSignalExits ==
  (StopBegins /\ MainHoldsNothing) ~> (main = "exited" \/ Hanging)

(* The main thread waits for a mutex that it holds itself. *)
SelfDeadlock ==
  /\ todo # <<>>
  /\ \/ Head(todo).op = "lock_server" /\ server_mutex = "main"
     \/ Head(todo).op = "lock_topic" /\ topic_mutex[T] = "main"

(* Wherever a signal comes, the process ends or the main thread waits for  *)
(* itself or for a departed client: it never waits for a worker that waits *)
(* for it, in join() or for the mutex of a pass.                           *)
SignalWaitsForNoWorker ==
  StopBegins ~> (main = "exited" \/ SelfDeadlock \/ Hanging)

(* README.md:111 promises that the teardown safely unblocks what is blocked *)
(* during SIGINT/SIGTERM termination: as long as no client leaves its FIFO *)
(* behind, a signal ends the process.                                      *)
SignalExits == StopBegins ~> (main = "exited" \/ Hanging)
=============================================================================
