-------------------------------- MODULE Topic --------------------------------
(***************************************************************************)
(* One topic of the broker (server/src/Topic.cpp): its message log, its    *)
(* subscriber table and prefix tree, and the worker thread that pushes the *)
(* log into the FIFO of every subscriber.                                  *)
(*                                                                         *)
(* Two threads share the topic.  The main thread calls append_message,     *)
(* add_subscriber, remove_subscriber and shutdown; each of them is one     *)
(* critical section of topic_mutex, hence one action (shutdown goes on     *)
(* after it, in steps of their own).  The worker holds topic_mutex during  *)
(* a whole delivery pass, but the processes that read the FIFOs take no    *)
(* lock: a pass is one action per message, and readers step in between.    *)
(*                                                                         *)
(* The FIFOs and the subscriber processes at their other end are the       *)
(* environment.  A process subscribes once in its life.  Every frame is    *)
(* shorter than PIPE_BUF, so a write is all or nothing.                    *)
(***************************************************************************)
EXTENDS Integers, Sequences, PrefixIndex

CONSTANTS
  Pids,         \* subscriber processes; a pid names the FIFO of its process
  Nil,          \* "no descriptor" (-1) and "no subscriber"
  U32,          \* 2^32: uint32_t counts modulo U32
  MaxMessages,  \* bound on the length of the log
  PipeMin,      \* frames that fit a pipe whatever their sizes
  PipeCap       \* frames that fit a pipe if they are of the smallest size

ASSUME NilAssumption == Nil \notin Clients \cup Pids
ASSUME BoundsAssumption ==
  /\ U32 \in Nat \ {0}
  /\ MaxMessages \in Nat
  /\ PipeMin \in Nat \ {0} /\ PipeCap \in Nat /\ PipeMin <= PipeCap

VARIABLES
  messages,     \* the log: vector of messages, values left out
  prefix_tree,  \* the routing index
  subscribers,  \* HashMap client_id -> ActiveSubscriber
  stop_flag,
  worker,       \* where Topic::run stands; it holds topic_mutex in "deliver"
  cur,          \* the subscriber whose backlog the pass is draining, or Nil
  caller,       \* where the main thread stands in shutdown()
  reader,       \* per process: its end of the FIFO
  sent,         \* per process: every frame ever written to its FIFO
  nread,        \* per process: how many of them it has read
  session       \* per process once attached: what it subscribed to

topicVars == <<messages, prefix_tree, subscribers, stop_flag>>
threadVars == <<worker, cur, caller>>
procVars == <<reader, nread>>
vars == <<topicVars, threadVars, procVars, sent, session>>

Offsets == 0 .. U32 - 1

SHUTDOWN_OFFSET == U32 - 1

Message == [offset : Offsets, key : Keys]
ActiveSubscriber ==
  [prefix : PrefixSet, fifo_path : Pids, fifo_fd : Pids \cup {Nil},
   next_offset : Offsets]
Session == [client : Clients, prefix : PrefixSet, start : Offsets]

TypeOK ==
  /\ messages \in Seq(Message) /\ Len(messages) <= MaxMessages
  /\ prefix_tree \in Indexes
  /\ DOMAIN subscribers \subseteq Clients
  /\ subscribers \in [DOMAIN subscribers -> ActiveSubscriber]
  /\ stop_flag \in BOOLEAN
  /\ worker \in {"ready", "waiting", "deliver", "done"}
  /\ cur \in Clients \cup {Nil}
  /\ caller \in {"idle", "notify", "joining", "stopped"}
  /\ reader \in [Pids -> {"absent", "reading", "gone"}]
  /\ sent \in [Pids -> Seq(Offsets)]
  /\ nread \in [Pids -> Nat]
  /\ DOMAIN session \subseteq Pids
  /\ session \in [DOMAIN session -> Session]

Init ==
  /\ messages = <<>>
  /\ prefix_tree = EmptyIndex
  /\ subscribers = [c \in {} |-> Nil]
  /\ stop_flag = FALSE
  /\ worker = "ready" /\ cur = Nil
  /\ caller = "idle"
  /\ reader = [p \in Pids |-> "absent"]
  /\ sent = [p \in Pids |-> <<>>]
  /\ nread = [p \in Pids |-> 0]
  /\ session = [p \in {} |-> Nil]
-----------------------------------------------------------------------------
(* The pipes, as the kernel keeps them (external).                         *)

Unread(p) == Len(sent[p]) - nread[p]

(* open(O_WRONLY | O_NONBLOCK) succeeds iff somebody has it open to read. *)
CanOpen(p) == reader[p] = "reading"

(* A non-blocking write of a whole frame, depending on the frame sizes. *)
WriteMaySucceed(p) == reader[p] = "reading" /\ Unread(p) < PipeCap
WriteMayFail(p)    == reader[p] # "reading" \/ Unread(p) >= PipeMin
-----------------------------------------------------------------------------
(* The main thread.                                                        *)

(* It is not inside shutdown(), and the worker has released topic_mutex. *)
MutexFree == worker # "deliver"
MainCanLock == caller \in {"idle", "stopped"} /\ MutexFree

(* Mutant: the notification is forgotten. *)
NotifiedNobody(w) == w

(* cv.notify_all(): a worker blocked in cv.wait goes for the mutex again. *)
Notified(w) == IF w = "waiting" THEN "ready" ELSE w

(* Mutant: offsets count from 1. *)
NewMessageFromOne(key) == [offset |-> (Len(messages) + 1) % U32, key |-> key]

NewMessage(key) == [offset |-> Len(messages) % U32, key |-> key]

append_message(key) ==
  /\ MainCanLock
  /\ Len(messages) < MaxMessages
  /\ messages' = Append(messages, NewMessage(key))
  /\ worker' = Notified(worker)
  /\ UNCHANGED <<prefix_tree, subscribers, stop_flag, cur, caller,
                 procVars, sent, session>>

(* The table without client c. *)
Without(c) == [d \in DOMAIN subscribers \ {c} |-> subscribers[d]]

(* Mutant: the old registration stays in the tree. *)
UnregisteredForgets(c) == prefix_tree

(* The index without the registration of client c. *)
Unregistered(c) ==
  IF c \in DOMAIN subscribers
  THEN remove(prefix_tree, subscribers[c].prefix, c)
  ELSE prefix_tree

(* An entry the client still has is dropped before the FIFO is opened. *)
add_subscriber(c, pre, p, start) ==
  /\ MainCanLock
  /\ reader[p] # "absent" /\ p \notin DOMAIN session
  /\ CanOpen(p)
  /\ prefix_tree' = insert(Unregistered(c), pre, c)
  /\ subscribers' = [d \in DOMAIN subscribers \cup {c} |->
                       IF d = c
                       THEN [prefix |-> pre, fifo_path |-> p, fifo_fd |-> p,
                             next_offset |-> start]
                       ELSE subscribers[d]]
  /\ session' = [q \in DOMAIN session \cup {p} |->
                   IF q = p
                   THEN [client |-> c, prefix |-> pre, start |-> start]
                   ELSE session[q]]
  /\ worker' = Notified(worker)
  /\ UNCHANGED <<messages, stop_flag, cur, caller, procVars, sent>>

(* The process died meanwhile: open() fails, the old entry is gone. *)
add_subscriber_fails(c, p) ==
  /\ MainCanLock
  /\ reader[p] # "absent" /\ p \notin DOMAIN session
  /\ ~CanOpen(p)
  /\ prefix_tree' = Unregistered(c)
  /\ subscribers' = Without(c)
  /\ UNCHANGED <<messages, stop_flag, threadVars, procVars, sent, session>>

remove_subscriber(c) ==
  /\ MainCanLock
  /\ c \in DOMAIN subscribers
  /\ prefix_tree' = Unregistered(c)
  /\ subscribers' = Without(c)
  /\ UNCHANGED <<messages, stop_flag, threadVars, procVars, sent, session>>

(* The processes some entry still holds a descriptor for. *)
OpenFds == {subscribers[c].fifo_fd : c \in DOMAIN subscribers} \ {Nil}

(* shutdown() up to the unlock: the sentinel is written to every open      *)
(* descriptor, and nobody looks at the result of the write.                *)
shutdown ==
  /\ caller = "idle" /\ MutexFree
  /\ ~stop_flag
  /\ stop_flag' = TRUE
  /\ \E reached \in SUBSET OpenFds :
       /\ \A p \in OpenFds :
            IF p \in reached THEN WriteMaySucceed(p) ELSE WriteMayFail(p)
       /\ sent' = [p \in Pids |-> IF p \in reached
                                  THEN Append(sent[p], SHUTDOWN_OFFSET)
                                  ELSE sent[p]]
  /\ subscribers' = [c \in {} |-> Nil]
  /\ prefix_tree' = EmptyIndex
  /\ caller' = "notify"
  /\ UNCHANGED <<messages, worker, cur, procVars, session>>

(* Mutant: shutdown() joins the worker without waking it. *)
shutdown_notify_Forgotten ==
  /\ caller = "notify" /\ caller' = "joining"
  /\ UNCHANGED <<topicVars, worker, cur, procVars, sent, session>>

shutdown_notify ==
  /\ caller = "notify"
  /\ worker' = Notified(worker)
  /\ caller' = "joining"
  /\ UNCHANGED <<topicVars, cur, procVars, sent, session>>

shutdown_join ==
  /\ caller = "joining" /\ worker = "done"
  /\ caller' = "stopped"
  /\ UNCHANGED <<topicVars, worker, cur, procVars, sent, session>>
-----------------------------------------------------------------------------
(* The worker thread, Topic::run.                                          *)

(* Mutant: off by one, the last message never counts as pending. *)
PendingButLast(c) == subscribers[c].next_offset + 1 < Len(messages)

Pending(c) == subscribers[c].next_offset < Len(messages)

has_work == stop_flag \/ \E c \in DOMAIN subscribers : Pending(c)

(* Lock, test the predicate: leave, start a pass or block in cv.wait. *)
run_lock ==
  /\ worker = "ready"
  /\ worker' = IF stop_flag THEN "done"
               ELSE IF has_work THEN "deliver" ELSE "waiting"
  /\ UNCHANGED <<topicVars, cur, caller, procVars, sent, session>>

(* cv.wait may return without a notification; it tests the predicate again. *)
run_spurious_wakeup ==
  /\ worker = "waiting"
  /\ worker' = "ready"
  /\ UNCHANGED <<topicVars, cur, caller, procVars, sent, session>>

(* The message the pass looks at next, the backlogs being drained one      *)
(* subscriber after the other.                                             *)
AtMessage(c) ==
  /\ worker = "deliver"
  /\ c \in DOMAIN subscribers /\ Pending(c)
  /\ cur \in {Nil, c}

NextMessage(c) == messages[subscribers[c].next_offset + 1]

(* The test in front of the write. *)
ToWrite(c) ==
  /\ c \in match(prefix_tree, NextMessage(c).key)
  /\ subscribers[c].fifo_fd # Nil

(* Mutant: the descriptor of a failed write is used again. *)
AdvanceKeepsFd(c, fd) ==
  LET next == (subscribers[c].next_offset + 1) % U32
  IN  /\ subscribers' = [subscribers EXCEPT ![c].next_offset = next]
      /\ cur' = IF next < Len(messages) THEN c ELSE Nil

(* ++sub.next_offset, whatever became of the message. *)
Advance(c, fd) ==
  LET next == (subscribers[c].next_offset + 1) % U32
  IN  /\ subscribers' = [subscribers EXCEPT ![c].fifo_fd = fd,
                                            ![c].next_offset = next]
      /\ cur' = IF next < Len(messages) THEN c ELSE Nil

run_write(c) ==
  /\ AtMessage(c) /\ ToWrite(c)
  /\ WriteMaySucceed(subscribers[c].fifo_fd)
  /\ sent' = [sent EXCEPT ![subscribers[c].fifo_fd] =
                Append(@, NextMessage(c).offset)]
  /\ Advance(c, subscribers[c].fifo_fd)
  /\ UNCHANGED <<messages, prefix_tree, stop_flag, worker, caller,
                 procVars, session>>

(* EAGAIN or EPIPE: the descriptor is closed for good, the entry stays. *)
run_write_fails(c) ==
  /\ AtMessage(c) /\ ToWrite(c)
  /\ WriteMayFail(subscribers[c].fifo_fd)
  /\ Advance(c, Nil)
  /\ UNCHANGED <<messages, prefix_tree, stop_flag, worker, caller,
                 procVars, sent, session>>

run_skip(c) ==
  /\ AtMessage(c) /\ ~ToWrite(c)
  /\ Advance(c, subscribers[c].fifo_fd)
  /\ UNCHANGED <<messages, prefix_tree, stop_flag, worker, caller,
                 procVars, sent, session>>

(* No backlog is left: the mutex is released, the loop starts again. *)
run_unlock ==
  /\ worker = "deliver"
  /\ \A c \in DOMAIN subscribers : ~Pending(c)
  /\ worker' = "ready"
  /\ UNCHANGED <<topicVars, cur, caller, procVars, sent, session>>

Deliver == \E c \in Clients : run_write(c) \/ run_write_fails(c) \/ run_skip(c)
-----------------------------------------------------------------------------
(* The subscriber processes (client/src/subscriber_command.cpp).           *)

create_fifo(p) ==
  /\ reader[p] = "absent"
  /\ reader' = [reader EXCEPT ![p] = "reading"]
  /\ UNCHANGED <<topicVars, threadVars, nread, sent, session>>

(* One frame is read; the sentinel makes the process return. *)
read_frame(p) ==
  /\ reader[p] = "reading" /\ nread[p] < Len(sent[p])
  /\ nread' = [nread EXCEPT ![p] = @ + 1]
  /\ reader' = IF sent[p][nread[p] + 1] = SHUTDOWN_OFFSET
               THEN [reader EXCEPT ![p] = "gone"] ELSE reader
  /\ UNCHANGED <<topicVars, threadVars, sent, session>>

(* SIGINT, an output error or a kill: the FIFO has no reader any more. *)
exit(p) ==
  /\ reader[p] = "reading"
  /\ reader' = [reader EXCEPT ![p] = "gone"]
  /\ UNCHANGED <<topicVars, threadVars, nread, sent, session>>
-----------------------------------------------------------------------------
MainThread ==
  \/ \E key \in Keys : append_message(key)
  \/ \E c \in Clients, pre \in PrefixSet, p \in Pids, start \in Offsets :
       add_subscriber(c, pre, p, start)
  \/ \E c \in Clients, p \in Pids : add_subscriber_fails(c, p)
  \/ \E c \in Clients : remove_subscriber(c)
  \/ shutdown \/ shutdown_notify \/ shutdown_join

WorkerThread == run_lock \/ run_spurious_wakeup \/ Deliver \/ run_unlock

Processes == \E p \in Pids : create_fifo(p) \/ read_frame(p) \/ exit(p)

Next == MainThread \/ WorkerThread \/ Processes

Spec == Init /\ [][Next]_vars

(* The scheduler runs every thread that can go on.  No call, no request,   *)
(* no spurious wakeup and no exit is assumed to happen.                    *)
Fairness ==
  /\ WF_vars(run_lock) /\ WF_vars(Deliver) /\ WF_vars(run_unlock)
  /\ WF_vars(shutdown_notify) /\ WF_vars(shutdown_join)
  /\ \A p \in Pids : WF_vars(read_frame(p))

FairSpec == Spec /\ Fairness
-----------------------------------------------------------------------------
(* Correctness.                                                            *)

(* Process p is attached: the entry of its client holds its descriptor. *)
Attached(p) == p \in OpenFds

(* Offset o is in the log and process p subscribed to it. *)
Wanted(p, o) ==
  /\ o \in session[p].start .. Len(messages) - 1
  /\ Matches(session[p].prefix, messages[o + 1].key)

Received(p, o) == \E i \in 1 .. Len(sent[p]) : sent[p][i] = o

(* The routing tree (Topic::prefix_tree) holds exactly one registration    *)
(* per entry of Topic::subscribers, under the prefix of that entry, through *)
(* every re-subscription, failed open, removal and shutdown.               *)
TreeMirrorsSubscribers ==
  \A pre \in PrefixSet, c \in Clients :
    prefix_tree[pre][c] =
      IF c \in DOMAIN subscribers /\ subscribers[c].prefix = pre THEN 1 ELSE 0

(* Frame i of process p is an offset it subscribed to, above the one       *)
(* before it, and no such offset was left out; or it is the last frame, a  *)
(* sentinel.                                                               *)
FrameExact(p, i) ==
  \/ sent[p][i] = SHUTDOWN_OFFSET /\ i = Len(sent[p]) /\ stop_flag
  \/ /\ Wanted(p, sent[p][i])
     /\ i > 1 => sent[p][i - 1] < sent[p][i]
     /\ \A o \in session[p].start .. sent[p][i] - 1 :
          Wanted(p, o) => \E j \in 1 .. i - 1 : sent[p][j] = o

(* The frames Topic::run wrote to a process are, from the offset it asked  *)
(* for on, offsets it subscribed to, increasing, with none left out in     *)
(* between, even when the write of some frame failed; a sentinel only      *)
(* comes from shutdown() and nothing follows it.                           *)
StreamExact ==
  \A p \in DOMAIN session : \A i \in 1 .. Len(sent[p]) : FrameExact(p, i)

(* When the worker sleeps in cv.wait, every attached process has been      *)
(* written every message it subscribed to: neither append_message nor      *)
(* add_subscriber can leave a backlog nobody is awake to deliver, and only *)
(* shutdown(), between its unlock and its notify_all, has yet to wake it.  *)
SleepMeansDelivered ==
  worker = "waiting" =>
    /\ stop_flag => caller = "notify"
    /\ ~stop_flag => \A p \in OpenFds : \A o \in 0 .. Len(messages) - 1 :
                       Wanted(p, o) => Received(p, o)

(* The strengthening under which the three invariants above are inductive. *)
LogPositions == \A i \in 1 .. Len(messages) : messages[i].offset = i - 1

(* A descriptor belongs to the process that subscribed under the name and  *)
(* prefix of its entry, and the cursor is where the pass can bring it.     *)
Owns(c, p) ==
  /\ p \in DOMAIN session
  /\ session[p].client = c /\ session[p].prefix = subscribers[c].prefix
  /\ session[p].start <= subscribers[c].next_offset
  /\ \/ subscribers[c].next_offset = session[p].start
     \/ subscribers[c].next_offset <= Len(messages)

(* The stream of an attached process is complete up to the cursor. *)
CompleteTo(p, next) ==
  /\ \A i \in 1 .. Len(sent[p]) :
       sent[p][i] # SHUTDOWN_OFFSET /\ sent[p][i] < next
  /\ \A o \in session[p].start .. next - 1 : Wanted(p, o) => Received(p, o)

CursorInv ==
  \A c \in DOMAIN subscribers :
    subscribers[c].fifo_fd # Nil =>
      /\ Owns(c, subscribers[c].fifo_fd)
      /\ CompleteTo(subscribers[c].fifo_fd, subscribers[c].next_offset)

NothingSentBefore == \A p \in Pids \ DOMAIN session : sent[p] = <<>>

WakeupPending ==
  worker = "waiting" =>
    IF stop_flag THEN caller = "notify"
                 ELSE \A c \in DOMAIN subscribers : ~Pending(c)

StreamInv ==
  LogPositions /\ CursorInv /\ NothingSentBefore /\ StreamExact

TopicInv == TypeOK /\ TreeMirrorsSubscribers /\ WakeupPending /\ StreamInv

(* Until shutdown(), the worker writes to an attached process every message *)
(* it subscribed to, unless the topic lets go of the process: it is never  *)
(* behind for good.                                                        *)
EventuallyDelivered ==
  \A p \in Pids :
    []<>(\/ stop_flag \/ ~Attached(p)
         \/ \A o \in 0 .. MaxMessages - 1 : Wanted(p, o) => Received(p, o))

(* shutdown() returns: the worker always gets out of cv.wait and of its    *)
(* pass, and can be joined.                                                *)
ShutdownReturns == stop_flag ~> caller = "stopped"

(* The topic implements the streams of PubSub. *)
PS == INSTANCE PubSub WITH
        log <- [i \in 1 .. Len(messages) |-> messages[i].key],
        live <- OpenFds,
        stream <- sent,
        Starts <- Offsets,
        Farewell <- SHUTDOWN_OFFSET

(* Everything the main thread, the worker and the reading processes do to  *)
(* the log and the FIFOs is a step PubSub allows: log order, no gap, no    *)
(* duplicate, one live process per name.                                   *)
ImplementsPubSub == PS!Spec
=============================================================================
