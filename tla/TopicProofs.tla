----------------------------- MODULE TopicProofs -----------------------------
(***************************************************************************)
(* What TLAPS proves about Topic, for all sets of clients, processes,      *)
(* prefixes and keys and for every bound.                                  *)
(***************************************************************************)
EXTENDS Topic, SequenceTheorems, TLAPS

(* A uint32_t expression stays a uint32_t: messages.size() and             *)
(* next_offset + 1 are reduced modulo 2^32.                                *)
LEMMA ModInOffsets ==
  ASSUME NEW x \in Nat
  PROVE  x % U32 \in Offsets
  BY BoundsAssumption DEF Offsets

(* Offsets are numbers, and the sentinel of Protocol.hpp is one of them. *)
LEMMA OffsetsAreNat == Offsets \subseteq Nat /\ SHUTDOWN_OFFSET \in Offsets
  BY BoundsAssumption DEF Offsets, SHUTDOWN_OFFSET

(* An index stays an index when PrefixTree::insert or remove changes it. *)
LEMMA IndexType ==
  ASSUME NEW t \in Indexes, NEW pre \in PrefixSet, NEW c \in Clients
  PROVE  insert(t, pre, c) \in Indexes /\ remove(t, pre, c) \in Indexes
  BY DEF insert, remove, Indexes

(* Dropping the registration of a client leaves an index. *)
LEMMA UnregisteredType ==
  ASSUME TypeOK, NEW c \in Clients
  PROVE  Unregistered(c) \in Indexes
  BY IndexType DEF TypeOK, Unregistered, ActiveSubscriber

-----------------------------------------------------------------------------
(* Type correctness.                                                       *)

(* A topic that was just constructed is well typed. *)
LEMMA TypeInit == Init => TypeOK
<1> SUFFICES ASSUME Init PROVE TypeOK
  OBVIOUS
<1>1. messages \in Seq(Message) /\ Len(messages) <= MaxMessages
  BY BoundsAssumption DEF Init
<1>2. prefix_tree \in Indexes
  BY DEF Init, EmptyIndex, Indexes
<1>3. /\ DOMAIN subscribers \subseteq Clients
      /\ subscribers \in [DOMAIN subscribers -> ActiveSubscriber]
  BY DEF Init
<1>4. /\ DOMAIN session \subseteq Pids
      /\ session \in [DOMAIN session -> Session]
  BY DEF Init
<1>5. sent \in [Pids -> Seq(Offsets)]
  BY DEF Init
<1> QED
  BY <1>1, <1>2, <1>3, <1>4, <1>5 DEF Init, TypeOK

(* The calls of the main thread preserve the types. *)
LEMMA TypeMain == TypeOK /\ MainThread => TypeOK'
<1> SUFFICES ASSUME TypeOK, MainThread PROVE TypeOK'
  OBVIOUS
<1> USE DEF topicVars, threadVars, procVars
<1>1. ASSUME NEW key \in Keys, append_message(key) PROVE TypeOK'
  <2>0. NewMessage(key) \in Message
    <3>1. Len(messages) \in Nat
      BY DEF TypeOK
    <3>2. Len(messages) % U32 \in Offsets
      BY <3>1, ModInOffsets
    <3> QED
      BY <3>2 DEF NewMessage, Message
  <2>1. messages' \in Seq(Message) /\ Len(messages') <= MaxMessages
    BY <1>1, <2>0, BoundsAssumption DEF append_message, TypeOK
  <2> QED
    BY <1>1, <2>1 DEF append_message, TypeOK, Notified
<1>2. ASSUME NEW c \in Clients, NEW pre \in PrefixSet, NEW p \in Pids,
             NEW start \in Offsets, add_subscriber(c, pre, p, start)
      PROVE  TypeOK'
  <2>1. prefix_tree' \in Indexes
    BY <1>2, UnregisteredType, IndexType DEF add_subscriber
  <2>2. /\ DOMAIN subscribers' \subseteq Clients
        /\ subscribers' \in [DOMAIN subscribers' -> ActiveSubscriber]
    BY <1>2 DEF add_subscriber, TypeOK, ActiveSubscriber
  <2>3. /\ DOMAIN session' \subseteq Pids
        /\ session' \in [DOMAIN session' -> Session]
    BY <1>2 DEF add_subscriber, TypeOK, Session
  <2> QED
    BY <1>2, <2>1, <2>2, <2>3 DEF add_subscriber, TypeOK, Notified
<1>3. ASSUME NEW c \in Clients,
             prefix_tree' = Unregistered(c), subscribers' = Without(c),
             UNCHANGED <<messages, stop_flag, threadVars, procVars, sent, session>>
      PROVE  TypeOK'
  BY <1>3, UnregisteredType DEF Without, TypeOK
<1>4. ASSUME shutdown PROVE TypeOK'
  <2>1. sent' \in [Pids -> Seq(Offsets)]
    BY <1>4, OffsetsAreNat DEF shutdown, TypeOK
  <2>2. prefix_tree' \in Indexes
    BY <1>4 DEF shutdown, EmptyIndex, Indexes
  <2> QED
    BY <1>4, <2>1, <2>2 DEF shutdown, TypeOK
<1>5. CASE shutdown_notify \/ shutdown_join
  BY <1>5 DEF shutdown_notify, shutdown_join, TypeOK, Notified
<1> QED
  BY <1>1, <1>2, <1>3, <1>4, <1>5
  DEF MainThread, add_subscriber_fails, remove_subscriber

(* ++sub.next_offset and the closing of a descriptor preserve the types of *)
(* the table.                                                              *)
LEMMA AdvanceType ==
  ASSUME TypeOK, NEW c \in DOMAIN subscribers, NEW fd \in Pids \cup {Nil},
         Advance(c, fd)
  PROVE  /\ DOMAIN subscribers' = DOMAIN subscribers
         /\ subscribers' \in [DOMAIN subscribers' -> ActiveSubscriber]
         /\ cur' \in Clients \cup {Nil}
<1>1. (subscribers[c].next_offset + 1) % U32 \in Offsets
  <2>1. subscribers[c].next_offset + 1 \in Nat
    BY OffsetsAreNat DEF TypeOK, ActiveSubscriber
  <2> QED
    BY <2>1, ModInOffsets
<1>2. subscribers' = [subscribers EXCEPT
         ![c].fifo_fd = fd,
         ![c].next_offset = (subscribers[c].next_offset + 1) % U32]
  BY DEF Advance
<1>3. /\ DOMAIN subscribers' = DOMAIN subscribers
      /\ subscribers' \in [DOMAIN subscribers' -> ActiveSubscriber]
  BY <1>1, <1>2 DEF TypeOK, ActiveSubscriber
<1>4. cur' \in Clients \cup {Nil}
  BY DEF Advance, TypeOK
<1> QED
  BY <1>3, <1>4

(* The worker preserves the types. *)
LEMMA TypeWorker == TypeOK /\ WorkerThread => TypeOK'
<1> SUFFICES ASSUME TypeOK, WorkerThread PROVE TypeOK'
  OBVIOUS
<1> USE DEF topicVars, procVars
<1>1. CASE run_lock \/ run_spurious_wakeup \/ run_unlock
  BY <1>1 DEF run_lock, run_spurious_wakeup, run_unlock, TypeOK
<1>2. ASSUME NEW c \in Clients, run_write(c) PROVE TypeOK'
  <2>1. c \in DOMAIN subscribers /\ subscribers[c].fifo_fd \in Pids
    BY <1>2 DEF run_write, AtMessage, ToWrite, TypeOK, ActiveSubscriber
  <2>2. NextMessage(c).offset \in Offsets
    <3>1. subscribers[c].next_offset + 1 \in 1 .. Len(messages)
      BY <1>2, OffsetsAreNat
      DEF run_write, AtMessage, Pending, TypeOK, ActiveSubscriber
    <3>2. messages[subscribers[c].next_offset + 1] \in Message
      BY <3>1 DEF TypeOK
    <3> QED
      BY <3>2 DEF NextMessage, Message
  <2>3. sent' \in [Pids -> Seq(Offsets)]
    BY <1>2, <2>1, <2>2 DEF run_write, TypeOK
  <2> QED
    BY <1>2, <2>1, <2>3, AdvanceType DEF run_write, TypeOK
<1>3. ASSUME NEW c \in Clients, run_write_fails(c) \/ run_skip(c) PROVE TypeOK'
  <2>1. c \in DOMAIN subscribers /\ subscribers[c].fifo_fd \in Pids \cup {Nil}
    BY <1>3 DEF run_write_fails, run_skip, AtMessage, TypeOK, ActiveSubscriber
  <2> QED
    BY <1>3, <2>1, AdvanceType DEF run_write_fails, run_skip, TypeOK
<1> QED
  BY <1>1, <1>2, <1>3 DEF WorkerThread, Deliver

(* The subscriber processes preserve the types. *)
LEMMA TypeProcesses == TypeOK /\ Processes => TypeOK'
<1> SUFFICES ASSUME TypeOK, NEW p \in Pids,
                    create_fifo(p) \/ read_frame(p) \/ exit(p)
             PROVE  TypeOK'
  BY DEF Processes
<1>1. UNCHANGED <<messages, prefix_tree, subscribers, stop_flag, worker, cur,
                  caller, sent, session>>
  BY DEF create_fifo, read_frame, exit, topicVars, threadVars
<1>2. reader' \in [Pids -> {"absent", "reading", "gone"}]
  <2>1. reader' \in {reader, [reader EXCEPT ![p] = "reading"],
                     [reader EXCEPT ![p] = "gone"]}
    BY DEF create_fifo, read_frame, exit
  <2> QED
    BY <2>1 DEF TypeOK
<1>3. nread' \in [Pids -> Nat]
  <2>1. nread' = nread \/ nread' = [nread EXCEPT ![p] = nread[p] + 1]
    BY DEF create_fifo, read_frame, exit
  <2>2. nread \in [Pids -> Nat]
    BY DEF TypeOK
  <2> QED
    BY <2>1, <2>2
<1> QED
  BY <1>1, <1>2, <1>3 DEF TypeOK

(* So does a step that changes nothing. *)
LEMMA TypeStutter == TypeOK /\ UNCHANGED vars => TypeOK'
  BY DEF TypeOK, vars, topicVars, threadVars, procVars

(* The topic never leaves its types: no offset outside uint32_t, no        *)
(* subscriber entry for an unknown client, no frame that is not an offset. *)
THEOREM TypeCorrect == Spec => []TypeOK
<1>1. TypeOK /\ [Next]_vars => TypeOK'
  BY TypeMain, TypeWorker, TypeProcesses, TypeStutter DEF Next
<1> QED
  BY TypeInit, <1>1, PTL DEF Spec

-----------------------------------------------------------------------------
(* The routing tree and the subscriber table.                              *)

(* The tree and the table start empty. *)
LEMMA TreeInit == Init => TreeMirrorsSubscribers
  BY DEF Init, TreeMirrorsSubscribers, EmptyIndex

(* Dropping the entry of a client leaves the tree with the other ones. *)
LEMMA TreeUnregistered ==
  ASSUME TypeOK, TreeMirrorsSubscribers, NEW c \in Clients,
         NEW pre \in PrefixSet, NEW d \in Clients
  PROVE  Unregistered(c)[pre][d] =
           IF d \in DOMAIN subscribers \ {c} /\ subscribers[d].prefix = pre
           THEN 1 ELSE 0
<1>1. CASE c \in DOMAIN subscribers
  <2>1. subscribers[c].prefix \in PrefixSet
    BY <1>1 DEF TypeOK, ActiveSubscriber
  <2> QED
    BY <1>1, <2>1
    DEF Unregistered, remove, TypeOK, Indexes, TreeMirrorsSubscribers
<1>2. CASE c \notin DOMAIN subscribers
  BY <1>2 DEF Unregistered, TreeMirrorsSubscribers
<1> QED
  BY <1>1, <1>2

(* Every step keeps the tree and the table of subscribers in agreement. *)
LEMMA TreeNext ==
  TypeOK /\ TreeMirrorsSubscribers /\ [Next]_vars => TreeMirrorsSubscribers'
<1> SUFFICES ASSUME TypeOK, TreeMirrorsSubscribers, [Next]_vars
             PROVE  TreeMirrorsSubscribers'
  OBVIOUS
<1>1. ASSUME NEW c \in Clients, NEW pre \in PrefixSet, NEW p \in Pids,
             NEW start \in Offsets, add_subscriber(c, pre, p, start)
      PROVE  TreeMirrorsSubscribers'
  <2> SUFFICES ASSUME NEW q \in PrefixSet, NEW d \in Clients
               PROVE  prefix_tree'[q][d] =
                        IF d \in DOMAIN subscribers' /\ subscribers'[d].prefix = q
                        THEN 1 ELSE 0
    BY DEF TreeMirrorsSubscribers
  <2>1. Unregistered(c) \in Indexes
    BY UnregisteredType
  <2>2. prefix_tree'[q][d] = IF q = pre /\ d = c THEN Unregistered(c)[q][d] + 1
                                                 ELSE Unregistered(c)[q][d]
    BY <1>1, <2>1 DEF add_subscriber, insert, Indexes
  <2>3. Unregistered(c)[q][d] =
          IF d \in DOMAIN subscribers \ {c} /\ subscribers[d].prefix = q
          THEN 1 ELSE 0
    BY TreeUnregistered
  <2> QED
    BY <1>1, <2>2, <2>3 DEF add_subscriber
<1>2. ASSUME NEW c \in Clients,
             prefix_tree' = Unregistered(c), subscribers' = Without(c)
      PROVE  TreeMirrorsSubscribers'
  <2> SUFFICES ASSUME NEW q \in PrefixSet, NEW d \in Clients
               PROVE  prefix_tree'[q][d] =
                        IF d \in DOMAIN subscribers' /\ subscribers'[d].prefix = q
                        THEN 1 ELSE 0
    BY DEF TreeMirrorsSubscribers
  <2> QED
    BY <1>2, TreeUnregistered DEF Without
<1>3. CASE shutdown
  BY <1>3 DEF shutdown, TreeMirrorsSubscribers, EmptyIndex
<1>4. ASSUME NEW c \in Clients, run_write(c) \/ run_write_fails(c) \/ run_skip(c)
      PROVE  TreeMirrorsSubscribers'
  <2>1. PICK fd : Advance(c, fd)
    BY <1>4 DEF run_write, run_write_fails, run_skip
  <2>2. /\ prefix_tree' = prefix_tree
        /\ c \in DOMAIN subscribers
    BY <1>4 DEF run_write, run_write_fails, run_skip, AtMessage
  <2>3. /\ DOMAIN subscribers' = DOMAIN subscribers
        /\ \A d \in DOMAIN subscribers :
             subscribers'[d].prefix = subscribers[d].prefix
    BY <2>1, <2>2 DEF Advance, TypeOK, ActiveSubscriber
  <2> QED
    BY <2>2, <2>3 DEF TreeMirrorsSubscribers
<1>5. ASSUME UNCHANGED <<prefix_tree, subscribers>>
      PROVE  TreeMirrorsSubscribers'
  BY <1>5 DEF TreeMirrorsSubscribers
<1>6. CASE Processes \/ UNCHANGED vars
  BY <1>5, <1>6
  DEF Processes, create_fifo, read_frame, exit, vars, topicVars
<1>7. CASE MainThread
  BY <1>1, <1>2, <1>3, <1>5, <1>7
  DEF MainThread, append_message, add_subscriber_fails, remove_subscriber,
      shutdown_notify, shutdown_join, topicVars
<1>8. CASE WorkerThread
  BY <1>4, <1>5, <1>8
  DEF WorkerThread, Deliver, run_lock, run_spurious_wakeup, run_unlock, topicVars
<1> QED
  BY <1>6, <1>7, <1>8 DEF Next

(* Whatever sequence of subscriptions, failed opens, removals and passes   *)
(* the topic goes through, prefix_tree registers each entry of the table   *)
(* once, under its own prefix, and nobody else.                            *)
THEOREM TreeCorrect == Spec => []TreeMirrorsSubscribers
  BY TypeCorrect, TreeInit, TreeNext, PTL DEF Spec


-----------------------------------------------------------------------------
(* Wakeups.                                                                *)

(* No step leaves the worker asleep with work to do and no notify_all() to *)
(* come.                                                                   *)
LEMMA WakeupNext == WakeupPending /\ [Next]_vars => WakeupPending'
<1> SUFFICES ASSUME WakeupPending, [Next]_vars, worker' = "waiting"
             PROVE  IF stop_flag' THEN caller' = "notify"
                    ELSE \A c \in DOMAIN subscribers' : ~Pending(c)'
  BY DEF WakeupPending
<1> USE DEF topicVars, threadVars
<1>1. CASE run_lock
  BY <1>1 DEF run_lock, has_work, Pending
<1>2. CASE shutdown
  BY <1>2 DEF shutdown
<1>3. ASSUME NEW c \in Clients, MainCanLock, subscribers' = Without(c),
             UNCHANGED <<messages, stop_flag, threadVars>>
      PROVE  ~stop_flag' /\ \A d \in DOMAIN subscribers' : ~Pending(d)'
  BY <1>3 DEF WakeupPending, MainCanLock, Without, Pending
<1>4. CASE UNCHANGED <<topicVars, worker, caller>>
  BY <1>4 DEF WakeupPending, Pending
<1>5. CASE MainThread
  <2>1. CASE \E c \in Clients, p \in Pids : add_subscriber_fails(c, p)
    BY <1>3, <2>1 DEF add_subscriber_fails
  <2>2. CASE \E c \in Clients : remove_subscriber(c)
    BY <1>3, <2>2 DEF remove_subscriber
  <2> QED
    BY <1>2, <1>5, <2>1, <2>2
    DEF MainThread, append_message, add_subscriber, shutdown_notify,
        shutdown_join, Notified
<1>6. CASE WorkerThread
  BY <1>1, <1>6
  DEF WorkerThread, Deliver, run_spurious_wakeup, run_unlock, run_write,
      run_write_fails, run_skip, AtMessage
<1>7. CASE Processes \/ UNCHANGED vars
  BY <1>4, <1>7 DEF Processes, create_fifo, read_frame, exit, vars
<1> QED
  BY <1>5, <1>6, <1>7 DEF Next

-----------------------------------------------------------------------------
(* Streams.                                                                *)

(* An entry is routed by the prefix it was added with, and by no other. *)
LEMMA MatchIsOwnPrefix ==
  ASSUME TypeOK, TreeMirrorsSubscribers, NEW c \in DOMAIN subscribers, NEW key
  PROVE  c \in match(prefix_tree, key) <=> Matches(subscribers[c].prefix, key)
<1>1. c \in Clients /\ subscribers[c].prefix \in PrefixSet
  BY DEF TypeOK, ActiveSubscriber
<1> QED
  BY <1>1 DEF match, TreeMirrorsSubscribers

(* A descriptor is in one entry only. *)
LEMMA OneOwner ==
  ASSUME CursorInv, NEW c \in DOMAIN subscribers, NEW d \in DOMAIN subscribers,
         subscribers[c].fifo_fd = subscribers[d].fifo_fd,
         subscribers[c].fifo_fd # Nil
  PROVE  c = d
  BY DEF CursorInv, Owns

(* A frame stays right as long as its stream and the log stay. *)
LEMMA FrameStable ==
  ASSUME NEW p, NEW i, FrameExact(p, i), UNCHANGED <<messages, session>>,
         sent'[p] = sent[p], stop_flag => stop_flag'
  PROVE  FrameExact(p, i)'
  BY DEF FrameExact, Wanted

(* An offset in a stream stays right when frames are added after it. *)
LEMMA FrameExtended ==
  ASSUME NEW p, Len(sent[p]) \in Nat, NEW i \in 1 .. Len(sent[p]),
         FrameExact(p, i), sent[p][i] # SHUTDOWN_OFFSET,
         UNCHANGED <<messages, session>>,
         \A j \in 1 .. Len(sent[p]) : sent'[p][j] = sent[p][j]
  PROVE  FrameExact(p, i)'
<1>1. PICK v : v = sent[p][i] /\ v = sent'[p][i]
  OBVIOUS
<1>2. /\ Wanted(p, v)
      /\ i > 1 => sent[p][i - 1] < v
      /\ \A o \in session[p].start .. v - 1 :
           Wanted(p, o) => \E j \in 1 .. i - 1 : sent[p][j] = o
  BY <1>1 DEF FrameExact
<1>3. \A j \in 1 .. i - 1 : sent'[p][j] = sent[p][j]
  OBVIOUS
<1>4. /\ i > 1 => sent'[p][i - 1] < v
      /\ \A o \in session[p].start .. v - 1 :
           Wanted(p, o) => \E j \in 1 .. i - 1 : sent'[p][j] = o
  BY <1>2, <1>3
<1> QED
  BY <1>1, <1>2, <1>4 DEF FrameExact, Wanted

(* The stream invariant survives a step that only forgets entries, closes  *)
(* descriptors or moves the threads and the readers.                       *)
LEMMA StreamForget ==
  ASSUME StreamInv,
         UNCHANGED <<messages, sent, session>>, stop_flag => stop_flag',
         DOMAIN subscribers' \subseteq DOMAIN subscribers,
         \A c \in DOMAIN subscribers' :
            subscribers'[c].fifo_fd # Nil => subscribers'[c] = subscribers[c]
  PROVE  StreamInv'
<1>1. LogPositions' /\ NothingSentBefore'
  BY DEF StreamInv, LogPositions, NothingSentBefore
<1>2. StreamExact'
  BY FrameStable DEF StreamInv, StreamExact
<1>3. CursorInv'
  BY DEF StreamInv, CursorInv, Owns, CompleteTo, Wanted, Received
<1> QED
  BY <1>1, <1>2, <1>3 DEF StreamInv

(* As long as the log is shorter than 2^32, reducing an offset modulo 2^32 *)
(* changes nothing.                                                        *)
LEMMA ModSmall ==
  ASSUME NEW x \in Nat, x < U32
  PROVE  x % U32 = x
  BY BoundsAssumption

(* No frame has been written when the topic starts. *)
LEMMA StreamInit == Init => StreamInv
  BY DEF Init, StreamInv, LogPositions, CursorInv, NothingSentBefore, StreamExact

(* append_message adds an offset above all the frames written so far. *)
LEMMA StreamAppend ==
  ASSUME MaxMessages < U32, TypeOK, StreamInv, NEW key \in Keys,
         append_message(key)
  PROVE  StreamInv'
<1> DEFINE n == Len(messages)
<1>1. /\ n \in Nat /\ n < U32 /\ n < MaxMessages
      /\ Len(messages') = n + 1
      /\ messages'[n + 1] = [offset |-> n, key |-> key]
      /\ \A i \in 1 .. n : messages'[i] = messages[i]
  <2>1. n \in Nat /\ n < U32 /\ n < MaxMessages
    BY BoundsAssumption DEF append_message, TypeOK
  <2>2. n % U32 = n
    BY <2>1, ModSmall
  <2> QED
    BY <2>1, <2>2 DEF append_message, NewMessage, TypeOK
<1>2. UNCHANGED <<subscribers, sent, session, stop_flag>>
  BY DEF append_message
<1>3. ASSUME NEW p \in DOMAIN session, NEW o \in Int
      PROVE  /\ Wanted(p, o) => Wanted(p, o)'
             /\ o < n /\ Wanted(p, o)' => Wanted(p, o)
  <2>1. session[p].start \in Nat
    BY OffsetsAreNat DEF TypeOK, Session
  <2> QED
    BY <1>1, <1>2, <2>1 DEF Wanted
<1>4. LogPositions'
  BY <1>1 DEF StreamInv, LogPositions
<1>5. NothingSentBefore'
  BY <1>2 DEF StreamInv, NothingSentBefore
<1>6. StreamExact'
  <2> SUFFICES ASSUME NEW p \in DOMAIN session, NEW i \in 1 .. Len(sent[p]),
                      ~(sent[p][i] = SHUTDOWN_OFFSET /\ i = Len(sent[p]) /\ stop_flag),
                      NEW v, v = sent[p][i]
               PROVE  /\ Wanted(p, v)'
                      /\ i > 1 => sent[p][i - 1] < v
                      /\ \A o \in session[p].start .. v - 1 :
                           Wanted(p, o)' => \E j \in 1 .. i - 1 : sent[p][j] = o
    BY <1>2 DEF StreamExact, FrameExact
  <2>1. /\ Wanted(p, v)
        /\ i > 1 => sent[p][i - 1] < v
        /\ \A o \in session[p].start .. v - 1 :
             Wanted(p, o) => \E j \in 1 .. i - 1 : sent[p][j] = o
    BY DEF StreamInv, StreamExact, FrameExact
  <2>2. v \in Int /\ session[p].start \in Int /\ v < n
    BY <1>1, <2>1, OffsetsAreNat DEF TypeOK, Session, Wanted
  <2>3. Wanted(p, v)'
    BY <1>3, <2>1, <2>2
  <2>4. ASSUME NEW o \in session[p].start .. v - 1, Wanted(p, o)'
        PROVE  \E j \in 1 .. i - 1 : sent[p][j] = o
    <3>1. o \in Int /\ o < n
      BY <1>1, <2>2
    <3> QED
      BY <1>3, <2>1, <2>4, <3>1
  <2> QED
    BY <2>1, <2>3, <2>4
<1>7. CursorInv'
  <2> SUFFICES ASSUME NEW c \in DOMAIN subscribers, subscribers[c].fifo_fd # Nil
               PROVE  /\ Owns(c, subscribers[c].fifo_fd)'
                      /\ CompleteTo(subscribers[c].fifo_fd,
                                    subscribers[c].next_offset)'
    BY <1>2 DEF CursorInv
  <2> DEFINE p == subscribers[c].fifo_fd
             next == subscribers[c].next_offset
  <2>1. Owns(c, p) /\ CompleteTo(p, next)
    BY DEF StreamInv, CursorInv
  <2>2. p \in DOMAIN session /\ next \in Nat /\ session[p].start \in Nat
    BY <2>1, OffsetsAreNat DEF Owns, TypeOK, ActiveSubscriber, Session
  <2>3. Owns(c, p)'
    BY <1>1, <1>2, <2>1, <2>2 DEF Owns
  <2>4. ASSUME NEW o \in session[p].start .. next - 1, Wanted(p, o)'
        PROVE  Received(p, o)
    <3>1. o < n
      BY <1>1, <2>1, <2>2 DEF Owns
    <3> QED
      BY <1>2, <1>3, <2>1, <2>2, <2>4, <3>1 DEF CompleteTo
  <2>5. CompleteTo(p, next)'
    BY <1>2, <2>1, <2>4 DEF CompleteTo, Received
  <2> QED
    BY <1>2, <2>3, <2>5
<1> QED
  BY <1>4, <1>5, <1>6, <1>7 DEF StreamInv

(* add_subscriber hands the name to a process nothing has been written to. *)
LEMMA StreamAdd ==
  ASSUME TypeOK, StreamInv, NEW c \in Clients, NEW pre \in PrefixSet,
         NEW p \in Pids, NEW start \in Offsets, add_subscriber(c, pre, p, start)
  PROVE  StreamInv'
<1>1. /\ UNCHANGED <<messages, sent, stop_flag>>
      /\ p \notin DOMAIN session /\ DOMAIN session' = DOMAIN session \cup {p}
      /\ session'[p] = [client |-> c, prefix |-> pre, start |-> start]
      /\ \A q \in DOMAIN session : session'[q] = session[q] /\ q # p
  BY DEF add_subscriber
<1>2. sent[p] = <<>> /\ Len(sent[p]) = 0
  BY <1>1 DEF StreamInv, NothingSentBefore
<1>3. LogPositions' /\ NothingSentBefore'
  BY <1>1 DEF StreamInv, LogPositions, NothingSentBefore
<1>4. StreamExact'
  BY <1>1, <1>2 DEF StreamInv, StreamExact, FrameExact, Wanted
<1>5. CursorInv'
  <2> SUFFICES ASSUME NEW d \in DOMAIN subscribers', subscribers'[d].fifo_fd # Nil
               PROVE  /\ Owns(d, subscribers[d].fifo_fd)'
                      /\ CompleteTo(subscribers[d].fifo_fd,
                                    subscribers[d].next_offset)'
    BY DEF CursorInv
  <2>1. CASE d = c
    <3>1. subscribers'[d] = [prefix |-> pre, fifo_path |-> p, fifo_fd |-> p,
                             next_offset |-> start]
      BY <2>1 DEF add_subscriber
    <3>2. start \in Nat
      BY OffsetsAreNat
    <3> QED
      BY <1>1, <1>2, <2>1, <3>1, <3>2 DEF Owns, CompleteTo
  <2>2. CASE d # c
    <3>1. d \in DOMAIN subscribers /\ subscribers'[d] = subscribers[d]
      BY <2>2 DEF add_subscriber
    <3>2. /\ Owns(d, subscribers[d].fifo_fd)
          /\ CompleteTo(subscribers[d].fifo_fd, subscribers[d].next_offset)
      BY <3>1 DEF StreamInv, CursorInv
    <3> QED
      BY <1>1, <3>1, <3>2 DEF Owns, CompleteTo, Wanted, Received
  <2> QED
    BY <2>1, <2>2
<1> QED
  BY <1>3, <1>4, <1>5 DEF StreamInv

(* What the pass knows about the message it looks at, and how it moves on. *)
LEMMA AtMessageFacts ==
  ASSUME MaxMessages < U32, TypeOK, StreamInv, NEW c \in Clients, AtMessage(c),
         NEW fd, Advance(c, fd)
  PROVE  LET n == subscribers[c].next_offset
         IN  /\ c \in DOMAIN subscribers
             /\ n \in Nat /\ n < Len(messages) /\ n # SHUTDOWN_OFFSET
             /\ NextMessage(c) = messages[n + 1] /\ NextMessage(c).offset = n
             /\ DOMAIN subscribers' = DOMAIN subscribers
             /\ subscribers'[c] = [subscribers[c] EXCEPT !.fifo_fd = fd,
                                                         !.next_offset = n + 1]
             /\ \A d \in DOMAIN subscribers \ {c} : subscribers'[d] = subscribers[d]
<1> DEFINE n == subscribers[c].next_offset
<1>1. c \in DOMAIN subscribers /\ n \in Nat /\ n < Len(messages)
  BY OffsetsAreNat DEF AtMessage, Pending, TypeOK, ActiveSubscriber
<1>2. n + 1 < U32 /\ n # SHUTDOWN_OFFSET
  BY <1>1, BoundsAssumption DEF TypeOK, SHUTDOWN_OFFSET
<1>3. (n + 1) % U32 = n + 1
  BY <1>1, <1>2, ModSmall
<1>4. NextMessage(c) = messages[n + 1] /\ NextMessage(c).offset = n
  BY <1>1 DEF NextMessage, StreamInv, LogPositions
<1>5. /\ DOMAIN subscribers' = DOMAIN subscribers
      /\ subscribers'[c] = [subscribers[c] EXCEPT !.fifo_fd = fd,
                                                  !.next_offset = n + 1]
      /\ \A d \in DOMAIN subscribers \ {c} : subscribers'[d] = subscribers[d]
  BY <1>1, <1>3 DEF Advance, TypeOK
<1> QED
  BY <1>1, <1>2, <1>4, <1>5

(* Every other subscriber's part of the invariant survives a step of the   *)
(* pass, which touches one entry and one FIFO only.                        *)
LEMMA OthersUntouched ==
  ASSUME StreamInv, NEW c \in DOMAIN subscribers,
         NEW d \in DOMAIN subscribers \ {c}, subscribers[d].fifo_fd # Nil,
         subscribers'[d] = subscribers[d], UNCHANGED <<messages, session>>,
         sent'[subscribers[d].fifo_fd] = sent[subscribers[d].fifo_fd]
  PROVE  /\ Owns(d, subscribers[d].fifo_fd)'
         /\ CompleteTo(subscribers[d].fifo_fd, subscribers[d].next_offset)'
<1>1. /\ Owns(d, subscribers[d].fifo_fd)
      /\ CompleteTo(subscribers[d].fifo_fd, subscribers[d].next_offset)
  BY DEF StreamInv, CursorInv
<1>2. Owns(d, subscribers[d].fifo_fd)'
  BY <1>1 DEF Owns
<1>3. CompleteTo(subscribers[d].fifo_fd, subscribers[d].next_offset)'
  BY <1>1 DEF CompleteTo, Wanted, Received
<1> QED
  BY <1>2, <1>3

(* A message that is not written leaves the streams exact. *)
LEMMA StreamSkip ==
  ASSUME MaxMessages < U32, TypeOK, TreeMirrorsSubscribers, StreamInv,
         NEW c \in Clients, run_skip(c)
  PROVE  StreamInv'
<1> DEFINE n == subscribers[c].next_offset
           p == subscribers[c].fifo_fd
<1>1. /\ c \in DOMAIN subscribers
      /\ n \in Nat /\ n < Len(messages)
      /\ NextMessage(c) = messages[n + 1]
      /\ DOMAIN subscribers' = DOMAIN subscribers
      /\ subscribers'[c] = [subscribers[c] EXCEPT !.fifo_fd = p,
                                                  !.next_offset = n + 1]
      /\ \A d \in DOMAIN subscribers \ {c} : subscribers'[d] = subscribers[d]
  BY AtMessageFacts DEF run_skip
<1>2. UNCHANGED <<messages, sent, session, stop_flag>>
  BY DEF run_skip
<1>3. /\ subscribers'[c].fifo_fd = p /\ subscribers'[c].next_offset = n + 1
      /\ subscribers'[c].prefix = subscribers[c].prefix
  BY <1>1 DEF TypeOK, ActiveSubscriber
<1>4. LogPositions' /\ NothingSentBefore'
  BY <1>2 DEF StreamInv, LogPositions, NothingSentBefore
<1>5. StreamExact'
  BY <1>2, FrameStable DEF StreamInv, StreamExact
<1>6. ASSUME p # Nil
      PROVE  Owns(c, p)' /\ CompleteTo(p, n)'
  <2>1. Owns(c, p) /\ CompleteTo(p, n)
    BY <1>1, <1>6 DEF StreamInv, CursorInv
  <2>2. ~Matches(subscribers[c].prefix, messages[n + 1].key)
    BY <1>1, <1>6, MatchIsOwnPrefix DEF run_skip, ToWrite
  <2>3. ~Wanted(p, n)
    BY <2>1, <2>2 DEF Owns, Wanted
  <2>4. p \in DOMAIN session /\ session[p].start \in Nat
    BY <2>1, OffsetsAreNat DEF Owns, TypeOK, Session
  <2>5. Owns(c, p)'
    BY <1>1, <1>2, <1>3, <2>1, <2>4 DEF Owns
  <2>6. p \in Pids
    BY <2>4 DEF TypeOK
  <2>7. \A i \in 1 .. Len(sent[p]) :
           sent[p][i] # SHUTDOWN_OFFSET /\ sent[p][i] < n + 1
    <3> SUFFICES ASSUME NEW i \in 1 .. Len(sent[p])
                 PROVE  sent[p][i] # SHUTDOWN_OFFSET /\ sent[p][i] < n + 1
      OBVIOUS
    <3>1. sent[p][i] \in Nat
      BY <2>6, OffsetsAreNat DEF TypeOK
    <3> QED
      BY <1>1, <2>1, <3>1 DEF CompleteTo
  <2>8. \A o \in session[p].start .. n : Wanted(p, o) => Received(p, o)
    BY <1>1, <2>1, <2>3, <2>4 DEF CompleteTo
  <2> QED
    BY <1>1, <1>2, <1>3, <2>1, <2>5, <2>7, <2>8
    DEF CompleteTo, Wanted, Received
<1>7. CursorInv'
  <2> SUFFICES ASSUME NEW d \in DOMAIN subscribers, subscribers'[d].fifo_fd # Nil
               PROVE  /\ Owns(d, subscribers[d].fifo_fd)'
                      /\ CompleteTo(subscribers[d].fifo_fd,
                                    subscribers[d].next_offset)'
    BY <1>1 DEF CursorInv
  <2>1. CASE d = c
    BY <1>3, <1>6, <2>1
  <2>2. CASE d # c
    BY <1>1, <1>2, <2>2, OthersUntouched
  <2> QED
    BY <2>1, <2>2
<1> QED
  BY <1>4, <1>5, <1>7 DEF StreamInv

(* A written frame is the next one its process subscribed to. *)
LEMMA StreamWrite ==
  ASSUME MaxMessages < U32, TypeOK, TreeMirrorsSubscribers, StreamInv,
         NEW c \in Clients, run_write(c)
  PROVE  StreamInv'
<1> DEFINE n == subscribers[c].next_offset
<1>0. PICK p : p = subscribers[c].fifo_fd
  OBVIOUS
<1>1. /\ c \in DOMAIN subscribers
      /\ n \in Nat /\ n < Len(messages) /\ n # SHUTDOWN_OFFSET
      /\ NextMessage(c) = messages[n + 1] /\ NextMessage(c).offset = n
      /\ DOMAIN subscribers' = DOMAIN subscribers
      /\ subscribers'[c] = [subscribers[c] EXCEPT !.fifo_fd = p,
                                                  !.next_offset = n + 1]
      /\ \A d \in DOMAIN subscribers \ {c} : subscribers'[d] = subscribers[d]
  BY <1>0, AtMessageFacts DEF run_write
<1>2. UNCHANGED <<messages, session, stop_flag>>
  BY DEF run_write
<1>3. /\ subscribers'[c].fifo_fd = p /\ subscribers'[c].next_offset = n + 1
      /\ subscribers'[c].prefix = subscribers[c].prefix
  BY <1>1 DEF TypeOK, ActiveSubscriber
<1>4. p # Nil /\ Matches(subscribers[c].prefix, messages[n + 1].key)
  BY <1>0, <1>1, MatchIsOwnPrefix DEF run_write, ToWrite
<1>5. Owns(c, p) /\ CompleteTo(p, n)
  BY <1>0, <1>1, <1>4 DEF StreamInv, CursorInv
<1>6. p \in DOMAIN session /\ p \in Pids /\ session[p].start \in Nat
  BY <1>5, OffsetsAreNat DEF Owns, TypeOK, Session
<1>7. Wanted(p, n)
  BY <1>1, <1>4, <1>5, <1>6 DEF Owns, Wanted
<1>8. /\ sent[p] \in Seq(Offsets) /\ Len(sent[p]) \in Nat
      /\ sent' = [sent EXCEPT ![p] = Append(sent[p], n)]
  BY <1>0, <1>1, <1>6 DEF run_write, TypeOK
<1>9. /\ \A q \in Pids \ {p} : sent'[q] = sent[q]
      /\ Len(sent'[p]) = Len(sent[p]) + 1
      /\ sent'[p][Len(sent[p]) + 1] = n
      /\ \A i \in 1 .. Len(sent[p]) : sent'[p][i] = sent[p][i]
  BY <1>6, <1>8 DEF TypeOK
<1>10. LogPositions' /\ NothingSentBefore'
  BY <1>2, <1>6, <1>9 DEF StreamInv, LogPositions, NothingSentBefore
<1>11. StreamExact'
  <2> SUFFICES ASSUME NEW q \in DOMAIN session, NEW i \in 1 .. Len(sent'[q])
               PROVE  FrameExact(q, i)'
    BY <1>2 DEF StreamExact
  <2>1. CASE q # p
    <3>1. sent'[q] = sent[q]
      BY <1>9, <2>1 DEF TypeOK
    <3> QED
      BY <1>2, <3>1, FrameStable DEF StreamInv, StreamExact
  <2>2. CASE q = p /\ i \in 1 .. Len(sent[p])
    <3>1. FrameExact(p, i) /\ sent[p][i] # SHUTDOWN_OFFSET
      BY <1>5, <1>6, <2>2 DEF StreamInv, StreamExact, CompleteTo
    <3> QED
      BY <1>2, <1>8, <1>9, <2>2, <3>1, FrameExtended
  <2>3. CASE q = p /\ i = Len(sent[p]) + 1
    <3>1. PICK v : v = n /\ v = sent'[p][i]
      BY <1>9, <2>3
    <3>2. i > 1 => sent'[p][i - 1] < v
      BY <1>5, <1>8, <1>9, <2>3, <3>1 DEF CompleteTo
    <3>3. ASSUME NEW o \in session[p].start .. v - 1, Wanted(p, o)
          PROVE  \E j \in 1 .. i - 1 : sent'[p][j] = o
      BY <1>5, <1>8, <1>9, <2>3, <3>1, <3>3 DEF CompleteTo, Received
    <3> QED
      BY <1>2, <1>7, <2>3, <3>1, <3>2, <3>3 DEF FrameExact, Wanted
  <2>4. q = p => i \in 1 .. Len(sent[p]) + 1
    BY <1>9
  <2> QED
    BY <1>8, <2>1, <2>2, <2>3, <2>4
<1>12. Owns(c, p)'
  BY <1>1, <1>2, <1>3, <1>5, <1>6 DEF Owns
<1>13. CompleteTo(p, n)'
  <2>1. \A i \in 1 .. Len(sent'[p]) :
           sent'[p][i] # SHUTDOWN_OFFSET /\ sent'[p][i] < n + 1
    <3> SUFFICES ASSUME NEW i \in 1 .. Len(sent'[p])
                 PROVE  sent'[p][i] # SHUTDOWN_OFFSET /\ sent'[p][i] < n + 1
      OBVIOUS
    <3>1. CASE i = Len(sent[p]) + 1
      BY <1>1, <1>9, <3>1
    <3>2. CASE i \in 1 .. Len(sent[p])
      <4>0. sent[p][i] \in Offsets
        BY <1>8, <3>2
      <4>1. sent[p][i] \in Nat
        BY <4>0, OffsetsAreNat
      <4> QED
        BY <1>1, <1>5, <1>9, <3>2, <4>1 DEF CompleteTo
    <3> QED
      BY <1>8, <1>9, <3>1, <3>2
  <2>2. ASSUME NEW o \in session[p].start .. n, Wanted(p, o)
        PROVE  \E j \in 1 .. Len(sent'[p]) : sent'[p][j] = o
    <3>1. CASE o = n
      BY <1>8, <1>9, <3>1
    <3>2. CASE o # n
      <4>1. Received(p, o)
        BY <1>1, <1>5, <1>6, <2>2, <3>2 DEF CompleteTo
      <4> QED
        BY <1>8, <1>9, <4>1 DEF Received
    <3> QED
      BY <3>1, <3>2
  <2> QED
    BY <1>1, <1>2, <1>3, <2>1, <2>2 DEF CompleteTo, Wanted, Received
<1>14. CursorInv'
  <2> SUFFICES ASSUME NEW d \in DOMAIN subscribers, subscribers'[d].fifo_fd # Nil
               PROVE  /\ Owns(d, subscribers[d].fifo_fd)'
                      /\ CompleteTo(subscribers[d].fifo_fd,
                                    subscribers[d].next_offset)'
    BY <1>1 DEF CursorInv
  <2>1. CASE d = c
    BY <1>3, <1>12, <1>13, <2>1
  <2>2. CASE d # c
    <3>1. subscribers[d].fifo_fd # p /\ subscribers[d].fifo_fd \in Pids
      BY <1>0, <1>1, <1>4, <2>2, OneOwner DEF StreamInv, TypeOK, ActiveSubscriber
    <3> QED
      BY <1>1, <1>2, <1>9, <2>2, <3>1, OthersUntouched
  <2> QED
    BY <2>1, <2>2
<1> QED
  BY <1>10, <1>11, <1>14 DEF StreamInv

(* The sentinels of shutdown() are the last frames. *)
LEMMA StreamShutdown ==
  ASSUME TypeOK, StreamInv, shutdown
  PROVE  StreamInv'
<1>1. /\ UNCHANGED <<messages, session>>
      /\ stop_flag' /\ DOMAIN subscribers' = {}
  BY DEF shutdown
<1>2. PICK reached \in SUBSET OpenFds :
        sent' = [p \in Pids |-> IF p \in reached
                                THEN Append(sent[p], SHUTDOWN_OFFSET)
                                ELSE sent[p]]
  BY DEF shutdown
<1>3. ASSUME NEW p \in reached
      PROVE  /\ p \in DOMAIN session /\ p \in Pids
             /\ \A i \in 1 .. Len(sent[p]) : sent[p][i] # SHUTDOWN_OFFSET
  <2>1. PICK c \in DOMAIN subscribers : subscribers[c].fifo_fd = p /\ p # Nil
    BY <1>2, <1>3 DEF OpenFds
  <2>2. Owns(c, p) /\ CompleteTo(p, subscribers[c].next_offset)
    BY <2>1 DEF StreamInv, CursorInv
  <2> QED
    BY <2>2 DEF Owns, CompleteTo, TypeOK
<1>4. LogPositions' /\ NothingSentBefore'
  BY <1>1, <1>2, <1>3 DEF StreamInv, LogPositions, NothingSentBefore
<1>5. StreamExact'
  <2> SUFFICES ASSUME NEW p \in DOMAIN session, NEW i \in 1 .. Len(sent'[p])
               PROVE  FrameExact(p, i)'
    BY <1>1 DEF StreamExact
  <2>0. p \in Pids
    BY DEF TypeOK
  <2>1. CASE p \notin reached
    <3>1. sent'[p] = sent[p]
      BY <1>2, <2>0, <2>1
    <3> QED
      BY <1>1, <3>1, FrameStable DEF StreamInv, StreamExact
  <2>2. CASE p \in reached
    <3>1. /\ sent[p] \in Seq(Offsets) /\ Len(sent[p]) \in Nat
          /\ sent'[p] = Append(sent[p], SHUTDOWN_OFFSET)
      BY <1>2, <2>0, <2>2 DEF TypeOK
    <3>2. /\ Len(sent'[p]) = Len(sent[p]) + 1
          /\ sent'[p][Len(sent[p]) + 1] = SHUTDOWN_OFFSET
          /\ \A j \in 1 .. Len(sent[p]) : sent'[p][j] = sent[p][j]
      BY <3>1
    <3>3. CASE i = Len(sent[p]) + 1
      BY <1>1, <3>2, <3>3 DEF FrameExact
    <3>4. CASE i \in 1 .. Len(sent[p])
      <4>1. FrameExact(p, i) /\ sent[p][i] # SHUTDOWN_OFFSET
        BY <1>3, <2>2, <3>4 DEF StreamInv, StreamExact
      <4> QED
        BY <1>1, <3>1, <3>2, <3>4, <4>1, FrameExtended
    <3> QED
      BY <3>1, <3>2, <3>3, <3>4
  <2> QED
    BY <2>1, <2>2
<1>6. CursorInv'
  BY <1>1 DEF CursorInv
<1> QED
  BY <1>4, <1>5, <1>6 DEF StreamInv

(* Every step preserves the invariant of the streams. *)
LEMMA StreamNext ==
  ASSUME MaxMessages < U32
  PROVE  TypeOK /\ TreeMirrorsSubscribers /\ StreamInv /\ [Next]_vars => StreamInv'
<1> SUFFICES ASSUME TypeOK, TreeMirrorsSubscribers, StreamInv, [Next]_vars
             PROVE  StreamInv'
  OBVIOUS
<1> USE DEF topicVars, threadVars, procVars
<1>1. ASSUME UNCHANGED <<topicVars, sent, session>>
      PROVE  StreamInv'
  BY <1>1, StreamForget
<1>2. ASSUME NEW c \in Clients, subscribers' = Without(c),
             UNCHANGED <<messages, stop_flag, sent, session>>
      PROVE  StreamInv'
  BY <1>2, StreamForget DEF Without
<1>3. ASSUME NEW c \in Clients, run_write_fails(c) PROVE StreamInv'
  <2>1. Advance(c, Nil) /\ c \in DOMAIN subscribers
    BY <1>3 DEF run_write_fails, AtMessage
  <2>2. /\ DOMAIN subscribers' = DOMAIN subscribers
        /\ subscribers'[c].fifo_fd = Nil
        /\ \A d \in DOMAIN subscribers \ {c} : subscribers'[d] = subscribers[d]
    BY <2>1 DEF Advance, TypeOK, ActiveSubscriber
  <2> QED
    BY <1>3, <2>2, StreamForget DEF run_write_fails
<1>4. CASE MainThread
  BY <1>1, <1>2, <1>4, StreamAppend, StreamAdd, StreamShutdown
  DEF MainThread, add_subscriber_fails, remove_subscriber, shutdown_notify,
      shutdown_join
<1>5. CASE WorkerThread
  BY <1>1, <1>3, <1>5, StreamWrite, StreamSkip
  DEF WorkerThread, Deliver, run_lock, run_spurious_wakeup, run_unlock
<1>6. CASE Processes \/ UNCHANGED vars
  BY <1>1, <1>6 DEF Processes, create_fifo, read_frame, exit, vars
<1> QED
  BY <1>4, <1>5, <1>6 DEF Next

(* TopicInv is an invariant of the topic for all constants, as long as     *)
(* fewer than 2^32 messages are published to it.                           *)
THEOREM TopicInvariance ==
  ASSUME MaxMessages < U32
  PROVE  Spec => []TopicInv
<1>1. Init => TopicInv
  <2>1. Init => WakeupPending
    BY DEF Init, WakeupPending
  <2> QED
    BY <2>1, TypeInit, TreeInit, StreamInit DEF TopicInv
<1>2. TopicInv /\ [Next]_vars => TopicInv'
  <2>1. TypeOK /\ [Next]_vars => TypeOK'
    BY TypeMain, TypeWorker, TypeProcesses, TypeStutter DEF Next
  <2> QED
    BY <2>1, TreeNext, WakeupNext, StreamNext DEF TopicInv
<1> QED
  BY <1>1, <1>2, PTL DEF Spec

(* Topic::run writes to every process, from the offset it asked for on,    *)
(* exactly the matching offsets in increasing order, and the sentinel of   *)
(* shutdown() last, whatever the readers, the pipes and the other          *)
(* subscribers do.                                                         *)
THEOREM StreamsExact ==
  ASSUME MaxMessages < U32
  PROVE  Spec => []StreamExact
<1>1. TopicInv => StreamExact
  BY DEF TopicInv, StreamInv
<1> QED
  BY <1>1, TopicInvariance, PTL

(* The worker never sleeps on an undelivered message: the notifications of *)
(* append_message, add_subscriber and shutdown are enough.                 *)
THEOREM SleepSafe ==
  ASSUME MaxMessages < U32
  PROVE  Spec => []SleepMeansDelivered
<1>1. TopicInv => SleepMeansDelivered
  <2> SUFFICES ASSUME TopicInv, worker = "waiting", ~stop_flag,
                      NEW p \in OpenFds, NEW o \in 0 .. Len(messages) - 1,
                      Wanted(p, o)
               PROVE  Received(p, o)
    BY DEF SleepMeansDelivered, TopicInv, WakeupPending
  <2>1. PICK c \in DOMAIN subscribers : subscribers[c].fifo_fd = p /\ p # Nil
    BY DEF OpenFds
  <2>2. ~Pending(c) /\ Owns(c, p) /\ CompleteTo(p, subscribers[c].next_offset)
    BY <2>1 DEF TopicInv, WakeupPending, StreamInv, CursorInv
  <2>3. /\ subscribers[c].next_offset \in Nat /\ Len(messages) \in Nat
        /\ session[p].start \in Nat
    BY <2>1, <2>2, OffsetsAreNat
    DEF TopicInv, TypeOK, ActiveSubscriber, Session, Owns
  <2>4. o \in session[p].start .. subscribers[c].next_offset - 1
    BY <2>2, <2>3 DEF Pending, Wanted
  <2> QED
    BY <2>2, <2>4 DEF CompleteTo
<1> QED
  BY <1>1, TopicInvariance, PTL
-----------------------------------------------------------------------------
(* Topic implements PubSub, for all constants: with the log, the open      *)
(* descriptors and the frames written standing for PubSub's log, live and  *)
(* stream, every step of the main thread, the worker and the reading       *)
(* processes is a step PubSub allows or leaves its variables alone.        *)

(* The keys of Topic::messages, as PubSub sees the log. *)
KeyLog == [i \in 1 .. Len(messages) |-> messages[i].key]

psVars == <<KeyLog, session, OpenFds, sent>>

(* The log PubSub sees is a sequence of keys as long as messages. *)
LEMMA KeyLogFacts ==
  ASSUME TypeOK
  PROVE  /\ KeyLog \in Seq(Keys) /\ Len(KeyLog) = Len(messages)
         /\ \A i \in 1 .. Len(messages) : KeyLog[i] = messages[i].key
<1>1. Len(messages) \in Nat /\ \A i \in 1 .. Len(messages) : messages[i].key \in Keys
  <2>1. messages \in Seq(Message)
    BY DEF TypeOK
  <2>2. Len(messages) \in Nat /\ \A i \in 1 .. Len(messages) : messages[i] \in Message
    BY <2>1, LenProperties
  <2> QED
    BY <2>2 DEF Message
<1>2. /\ KeyLog \in [1 .. Len(messages) -> Keys]
      /\ \A i \in 1 .. Len(messages) : KeyLog[i] = messages[i].key
  BY <1>1 DEF KeyLog
<1>3. KeyLog \in Seq(Keys)
  BY <1>1, <1>2, SeqDef
<1>4. 1 .. Len(KeyLog) = 1 .. Len(messages) /\ Len(KeyLog) \in Nat
  BY <1>2, <1>3, LenProperties
<1> QED
  BY <1>1, <1>2, <1>3, <1>4

(* Both modules mean the same by an offset a process subscribed to. *)
LEMMA WantsIsWanted ==
  ASSUME TypeOK, NEW p \in DOMAIN session, NEW o
  PROVE  PS!Wants(p, o) <=> Wanted(p, o)
<1>1. session[p].start \in Nat /\ Len(messages) \in Nat
  BY OffsetsAreNat DEF TypeOK, Session
<1>2. o \in session[p].start .. Len(messages) - 1 => o + 1 \in 1 .. Len(messages)
  BY <1>1
<1>3. PS!Wants(p, o) <=> /\ o \in session[p].start .. Len(KeyLog) - 1
                         /\ PS!SE!IsPrefix(session[p].prefix, KeyLog[o + 1])
  BY DEF PS!Wants, KeyLog
<1>4. \A pre, key : PS!SE!IsPrefix(pre, key) <=> Matches(pre, key)
  BY DEF PS!SE!IsPrefix, Matches, SE!IsPrefix
<1> QED
  BY <1>2, <1>3, <1>4, KeyLogFacts DEF Wanted

(* A descriptor some entry holds belongs to the client of that entry. *)
LEMMA OpenFdOwner ==
  ASSUME CursorInv, NEW p \in OpenFds
  PROVE  \E c \in DOMAIN subscribers : subscribers[c].fifo_fd = p /\ p # Nil /\ Owns(c, p)
  BY DEF OpenFds, CursorInv

(* Topic::append_message publishes. *)
LEMMA AppendPublishes ==
  ASSUME TypeOK, NEW key \in Keys, append_message(key)
  PROVE  PS!Publish(key)
<1>1. messages' = Append(messages, NewMessage(key)) /\ NewMessage(key).key = key
  BY DEF append_message, NewMessage
<1>2. UNCHANGED <<session, OpenFds, sent>>
  BY DEF append_message, OpenFds
<1>3. /\ Len(messages') = Len(messages) + 1 /\ Len(messages) \in Nat
      /\ \A i \in 1 .. Len(messages) : messages'[i] = messages[i]
      /\ messages'[Len(messages) + 1].key = key
  BY <1>1 DEF TypeOK
<1>4. KeyLog' = Append(KeyLog, key)
  <2>1. KeyLog' = [i \in 1 .. Len(messages) + 1 |-> messages'[i].key]
    BY <1>3 DEF KeyLog
  <2>2. /\ KeyLog' \in [1 .. Len(messages) + 1 -> Keys]
        /\ \A i \in 1 .. Len(messages) + 1 :
             KeyLog'[i] = IF i = Len(messages) + 1 THEN key ELSE KeyLog[i]
    BY <1>3, <2>1, KeyLogFacts
  <2>3. /\ Append(KeyLog, key) \in Seq(Keys)
        /\ Len(Append(KeyLog, key)) = Len(messages) + 1
        /\ \A i \in 1 .. Len(messages) : Append(KeyLog, key)[i] = KeyLog[i]
        /\ Append(KeyLog, key)[Len(messages) + 1] = key
    <3>1. KeyLog \in Seq(Keys) /\ Len(KeyLog) = Len(messages)
      BY KeyLogFacts
    <3> QED
      BY <3>1, AppendProperties
  <2>4. Append(KeyLog, key) \in [1 .. Len(messages) + 1 -> Keys]
    BY <2>3, LenProperties
  <2> QED
    BY <1>3, <2>2, <2>3, <2>4
<1> QED
  BY <1>2, <1>4 DEF PS!Publish, KeyLog

(* Topic::add_subscriber attaches the process, and ends the one that had   *)
(* its name.                                                               *)
LEMMA AddAttaches ==
  ASSUME TypeOK, CursorInv, NEW c \in Clients, NEW pre \in PrefixSet,
         NEW p \in Pids, NEW start \in Offsets, add_subscriber(c, pre, p, start)
  PROVE  PS!Attach(p, [client |-> c, prefix |-> pre, start |-> start])
<1>1. /\ p \notin DOMAIN session /\ p # Nil
      /\ DOMAIN subscribers' = DOMAIN subscribers \cup {c}
      /\ subscribers'[c].fifo_fd = p
      /\ \A d \in DOMAIN subscribers \ {c} : subscribers'[d] = subscribers[d]
      /\ UNCHANGED <<messages, sent>>
  BY NilAssumption DEF add_subscriber
<1>2. OpenFds' = {q \in OpenFds : session[q].client # c} \cup {p}
  <2>1. ASSUME NEW q \in OpenFds'
        PROVE  q = p \/ (q \in OpenFds /\ session[q].client # c)
    <3>1. PICK d \in DOMAIN subscribers' : subscribers'[d].fifo_fd = q /\ q # Nil
      BY <2>1 DEF OpenFds
    <3> QED
      BY <1>1, <3>1 DEF OpenFds, CursorInv, Owns
  <2>2. ASSUME NEW q \in OpenFds, session[q].client # c
        PROVE  q \in OpenFds'
    <3>1. PICK d \in DOMAIN subscribers : subscribers[d].fifo_fd = q /\ q # Nil /\ Owns(d, q)
      BY OpenFdOwner
    <3> QED
      BY <1>1, <2>2, <3>1 DEF OpenFds, Owns
  <2>3. p \in OpenFds'
    BY <1>1 DEF OpenFds
  <2> QED
    BY <2>1, <2>2, <2>3
<1>3. session' = [q \in DOMAIN session \cup {p} |->
                    IF q = p THEN [client |-> c, prefix |-> pre, start |-> start]
                    ELSE session[q]]
  BY DEF add_subscriber
<1> QED
  BY <1>1, <1>2, <1>3 DEF PS!Attach

(* A client whose descriptor is closed loses its process, if it had one,   *)
(* and nobody else is touched.                                             *)
LEMMA ForgetDetaches ==
  ASSUME TypeOK, CursorInv, NEW c \in Clients,
         UNCHANGED <<messages, sent, session>>,
         c \in DOMAIN subscribers' => subscribers'[c].fifo_fd = Nil,
         DOMAIN subscribers' \cup {c} = DOMAIN subscribers \cup {c},
         \A d \in DOMAIN subscribers \ {c} : subscribers'[d] = subscribers[d]
  PROVE  (\E p \in Pids : PS!Detach(p)) \/ UNCHANGED psVars
<1>1. UNCHANGED KeyLog
  BY DEF KeyLog
<1>2. CASE c \in DOMAIN subscribers /\ subscribers[c].fifo_fd # Nil
  <2>1. PICK p \in Pids : p = subscribers[c].fifo_fd /\ p # Nil
    BY <1>2 DEF TypeOK, ActiveSubscriber
  <2>2. p \in OpenFds
    BY <1>2, <2>1 DEF OpenFds
  <2>3. OpenFds' = OpenFds \ {p}
    <3>1. ASSUME NEW q \in OpenFds' PROVE q \in OpenFds \ {p}
      <4>1. PICK d \in DOMAIN subscribers' : subscribers'[d].fifo_fd = q /\ q # Nil
        BY <3>1 DEF OpenFds
      <4>2. d # c /\ d \in DOMAIN subscribers /\ subscribers[d].fifo_fd = q
        BY <4>1
      <4> QED
        BY <1>2, <2>1, <4>1, <4>2, OneOwner DEF OpenFds
    <3>2. ASSUME NEW q \in OpenFds \ {p} PROVE q \in OpenFds'
      <4>1. PICK d \in DOMAIN subscribers : subscribers[d].fifo_fd = q /\ q # Nil
        BY <3>2 DEF OpenFds
      <4> QED
        BY <2>1, <4>1 DEF OpenFds
    <3> QED
      BY <3>1, <3>2
  <2> QED
    BY <1>1, <2>2, <2>3 DEF PS!Detach, KeyLog
<1>3. CASE ~(c \in DOMAIN subscribers /\ subscribers[c].fifo_fd # Nil)
  <2>1. OpenFds' = OpenFds
    <3>1. ASSUME NEW q \in OpenFds' PROVE q \in OpenFds
      BY <3>1 DEF OpenFds
    <3>2. ASSUME NEW q \in OpenFds PROVE q \in OpenFds'
      BY <1>3, <3>2 DEF OpenFds
    <3> QED
      BY <3>1, <3>2
  <2> QED
    BY <1>1, <2>1 DEF psVars
<1> QED
  BY <1>2, <1>3

(* A step of the pass that keeps the descriptor keeps the open descriptors. *)
LEMMA AdvanceKeepsLive ==
  ASSUME NEW c \in DOMAIN subscribers, DOMAIN subscribers' = DOMAIN subscribers,
         subscribers'[c].fifo_fd = subscribers[c].fifo_fd,
         \A d \in DOMAIN subscribers \ {c} : subscribers'[d] = subscribers[d]
  PROVE  UNCHANGED OpenFds
<1>1. \A d \in DOMAIN subscribers : subscribers'[d].fifo_fd = subscribers[d].fifo_fd
  OBVIOUS
<1> QED
  BY <1>1 DEF OpenFds

(* A frame Topic::run writes is the one its process is due. *)
LEMMA WritePushes ==
  ASSUME MaxMessages < U32, TypeOK, TreeMirrorsSubscribers, StreamInv,
         NEW c \in Clients, run_write(c)
  PROVE  \E p \in Pids : PS!Push(p)
<1> DEFINE n == subscribers[c].next_offset
<1>0. PICK p : p = subscribers[c].fifo_fd
  OBVIOUS
<1>1. /\ c \in DOMAIN subscribers
      /\ n \in Nat /\ n < Len(messages)
      /\ NextMessage(c) = messages[n + 1] /\ NextMessage(c).offset = n
      /\ DOMAIN subscribers' = DOMAIN subscribers
      /\ subscribers'[c] = [subscribers[c] EXCEPT !.fifo_fd = p,
                                                  !.next_offset = n + 1]
      /\ \A d \in DOMAIN subscribers \ {c} : subscribers'[d] = subscribers[d]
  BY <1>0, AtMessageFacts DEF run_write
<1>2. p # Nil /\ Matches(subscribers[c].prefix, messages[n + 1].key)
  BY <1>0, <1>1, MatchIsOwnPrefix DEF run_write, ToWrite
<1>3. Owns(c, p) /\ CompleteTo(p, n)
  BY <1>0, <1>1, <1>2 DEF StreamInv, CursorInv
<1>4. /\ p \in DOMAIN session /\ p \in Pids /\ session[p].start \in Nat
      /\ sent[p] \in Seq(Offsets) /\ Len(sent[p]) \in Nat
  BY <1>3, OffsetsAreNat DEF Owns, TypeOK, Session
<1>5. Wanted(p, n)
  BY <1>1, <1>2, <1>3, <1>4 DEF Owns, Wanted
<1>6. \A x : PS!SE!Contains(sent[p], x) <=> Received(p, x)
  BY DEF PS!SE!Contains, Received
<1>7. PS!Due(p, n)
  <2>1. PS!Wants(p, n)
    BY <1>4, <1>5, WantsIsWanted
  <2>2. ~Received(p, n)
    BY <1>1, <1>3, <1>4 DEF CompleteTo, Received
  <2>3. ASSUME NEW x \in session[p].start .. n - 1, PS!Wants(p, x)
        PROVE  Received(p, x)
    BY <1>3, <1>4, <2>3, WantsIsWanted DEF CompleteTo
  <2> QED
    BY <1>6, <2>1, <2>2, <2>3 DEF PS!Due
<1>8. p \in OpenFds
  BY <1>0, <1>1, <1>2 DEF OpenFds
<1>9. UNCHANGED <<KeyLog, session, OpenFds>>
  <2>1. subscribers'[c].fifo_fd = subscribers[c].fifo_fd
    BY <1>0, <1>1 DEF TypeOK, ActiveSubscriber
  <2> QED
    BY <1>1, <2>1, AdvanceKeepsLive DEF run_write, KeyLog
<1>10. sent' = [sent EXCEPT ![p] = Append(@, n)]
  BY <1>0, <1>1 DEF run_write
<1>11. n \in 0 .. Len(KeyLog) - 1
  BY <1>1, KeyLogFacts DEF TypeOK
<1> QED
  BY <1>4, <1>7, <1>8, <1>9, <1>10, <1>11 DEF PS!Push, KeyLog

(* A message nobody is written leaves what PubSub sees alone. *)
LEMMA SkipStutters ==
  ASSUME MaxMessages < U32, TypeOK, StreamInv, NEW c \in Clients, run_skip(c)
  PROVE  UNCHANGED psVars
<1>1. /\ c \in DOMAIN subscribers /\ DOMAIN subscribers' = DOMAIN subscribers
      /\ subscribers'[c] = [subscribers[c] EXCEPT
                              !.fifo_fd = subscribers[c].fifo_fd,
                              !.next_offset = subscribers[c].next_offset + 1]
      /\ \A d \in DOMAIN subscribers \ {c} : subscribers'[d] = subscribers[d]
  BY AtMessageFacts DEF run_skip
<1>2. subscribers'[c].fifo_fd = subscribers[c].fifo_fd
  BY <1>1 DEF TypeOK, ActiveSubscriber
<1> QED
  BY <1>1, <1>2, AdvanceKeepsLive DEF run_skip, psVars, KeyLog

(* A failed write closes one descriptor. *)
LEMMA FailedWriteDetaches ==
  ASSUME TypeOK, CursorInv, NEW c \in Clients, run_write_fails(c)
  PROVE  (\E p \in Pids : PS!Detach(p)) \/ UNCHANGED psVars
<1>1. Advance(c, Nil) /\ c \in DOMAIN subscribers /\ UNCHANGED <<messages, sent, session>>
  BY DEF run_write_fails, AtMessage
<1>2. /\ DOMAIN subscribers' = DOMAIN subscribers
      /\ subscribers'[c].fifo_fd = Nil
      /\ \A d \in DOMAIN subscribers \ {c} : subscribers'[d] = subscribers[d]
  BY <1>1 DEF Advance, TypeOK, ActiveSubscriber
<1> QED
  BY <1>1, <1>2, ForgetDetaches

(* Topic::shutdown closes. *)
LEMMA ShutdownCloses ==
  ASSUME shutdown
  PROVE  PS!Close
<1>1. PICK reached \in SUBSET OpenFds :
        sent' = [p \in Pids |-> IF p \in reached
                                THEN Append(sent[p], SHUTDOWN_OFFSET)
                                ELSE sent[p]]
  BY DEF shutdown
<1>2. OpenFds' = {} /\ UNCHANGED <<messages, session>>
  BY DEF shutdown, OpenFds
<1> QED
  BY <1>1, <1>2 DEF PS!Close

(* Every step of Topic is a step of PubSub or changes nothing it sees. *)
LEMMA StepImplements ==
  ASSUME MaxMessages < U32, TopicInv, [Next]_vars
  PROVE  PS!Next \/ UNCHANGED psVars
<1>0. TypeOK /\ TreeMirrorsSubscribers /\ StreamInv /\ CursorInv
  BY DEF TopicInv, StreamInv
<1> USE DEF topicVars, threadVars, procVars
<1>1. ASSUME UNCHANGED <<messages, subscribers, sent, session>>
      PROVE  UNCHANGED psVars
  BY <1>1 DEF psVars, KeyLog, OpenFds
<1>2. ASSUME NEW c \in Clients, subscribers' = Without(c),
             UNCHANGED <<messages, sent, session>>
      PROVE  (\E p \in Pids : PS!Detach(p)) \/ UNCHANGED psVars
  <2>1. /\ DOMAIN subscribers' = DOMAIN subscribers \ {c}
        /\ \A d \in DOMAIN subscribers \ {c} : subscribers'[d] = subscribers[d]
    BY <1>2 DEF Without
  <2> QED
    BY <1>0, <1>2, <2>1, ForgetDetaches
<1>3. CASE MainThread
  <2>1. CASE \E key \in Keys : append_message(key)
    BY <1>0, <2>1, AppendPublishes DEF PS!Next
  <2>2. CASE \E c \in Clients, pre \in PrefixSet, p \in Pids, start \in Offsets :
               add_subscriber(c, pre, p, start)
    BY <1>0, <2>2, AddAttaches DEF PS!Next
  <2>3. CASE \E c \in Clients : \/ \E p \in Pids : add_subscriber_fails(c, p)
                                \/ remove_subscriber(c)
    BY <1>2, <2>3 DEF PS!Next, add_subscriber_fails, remove_subscriber
  <2>4. CASE shutdown
    BY <2>4, ShutdownCloses DEF PS!Next
  <2>5. CASE shutdown_notify \/ shutdown_join
    BY <1>1, <2>5 DEF shutdown_notify, shutdown_join
  <2> QED
    BY <1>3, <2>1, <2>2, <2>3, <2>4, <2>5 DEF MainThread
<1>4. CASE WorkerThread
  <2>1. CASE \E c \in Clients : run_write(c)
    BY <1>0, <2>1, WritePushes DEF PS!Next
  <2>2. CASE \E c \in Clients : run_write_fails(c)
    BY <1>0, <2>2, FailedWriteDetaches DEF PS!Next
  <2>3. CASE \E c \in Clients : run_skip(c)
    BY <1>0, <2>3, SkipStutters
  <2>4. CASE run_lock \/ run_spurious_wakeup \/ run_unlock
    BY <1>1, <2>4 DEF run_lock, run_spurious_wakeup, run_unlock
  <2> QED
    BY <1>4, <2>1, <2>2, <2>3, <2>4 DEF WorkerThread, Deliver
<1>5. CASE Processes \/ UNCHANGED vars
  BY <1>1, <1>5 DEF Processes, create_fifo, read_frame, exit, vars
<1> QED
  BY <1>3, <1>4, <1>5 DEF Next

(* A topic with its threads, its table, its routing tree and its pipes     *)
(* implements PubSub: in every behaviour, with fewer than 2^32 messages,   *)
(* a process attached to it gets the offsets it asked for in log order,    *)
(* none twice and none left out, until it is let go.                       *)
THEOREM TopicImplementsPubSub ==
  ASSUME MaxMessages < U32
  PROVE  Spec => ImplementsPubSub
<1>1. Init => PS!Init
  <2> SUFFICES ASSUME Init PROVE PS!Init
    OBVIOUS
  <2>1. KeyLog = <<>>
    BY DEF Init, KeyLog
  <2>2. session = [p \in {} |-> 0]
    BY DEF Init
  <2>3. OpenFds = {}
    BY DEF Init, OpenFds
  <2> QED
    BY <2>1, <2>2, <2>3 DEF Init, PS!Init, KeyLog
<1>2. TopicInv /\ [Next]_vars => [PS!Next]_(PS!vars)
  BY StepImplements DEF psVars, PS!vars, KeyLog
<1> QED
  BY <1>1, <1>2, TopicInvariance, PTL DEF Spec, PS!Spec, ImplementsPubSub
=============================================================================
