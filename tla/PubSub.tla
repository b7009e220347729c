------------------------------- MODULE PubSub --------------------------------
(***************************************************************************)
(* What a topic promises the outside world: a log that only grows, and for *)
(* every process that attached a stream of frames.  While the process is   *)
(* live its stream gets the offsets it asked for one by one, in log order, *)
(* each once and none left out; a stream may end at any offset, and the    *)
(* farewell frame can only be its last.  No thread, no lock, no routing    *)
(* table and no pipe appear here.                                          *)
(***************************************************************************)
EXTENDS Naturals, Sequences
SE == INSTANCE SequencesExt

CONSTANTS
  Clients, PrefixSet, Keys, Pids,
  Starts,    \* offsets a process may ask to start from
  Farewell   \* the frame that announces the end of the topic

VARIABLES
  log,       \* keys of the messages, by offset from 0
  session,   \* per process once attached: client, prefix and first offset
  live,      \* the processes the topic may still write to
  stream     \* per process: the frames written to it so far

vars == <<log, session, live, stream>>

Init ==
  /\ log = <<>>
  /\ session = [p \in {} |-> 0]
  /\ live = {}
  /\ stream = [p \in Pids |-> <<>>]

Publish(key) ==
  /\ log' = Append(log, key)
  /\ UNCHANGED <<session, live, stream>>

(* A name has one live process: attaching ends the one that had the name. *)
Attach(p, s) ==
  /\ p \notin DOMAIN session
  /\ session' = [q \in DOMAIN session \cup {p} |->
                   IF q = p THEN s ELSE session[q]]
  /\ live' = {q \in live : session[q].client # s.client} \cup {p}
  /\ UNCHANGED <<log, stream>>

Detach(p) ==
  /\ p \in live
  /\ live' = live \ {p}
  /\ UNCHANGED <<log, session, stream>>

(* Offset o is in the log and process p asked for it. *)
Wants(p, o) ==
  /\ o \in session[p].start .. Len(log) - 1
  /\ SE!IsPrefix(session[p].prefix, log[o + 1])

(* The one frame that may come next. *)
Due(p, o) ==
  /\ Wants(p, o) /\ ~SE!Contains(stream[p], o)
  /\ \A x \in session[p].start .. o - 1 : Wants(p, x) => SE!Contains(stream[p], x)

Push(p) ==
  /\ p \in live
  /\ \E o \in 0 .. Len(log) - 1 :
       Due(p, o) /\ stream' = [stream EXCEPT ![p] = Append(@, o)]
  /\ UNCHANGED <<log, session, live>>

(* The topic closes: some of the live processes are told, all are let go. *)
Close ==
  /\ \E told \in SUBSET live :
       stream' = [p \in Pids |->
                    IF p \in told THEN Append(stream[p], Farewell) ELSE stream[p]]
  /\ live' = {}
  /\ UNCHANGED <<log, session>>

Next ==
  \/ \E key \in Keys : Publish(key)
  \/ \E p \in Pids, c \in Clients, pre \in PrefixSet, o \in Starts :
       Attach(p, [client |-> c, prefix |-> pre, start |-> o])
  \/ \E p \in Pids : Detach(p) \/ Push(p)
  \/ Close

Spec == Init /\ [][Next]_vars
=============================================================================
