---------------------------- MODULE ShutdownProofs ----------------------------
(***************************************************************************)
(* Proofs about Shutdown.tla, for every set of topics and processes and    *)
(* every number of requests and signals: no worker is left when the        *)
(* process ends, and whoever was subscribed when stop() began has been     *)
(* told, unless a write to its pipe has failed.                            *)
(***************************************************************************)
EXTENDS Shutdown, SequenceTheorems, FiniteSetTheorems, TLAPS

(* How many steps of s from position k on are in the set K of steps.       *)
From(s, K, k) == {i \in 1 .. Len(s) : i >= k /\ s[i] \in K}
Level(s, U, L, k) == Cardinality(From(s, U, k)) - Cardinality(From(s, L, k))

(* No suffix of s locks what the rest does not unlock. *)
Closed(s, U, L) == \A k \in 1 .. Len(s) + 1 : Level(s, U, L, k) >= 0

LocksServer == {x \in Step : x.op = "lock_server"}
UnlocksServer == {x \in Step : x.op = "unlock_server"}
LocksTopic(t) == {x \in Step : x.op = "lock_topic" /\ x.t = t}
UnlocksTopic(t) == {x \in Step : x.op \in {"unlock_topic", "shut"} /\ x.t = t}

Held(mutex) == IF mutex = "main" THEN 1 ELSE 0

(* What is to be unlocked is what is held, and every suffix of the stack,  *)
(* run from a state in which it holds that much, unlocks only what is held. *)
ServerLock ==
  /\ Level(todo, UnlocksServer, LocksServer, 1) = Held(server_mutex)
  /\ Closed(todo, UnlocksServer, LocksServer)
TopicLock(t) ==
  /\ Level(todo, UnlocksTopic(t), LocksTopic(t), 1) = Held(topic_mutex[t])
  /\ Closed(todo, UnlocksTopic(t), LocksTopic(t))
LockInv == ServerLock /\ \A t \in Topics : TopicLock(t)

(* The steps of a program. *)
Elements(s) == {s[i] : i \in 1 .. Len(s)}

(* The steps yet to be done. *)
Pending == {todo[i] : i \in 1 .. Len(todo)}
PendingOf(op, t) == \E x \in Pending : x.op = op /\ x.t = t

(* Topics have workers, and only they; only their tables are worked on. *)
TopicInv ==
  /\ \A t \in Topics : worker[t] # "none" \/ stop_flag[t] => t \in topics
  /\ \A x \in Pending : x.op \in {"shut", "attach"} => x.t \in topics
  /\ \A x \in Pending : x.op = "shutdown_rest" => x.rest \subseteq topics

(* Once run() has returned no topic is made, and every topic is shut down  *)
(* or going to be.                                                         *)
Doomed(t) ==
  \/ stop_flag[t] \/ PendingOf("shut", t)
  \/ \E x \in Pending : x.op = "shutdown_all" \/ (x.op = "shutdown_rest" /\ t \in x.rest)
LeavingInv ==
  /\ main # "run" => /\ \A x \in Pending : x.op \notin {"create", "attach", "accept"}
                     /\ \A t \in topics : Doomed(t)
                     /\ ~running
  /\ main = "exited" => todo = <<>>

(* A stopped worker has ended, or is waited for. *)
JoinInv == \A t \in Topics : stop_flag[t] => worker[t] = "done" \/ PendingOf("join", t)

(* Before stop() no topic is stopped or about to be. *)
RunningInv ==
  running => /\ early = {} /\ \A t \in Topics : ~stop_flag[t]
             /\ \A x \in Pending : x.op \notin {"shut", "shutdown_all", "shutdown_rest"}

(* The requests read and to be read, in the order they are handled.        *)
Stream == recv_buf \o inbox
SubscribeOf(r, p) == r.op = "SUBSCRIBE" /\ r.p = p
Asks(p) == \E i \in 1 .. Len(Stream) : SubscribeOf(Stream[i], p)
PendingFor(op, p) == \E x \in Pending : x.op = op /\ x.p = p

Leaves(p) == \E i \in 1 .. Len(Stream) : Stream[i].op = "DISCONNECT" /\ Stream[i].p = p
AsksOnce(p) ==
  \A i, j \in 1 .. Len(Stream) : SubscribeOf(Stream[i], p) /\ SubscribeOf(Stream[j], p) => i = j

(* A process subscribes once, and its subscription is in one place.        *)
Subscription(p) ==
  /\ AsksOnce(p)
  /\ Asks(p) => sub[p] = "asked" /\ ~PendingFor("accept", p)
  /\ PendingFor("accept", p) => sub[p] = "asked"
  /\ Leaves(p) => sub[p] = "left"
  /\ PendingFor("detach", p) => sub[p] = "left"
SubscribeInv == \A p \in Procs : Subscription(p)

(* A subscription that is being handled is at the bottom of the stack.     *)
BottomInv ==
  \A i \in 1 .. Len(todo) :
    /\ todo[i].op = "accept" =>
         /\ i = Len(todo) - 4 /\ todo[i + 1].op = "lock_topic"
         /\ todo[i + 2] = [todo[i] EXCEPT !.op = "attach"]
    /\ todo[i].op = "attach" =>
         /\ i = Len(todo) - 2 /\ todo[i + 1].op = "unlock_topic"
         /\ todo[i + 2].op = "unlock_server"

(* Accepted and not attached yet: stop() would wait for server_mutex.      *)
Between(p) ==
  \E i \in 1 .. Len(todo) :
    /\ todo[i].op = "attach" /\ todo[i].p = p
    /\ \A j \in 1 .. i - 1 : todo[j].op \in {"stop", "lock_topic"}
Subscribed(p) == \E t \in topics : p \in entries[t] /\ ~stop_flag[t]
AcceptedInv ==
  \A p \in Procs : running /\ sub[p] = "accepted" => Subscribed(p) \/ Between(p)

(* The handler waits for the mutex of the request it interrupted. *)
Stuck ==
  /\ server_mutex = "main"
  /\ \E i \in 1 .. Len(todo) :
       todo[i].op = "lock_server" /\ \A j \in 1 .. i - 1 : todo[j].op = "stop"

EarlyInv ==
  \A p \in early :
    \/ sub[p] \in {"told", "left", "cut"}
    \/ sub[p] = "accepted" /\ Subscribed(p)
    \/ Stuck

ShutdownInv ==
  /\ TypeOK /\ LockInv /\ TopicInv /\ LeavingInv /\ JoinInv /\ RunningInv
  /\ SubscribeInv /\ BottomInv /\ AcceptedInv /\ EarlyInv
-----------------------------------------------------------------------------
(* Counting the locks of a stack.                                          *)

(* The steps of a stack are finitely many. *)
LEMMA FromFinite ==
  ASSUME NEW s \in Seq(Step), NEW K, NEW k \in Int
  PROVE  IsFiniteSet(From(s, K, k)) /\ Cardinality(From(s, K, k)) \in Nat
<1>1. Len(s) \in Nat
  OBVIOUS
<1>2. IsFiniteSet(1 .. Len(s))
  BY <1>1, FS_Interval
<1>3. From(s, K, k) \in SUBSET (1 .. Len(s))
  BY DEF From
<1>4. IsFiniteSet(From(s, K, k))
  BY <1>2, <1>3, FS_Subset
<1> QED
  BY <1>4, FS_CardinalityType

(* A step counts by itself. *)
LEMMA FromNext ==
  ASSUME NEW s \in Seq(Step), NEW K, NEW k \in 1 .. Len(s)
  PROVE  Cardinality(From(s, K, k)) =
           Cardinality(From(s, K, k + 1)) + (IF s[k] \in K THEN 1 ELSE 0)
<1>1. Len(s) \in Nat /\ k \in Int /\ k + 1 \in Int
  OBVIOUS
<1>2. IsFiniteSet(From(s, K, k + 1)) /\ Cardinality(From(s, K, k + 1)) \in Nat
  BY <1>1, FromFinite
<1>3. CASE s[k] \in K
  <2>1. From(s, K, k) = From(s, K, k + 1) \cup {k} /\ k \notin From(s, K, k + 1)
    BY <1>1, <1>3 DEF From
  <2> QED
    BY <1>2, <1>3, <2>1, FS_AddElement
<1>4. CASE s[k] \notin K
  <2>1. From(s, K, k) = From(s, K, k + 1)
    BY <1>1, <1>4 DEF From
  <2> QED
    BY <1>2, <1>4, <2>1
<1> QED
  BY <1>3, <1>4

(* Each step adds what it unlocks and takes what it locks.                 *)
LEMMA LevelNext ==
  ASSUME NEW s \in Seq(Step), NEW U, NEW L, NEW k \in 1 .. Len(s), NEW m \in Int, m = k + 1
  PROVE  /\ Level(s, U, L, m) \in Int
         /\ Level(s, U, L, k) = Level(s, U, L, m)
              + (IF s[k] \in U THEN 1 ELSE 0) - (IF s[k] \in L THEN 1 ELSE 0)
<1>1. Cardinality(From(s, U, m)) \in Nat /\ Cardinality(From(s, L, m)) \in Nat
  BY FromFinite
<1>2. /\ Cardinality(From(s, U, k)) =
           Cardinality(From(s, U, m)) + (IF s[k] \in U THEN 1 ELSE 0)
      /\ Cardinality(From(s, L, k)) =
           Cardinality(From(s, L, m)) + (IF s[k] \in L THEN 1 ELSE 0)
  BY FromNext
<1> QED
  BY <1>1, <1>2 DEF Level

(* What lies below in the stack counts as it did by itself. *)
LEMMA FromShift ==
  ASSUME NEW a \in Seq(Step), NEW b \in Seq(Step), NEW K, NEW k \in 1 .. Len(b) + 1
  PROVE  Cardinality(From(a \o b, K, Len(a) + k)) = Cardinality(From(b, K, k))
<1> DEFINE A == From(a \o b, K, Len(a) + k)
           B == From(b, K, k)
           f == [i \in B |-> i + Len(a)]
<1>1. Len(a) \in Nat /\ Len(b) \in Nat /\ k \in Int
  OBVIOUS
<1>2. /\ a \o b \in Seq(Step) /\ Len(a \o b) = Len(a) + Len(b)
      /\ \A i \in 1 .. Len(a) + Len(b) :
           (a \o b)[i] = IF i <= Len(a) THEN a[i] ELSE b[i - Len(a)]
  BY ConcatProperties
<1>3. B \subseteq Int /\ A \subseteq Int
  BY <1>1, <1>2 DEF From
<1>4. \A i \in B : f[i] \in A
  BY <1>1, <1>2 DEF From
<1>5. \A j \in A : j - Len(a) \in B /\ f[j - Len(a)] = j
  <2> SUFFICES ASSUME NEW j \in A PROVE j - Len(a) \in B /\ f[j - Len(a)] = j
    OBVIOUS
  <2>1. j \in 1 .. Len(a) + Len(b) /\ j >= Len(a) + k /\ (a \o b)[j] \in K
    BY <1>2 DEF From
  <2>2. j - Len(a) \in 1 .. Len(b) /\ j - Len(a) >= k /\ b[j - Len(a)] \in K
    BY <1>1, <1>2, <2>1
  <2>3. j - Len(a) \in B
    BY <2>2 DEF From
  <2> QED
    BY <1>1, <2>1, <2>3
<1>6. \A i, j \in B : f[i] = f[j] => i = j
  BY <1>1, <1>3
<1>7. f \in [B -> A]
  BY <1>4
<1> HIDE DEF A, B, f
<1>8. f \in Bijection(B, A)
  BY <1>5, <1>6, <1>7 DEF Bijection, Injection, Surjection, IsInjective
<1>9. ExistsBijection(B, A)
  BY <1>8 DEF ExistsBijection
<1>10. IsFiniteSet(B)
  BY <1>1, FromFinite DEF B
<1>11. Cardinality(A) = Cardinality(B)
  BY <1>9, <1>10, FS_Bijection
<1> QED
  BY <1>11 DEF A, B

(* Steps pushed on a stack add to what is counted in it. *)
LEMMA FromConcat ==
  ASSUME NEW a \in Seq(Step), NEW b \in Seq(Step), NEW K, NEW k \in 1 .. Len(a) + 1
  PROVE  Cardinality(From(a \o b, K, k)) = Cardinality(From(a, K, k)) + Cardinality(From(b, K, 1))
<1> DEFINE A == From(a, K, k)
           B == From(a \o b, K, Len(a) + 1)
<1>1. Len(a) \in Nat /\ Len(b) \in Nat /\ k \in Int /\ Len(a) + 1 \in Int /\ 1 \in 1 .. Len(b) + 1
  OBVIOUS
<1>2. /\ a \o b \in Seq(Step) /\ Len(a \o b) = Len(a) + Len(b)
      /\ \A i \in 1 .. Len(a) + Len(b) :
           (a \o b)[i] = IF i <= Len(a) THEN a[i] ELSE b[i - Len(a)]
  BY ConcatProperties
<1>3. From(a \o b, K, k) = A \cup B /\ A \cap B = {}
  <2>1. \A i : i \in From(a \o b, K, k) <=> i \in A \/ i \in B
    BY <1>1, <1>2 DEF From
  <2>2. \A i : ~(i \in A /\ i \in B)
    BY <1>1, <1>2 DEF From
  <2> HIDE DEF A, B
  <2> QED
    BY <2>1, <2>2
<1>4. IsFiniteSet(A) /\ IsFiniteSet(B) /\ Cardinality(A) \in Nat /\ Cardinality(B) \in Nat
  BY <1>1, <1>2, FromFinite
<1>5. Cardinality(B) = Cardinality(From(b, K, 1))
  BY <1>1, FromShift
<1> HIDE DEF A, B
<1>6. Cardinality(A \cup B) = Cardinality(A) + Cardinality(B) - Cardinality(A \cap B)
  BY <1>4, FS_Union
<1>7. Cardinality(A \cap B) = 0
  BY <1>3, FS_EmptySet
<1>8. Cardinality(From(a \o b, K, k)) = Cardinality(A) + Cardinality(B)
  BY <1>3, <1>4, <1>6, <1>7
<1> QED
  BY <1>5, <1>8 DEF A

(* The same for the level of a lock. *)
LEMMA LevelPushed ==
  ASSUME NEW a \in Seq(Step), NEW b \in Seq(Step), NEW U, NEW L, NEW k \in 1 .. Len(a) + 1
  PROVE  Level(a \o b, U, L, k) = Level(a, U, L, k) + Level(b, U, L, 1)
<1>1. k \in Int /\ 1 \in Int
  OBVIOUS
<1>2. /\ Cardinality(From(a, U, k)) \in Nat /\ Cardinality(From(a, L, k)) \in Nat
      /\ Cardinality(From(b, U, 1)) \in Nat /\ Cardinality(From(b, L, 1)) \in Nat
  BY <1>1, FromFinite
<1>3. /\ Cardinality(From(a \o b, U, k)) = Cardinality(From(a, U, k)) + Cardinality(From(b, U, 1))
      /\ Cardinality(From(a \o b, L, k)) = Cardinality(From(a, L, k)) + Cardinality(From(b, L, 1))
  BY FromConcat
<1> QED
  BY <1>2, <1>3 DEF Level

(* What is below them is as it was. *)
LEMMA LevelBelow ==
  ASSUME NEW a \in Seq(Step), NEW b \in Seq(Step), NEW U, NEW L, NEW k \in 1 .. Len(b) + 1
  PROVE  Level(a \o b, U, L, Len(a) + k) = Level(b, U, L, k)
  BY FromShift DEF Level

(* A step is replaced by others: what is below it stays where it was,      *)
(* counted from the bottom.                                                *)
LEMMA DoesStack ==
  ASSUME todo \in Seq(Step), NEW op, NEW new \in Seq(Step), Does(op, new)
  PROVE  /\ Len(todo) \in Nat /\ Len(todo) >= 1 /\ Len(new) \in Nat /\ Head(todo) = todo[1]
         /\ todo[1] \in Step /\ todo[1].op = op
         /\ todo' \in Seq(Step) /\ Len(todo') = Len(new) + Len(todo) - 1
         /\ \A i \in 1 .. Len(todo') :
              \/ i \in 1 .. Len(new) /\ todo'[i] = new[i]
              \/ /\ i > Len(new) /\ i - Len(new) + 1 \in 2 .. Len(todo)
                 /\ todo'[i] = todo[i - Len(new) + 1]
         /\ \A i \in 1 .. Len(new) : i \in 1 .. Len(todo') /\ todo'[i] = new[i]
         /\ \A j \in 2 .. Len(todo) :
              j - 1 + Len(new) \in 1 .. Len(todo') /\ todo'[j - 1 + Len(new)] = todo[j]
<1>1. todo # <<>> /\ Head(todo).op = op /\ todo' = new \o Tail(todo)
  BY DEF Does
<1>2. /\ Head(todo) = todo[1] /\ Head(todo) \in Step /\ Tail(todo) \in Seq(Step)
      /\ Len(Tail(todo)) = Len(todo) - 1 /\ Len(todo) \in Nat /\ Len(todo) >= 1
      /\ \A i \in 1 .. Len(Tail(todo)) : Tail(todo)[i] = todo[i + 1]
  BY <1>1, HeadTailProperties
<1>3. /\ todo' \in Seq(Step) /\ Len(todo') = Len(new) + Len(Tail(todo)) /\ Len(new) \in Nat
      /\ \A i \in 1 .. Len(new) + Len(Tail(todo)) :
           todo'[i] = IF i <= Len(new) THEN new[i] ELSE Tail(todo)[i - Len(new)]
  BY <1>1, <1>2, ConcatProperties
<1> QED
  BY <1>1, <1>2, <1>3

(* A step is done, and the rest comes up by one. *)
LEMMA DoneStack ==
  ASSUME todo \in Seq(Step), NEW op, Does(op, <<>>)
  PROVE  /\ Len(todo) \in Nat /\ Len(todo) >= 1 /\ Head(todo) = todo[1]
         /\ todo[1] \in Step /\ todo[1].op = op /\ Len(todo') = Len(todo) - 1
         /\ \A i \in 1 .. Len(todo') : i + 1 \in 2 .. Len(todo) /\ todo'[i] = todo[i + 1]
         /\ \A j \in 2 .. Len(todo) : j - 1 \in 1 .. Len(todo') /\ todo'[j - 1] = todo[j]
<1>1. PICK new \in Seq(Step) : Len(new) = 0 /\ Does(op, new)
  <2>1. <<>> \in Seq(Step) /\ Len(<<>>) = 0
    BY EmptySeq
  <2> QED
    BY <2>1, Zenon
<1>2. /\ Len(todo) \in Nat /\ Len(todo) >= 1 /\ Head(todo) = todo[1]
      /\ todo[1] \in Step /\ todo[1].op = op
      /\ Len(todo') = Len(new) + Len(todo) - 1
      /\ \A j \in 2 .. Len(todo) :
           j - 1 + Len(new) \in 1 .. Len(todo') /\ todo'[j - 1 + Len(new)] = todo[j]
  BY <1>1, DoesStack
<1>3. Len(todo') = Len(todo) - 1
  BY <1>1, <1>2
<1>4. ASSUME NEW j \in 2 .. Len(todo) PROVE j - 1 \in 1 .. Len(todo') /\ todo'[j - 1] = todo[j]
  <2>1. j - 1 + Len(new) = j - 1
    BY <1>1
  <2> QED
    BY <1>2, <2>1
<1>5. ASSUME NEW i \in 1 .. Len(todo') PROVE i + 1 \in 2 .. Len(todo) /\ todo'[i] = todo[i + 1]
  <2>1. i + 1 \in 2 .. Len(todo) /\ (i + 1) - 1 = i
    BY <1>2, <1>3
  <2>2. todo'[(i + 1) - 1] = todo[i + 1]
    BY <1>4, <2>1
  <2> QED
    BY <2>1, <2>2
<1> QED
  BY <1>2, <1>3, <1>4, <1>5

(* The same for the locks. *)
LEMMA DoesLevel ==
  ASSUME todo \in Seq(Step), NEW op, NEW new \in Seq(Step), Does(op, new),
         NEW U, NEW L, Closed(todo, U, L), Closed(new, U, L)
  PROVE  /\ Closed(todo, U, L)'
         /\ Level(todo, U, L, 2) \in Nat
         /\ Level(todo', U, L, 1) = Level(new, U, L, 1) + Level(todo, U, L, 2)
         /\ Level(todo, U, L, 1) = Level(todo, U, L, 2)
              + (IF todo[1] \in U THEN 1 ELSE 0) - (IF todo[1] \in L THEN 1 ELSE 0)
<1> DEFINE rest == Tail(todo)
           top == <<Head(todo)>>
<1>1. todo # <<>> /\ todo' = new \o rest
  BY DEF Does
<1>2. /\ Head(todo) = todo[1] /\ Head(todo) \in Step /\ rest \in Seq(Step)
      /\ Len(rest) = Len(todo) - 1 /\ Len(todo) \in Nat /\ Len(todo) >= 1
      /\ \A i \in 1 .. Len(rest) : rest[i] = todo[i + 1]
  BY <1>1, HeadTailProperties
<1>3. top \in Seq(Step) /\ Len(top) = 1 /\ todo = top \o rest
  BY <1>1, <1>2
<1> HIDE DEF rest, top
<1>4. \A k \in 1 .. Len(rest) + 1 : Level(todo, U, L, 1 + k) = Level(rest, U, L, k)
  <2>1. \A k \in 1 .. Len(rest) + 1 :
          Level(top \o rest, U, L, Len(top) + k) = Level(rest, U, L, k)
    BY <1>2, <1>3, LevelBelow
  <2> QED
    BY <1>3, <2>1
<1>5. /\ \A k \in 1 .. Len(rest) + 1 :
           Level(todo', U, L, Len(new) + k) = Level(rest, U, L, k)
      /\ \A k \in 1 .. Len(new) + 1 :
           Level(todo', U, L, k) = Level(new, U, L, k) + Level(rest, U, L, 1)
  <2>1. /\ \A k \in 1 .. Len(rest) + 1 :
             Level(new \o rest, U, L, Len(new) + k) = Level(rest, U, L, k)
        /\ \A k \in 1 .. Len(new) + 1 :
             Level(new \o rest, U, L, k) = Level(new, U, L, k) + Level(rest, U, L, 1)
    BY <1>2, LevelBelow, LevelPushed
  <2> QED
    BY <1>1, <2>1
<1>6. Len(todo') = Len(new) + Len(rest) /\ Len(new) \in Nat
  BY <1>1, <1>2, ConcatProperties
<1>7. Level(rest, U, L, 1) = Level(todo, U, L, 2)
  BY <1>2, <1>4
<1>8. /\ Level(todo, U, L, 2) \in Int
      /\ Level(todo, U, L, 1) = Level(todo, U, L, 2)
           + (IF todo[1] \in U THEN 1 ELSE 0) - (IF todo[1] \in L THEN 1 ELSE 0)
  <2>1. 1 \in 1 .. Len(todo) /\ 2 \in Int /\ 2 = 1 + 1
    BY <1>2
  <2> QED
    BY <2>1, LevelNext
<1>9. \A k \in 1 .. Len(rest) + 1 : Level(rest, U, L, k) >= 0
  <2> SUFFICES ASSUME NEW k \in 1 .. Len(rest) + 1 PROVE Level(rest, U, L, k) >= 0
    OBVIOUS
  <2>1. 1 + k \in 1 .. Len(todo) + 1
    BY <1>2
  <2> QED
    BY <1>4, <2>1 DEF Closed
<1>10. Level(todo, U, L, 2) \in Nat
  BY <1>2, <1>7, <1>8, <1>9
<1>11. ASSUME NEW k \in 1 .. Len(todo') + 1
       PROVE  Level(todo', U, L, k) >= 0
  <2>1. CASE k \in 1 .. Len(new) + 1
    <3>1. Level(new, U, L, k) >= 0 /\ Level(new, U, L, k) \in Int
      <4>1. k \in Int
        BY <2>1
      <4>2. Cardinality(From(new, U, k)) \in Nat /\ Cardinality(From(new, L, k)) \in Nat
        BY <4>1, FromFinite
      <4> QED
        BY <2>1, <4>2 DEF Closed, Level
    <3> QED
      BY <1>5, <1>7, <1>10, <2>1, <3>1
  <2>2. CASE k \notin 1 .. Len(new) + 1
    <3>1. k - Len(new) \in 1 .. Len(rest) + 1 /\ k = Len(new) + (k - Len(new))
      BY <1>2, <1>6, <2>2
    <3>2. Level(todo', U, L, Len(new) + (k - Len(new))) >= 0
      BY <1>5, <1>9, <3>1
    <3> QED
      BY <3>1, <3>2
  <2> QED
    BY <2>1, <2>2
<1>12. Level(todo', U, L, 1) = Level(new, U, L, 1) + Level(todo, U, L, 2)
  BY <1>5, <1>6, <1>7
<1>13. Closed(todo, U, L)'
  BY <1>11 DEF Closed, Level, From
<1> QED
  BY <1>8, <1>10, <1>12, <1>13
-----------------------------------------------------------------------------
(* The programs leave every lock as they found it.                         *)

Balanced(s) ==
  /\ Closed(s, UnlocksServer, LocksServer) /\ Level(s, UnlocksServer, LocksServer, 1) = 0
  /\ \A t \in Topics :
       Closed(s, UnlocksTopic(t), LocksTopic(t)) /\ Level(s, UnlocksTopic(t), LocksTopic(t), 1) = 0

(* Steps that have nothing to do with a lock. *)
LEMMA NoSection ==
  ASSUME NEW s \in Seq(Step), NEW U, NEW L, \A i \in 1 .. Len(s) : s[i] \notin U \cup L
  PROVE  Closed(s, U, L) /\ Level(s, U, L, 1) = 0
<1>1. \A k : From(s, U, k) = {} /\ From(s, L, k) = {}
  BY DEF From
<1>2. Cardinality({}) = 0
  BY FS_EmptySet
<1>3. \A k : Level(s, U, L, k) = Cardinality({}) - Cardinality({})
  BY <1>1 DEF Level
<1>4. \A k : Level(s, U, L, k) = 0
  BY <1>2, <1>3
<1>5. Level(s, U, L, 1) = 0 /\ \A k \in 1 .. Len(s) + 1 : Level(s, U, L, k) >= 0
  BY <1>4
<1> QED
  BY <1>5 DEF Closed

(* Steps that only unlock, once. *)
LEMMA OneRelease ==
  ASSUME NEW s \in Seq(Step), NEW U, NEW L, NEW b \in 1 .. Len(s), s[b] \in U,
         \A i \in 1 .. Len(s) : s[i] \notin L /\ (i # b => s[i] \notin U)
  PROVE  Closed(s, U, L) /\ Level(s, U, L, 1) = 1
<1>1. Len(s) \in Nat /\ b \in Int
  OBVIOUS
<1>2. \A k : From(s, U, k) = {b} \/ From(s, U, k) = {}
  BY DEF From
<1>3. \A k : From(s, L, k) = {}
  BY DEF From
<1>4. From(s, U, 1) = {b}
  BY <1>1 DEF From
<1>5. Cardinality({}) = 0 /\ Cardinality({b}) = 1
  BY FS_EmptySet, FS_Singleton
<1>6. \A k : Level(s, U, L, k) = 1 - 0 \/ Level(s, U, L, k) = 0 - 0
  BY <1>2, <1>3, <1>5 DEF Level
<1>7. Level(s, U, L, 1) = 1 - 0
  BY <1>3, <1>4, <1>5 DEF Level
<1>8. Level(s, U, L, 1) = 1 /\ \A k \in 1 .. Len(s) + 1 : Level(s, U, L, k) >= 0
  BY <1>6, <1>7
<1> QED
  BY <1>8 DEF Closed

(* Steps that lock and unlock, once. *)
LEMMA OneSection ==
  ASSUME NEW s \in Seq(Step), NEW U, NEW L,
         NEW a \in 1 .. Len(s), NEW b \in 1 .. Len(s), a < b, s[a] \in L, s[b] \in U,
         \A i \in 1 .. Len(s) : (i # a => s[i] \notin L) /\ (i # b => s[i] \notin U)
  PROVE  Closed(s, U, L) /\ Level(s, U, L, 1) = 0
<1>1. Len(s) \in Nat /\ a \in Int /\ b \in Int
  OBVIOUS
<1>2. \A k \in Int : From(s, U, k) = IF k <= b THEN {b} ELSE {}
  BY <1>1 DEF From
<1>3. \A k \in Int : From(s, L, k) = IF k <= a THEN {a} ELSE {}
  BY <1>1 DEF From
<1>4. Cardinality({}) = 0 /\ Cardinality({a}) = 1 /\ Cardinality({b}) = 1
  BY FS_EmptySet, FS_Singleton
<1>5. ASSUME NEW k \in Int
      PROVE  Level(s, U, L, k) >= 0 /\ (k <= a => Level(s, U, L, k) = 0)
  <2>1. CASE k <= a
    <3>1. From(s, U, k) = {b} /\ From(s, L, k) = {a}
      BY <1>1, <1>2, <1>3, <2>1
    <3>2. Level(s, U, L, k) = 1 - 1
      BY <1>4, <3>1 DEF Level
    <3> QED
      BY <3>2
  <2>2. CASE a < k /\ k <= b
    <3>1. From(s, U, k) = {b} /\ From(s, L, k) = {}
      BY <1>1, <1>2, <1>3, <2>2
    <3>2. Level(s, U, L, k) = 1 - 0
      BY <1>4, <3>1 DEF Level
    <3> QED
      BY <1>1, <2>2, <3>2
  <2>3. CASE b < k
    <3>1. From(s, U, k) = {} /\ From(s, L, k) = {}
      BY <1>1, <1>2, <1>3, <2>3
    <3>2. Level(s, U, L, k) = 0 - 0
      BY <1>4, <3>1 DEF Level
    <3> QED
      BY <1>1, <2>3, <3>2
  <2> QED
    BY <1>1, <2>1, <2>2, <2>3
<1>6. Level(s, U, L, 1) = 0 /\ \A k \in 1 .. Len(s) + 1 : Level(s, U, L, k) >= 0
  BY <1>1, <1>5
<1> QED
  BY <1>6 DEF Closed

(* One program after the other. *)
LEMMA BalancedConcat ==
  ASSUME NEW a \in Seq(Step), NEW b \in Seq(Step), Balanced(a), Balanced(b)
  PROVE  Balanced(a \o b)
<1>1. ASSUME NEW U, NEW L, Closed(a, U, L), Level(a, U, L, 1) = 0,
             Closed(b, U, L), Level(b, U, L, 1) = 0
      PROVE  Closed(a \o b, U, L) /\ Level(a \o b, U, L, 1) = 0
  <2>1. Len(a) \in Nat /\ Len(b) \in Nat /\ Len(a \o b) = Len(a) + Len(b)
    BY ConcatProperties
  <2>2. \A k \in 1 .. Len(a) + 1 : Level(a \o b, U, L, k) = Level(a, U, L, k) + 0
    BY <1>1, LevelPushed
  <2>3. \A k \in 1 .. Len(b) + 1 : Level(a \o b, U, L, Len(a) + k) = Level(b, U, L, k)
    BY LevelBelow
  <2>4. \A k \in 1 .. Len(a) + 1 : Level(a, U, L, k) \in Int /\ Level(a, U, L, k) >= 0
    <3> SUFFICES ASSUME NEW k \in 1 .. Len(a) + 1
                 PROVE  Level(a, U, L, k) \in Int /\ Level(a, U, L, k) >= 0
      OBVIOUS
    <3>1. Cardinality(From(a, U, k)) \in Nat /\ Cardinality(From(a, L, k)) \in Nat
      BY <2>1, FromFinite
    <3>2. Level(a, U, L, k) \in Int
      BY <3>1 DEF Level
    <3> QED
      BY <1>1, <3>2 DEF Closed
  <2>5. ASSUME NEW k \in 1 .. Len(a \o b) + 1
        PROVE  Level(a \o b, U, L, k) >= 0
    <3>1. CASE k <= Len(a) + 1
      BY <2>1, <2>2, <2>4, <3>1
    <3>2. CASE k > Len(a) + 1
      <4>1. k - Len(a) \in 1 .. Len(b) + 1 /\ k = Len(a) + (k - Len(a))
        BY <2>1, <3>2
      <4>2. Level(b, U, L, k - Len(a)) >= 0
        BY <1>1, <4>1 DEF Closed
      <4>3. Level(a \o b, U, L, Len(a) + (k - Len(a))) = Level(b, U, L, k - Len(a))
        BY <2>3, <4>1
      <4> QED
        BY <4>1, <4>2, <4>3
    <3> QED
      BY <2>1, <3>1, <3>2
  <2>6. Level(a \o b, U, L, 1) = 0
    BY <1>1, <2>1, <2>2
  <2> QED
    BY <2>5, <2>6 DEF Closed
<1> QED
  BY <1>1 DEF Balanced

(* Which steps lock and unlock. *)
LEMMA LockSteps ==
  ASSUME NEW x \in Step, NEW t
  PROVE  /\ x \in UnlocksServer <=> x.op = "unlock_server"
         /\ x \in LocksServer <=> x.op = "lock_server"
         /\ x \in UnlocksTopic(t) <=> x.op \in {"unlock_topic", "shut"} /\ x.t = t
         /\ x \in LocksTopic(t) <=> x.op = "lock_topic" /\ x.t = t
  BY DEF UnlocksServer, LocksServer, UnlocksTopic, LocksTopic

(* The critical sections of a program on server_mutex, and on a topic_mutex. *)
ServerBalanced(s) ==
  Closed(s, UnlocksServer, LocksServer) /\ Level(s, UnlocksServer, LocksServer, 1) = 0
TopicsBalanced(s) ==
  \A t \in Topics :
    Closed(s, UnlocksTopic(t), LocksTopic(t)) /\ Level(s, UnlocksTopic(t), LocksTopic(t), 1) = 0

(* No section, or one, on server_mutex. *)
LEMMA ServerSections ==
  ASSUME NEW s \in Seq(Step)
  PROVE  /\ (\A i \in 1 .. Len(s) : s[i].op \notin {"lock_server", "unlock_server"})
            => ServerBalanced(s)
         /\ \A a, b \in 1 .. Len(s) :
              /\ a < b /\ s[a].op = "lock_server" /\ s[b].op = "unlock_server"
              /\ \A i \in 1 .. Len(s) :
                   i \notin {a, b} => s[i].op \notin {"lock_server", "unlock_server"}
              => ServerBalanced(s)
<1>1. \A i \in 1 .. Len(s) : s[i] \in Step
  OBVIOUS
<1>2. \A i \in 1 .. Len(s) : /\ s[i] \in UnlocksServer <=> s[i].op = "unlock_server"
                             /\ s[i] \in LocksServer <=> s[i].op = "lock_server"
  BY <1>1, LockSteps
<1>3. ASSUME \A i \in 1 .. Len(s) : s[i].op \notin {"lock_server", "unlock_server"}
      PROVE  ServerBalanced(s)
  <2>1. \A i \in 1 .. Len(s) : s[i] \notin UnlocksServer \cup LocksServer
    BY <1>2, <1>3
  <2> QED
    BY <2>1, NoSection DEF ServerBalanced
<1>4. ASSUME NEW a \in 1 .. Len(s), NEW b \in 1 .. Len(s),
             a < b, s[a].op = "lock_server", s[b].op = "unlock_server",
             \A i \in 1 .. Len(s) :
               i \notin {a, b} => s[i].op \notin {"lock_server", "unlock_server"}
      PROVE  ServerBalanced(s)
  <2>1. /\ s[a] \in LocksServer /\ s[b] \in UnlocksServer
        /\ \A i \in 1 .. Len(s) : /\ i # a => s[i] \notin LocksServer
                                  /\ i # b => s[i] \notin UnlocksServer
    BY <1>2, <1>4
  <2> QED
    BY <1>4, <2>1, OneSection DEF ServerBalanced
<1> QED
  BY <1>3, <1>4

(* The same on the topic_mutex of the program's topic. *)
LEMMA TopicSections ==
  ASSUME NEW s \in Seq(Step)
  PROVE  /\ (\A i \in 1 .. Len(s) : s[i].op \notin {"lock_topic", "unlock_topic", "shut"})
            => TopicsBalanced(s)
         /\ \A a, b \in 1 .. Len(s) :
              /\ a < b /\ s[a].op = "lock_topic" /\ s[b].op \in {"unlock_topic", "shut"}
              /\ s[a].t = s[b].t
              /\ \A i \in 1 .. Len(s) :
                   i \notin {a, b} => s[i].op \notin {"lock_topic", "unlock_topic", "shut"}
              => TopicsBalanced(s)
<1>1. \A i \in 1 .. Len(s) : s[i] \in Step
  OBVIOUS
<1>2. \A t : \A i \in 1 .. Len(s) :
        /\ s[i] \in UnlocksTopic(t) <=> s[i].op \in {"unlock_topic", "shut"} /\ s[i].t = t
        /\ s[i] \in LocksTopic(t) <=> s[i].op = "lock_topic" /\ s[i].t = t
  BY <1>1, LockSteps
<1>3. ASSUME \A i \in 1 .. Len(s) : s[i].op \notin {"lock_topic", "unlock_topic", "shut"}
      PROVE  TopicsBalanced(s)
  <2>1. \A t : \A i \in 1 .. Len(s) : s[i] \notin UnlocksTopic(t) \cup LocksTopic(t)
    BY <1>2, <1>3
  <2> QED
    BY <2>1, NoSection DEF TopicsBalanced
<1>4. ASSUME NEW a \in 1 .. Len(s), NEW b \in 1 .. Len(s), NEW t \in Topics,
             a < b, s[a].op = "lock_topic", s[b].op \in {"unlock_topic", "shut"}, s[a].t = s[b].t,
             \A i \in 1 .. Len(s) :
               i \notin {a, b} => s[i].op \notin {"lock_topic", "unlock_topic", "shut"}
      PROVE  Closed(s, UnlocksTopic(t), LocksTopic(t)) /\ Level(s, UnlocksTopic(t), LocksTopic(t), 1) = 0
  <2>1. CASE t = s[a].t
    <3>1. /\ s[a] \in LocksTopic(t) /\ s[b] \in UnlocksTopic(t)
          /\ \A i \in 1 .. Len(s) : /\ i # a => s[i] \notin LocksTopic(t)
                                    /\ i # b => s[i] \notin UnlocksTopic(t)
      BY <1>2, <1>4, <2>1
    <3> QED
      BY <1>4, <3>1, OneSection
  <2>2. CASE t # s[a].t
    <3>1. \A i \in 1 .. Len(s) : s[i] \notin UnlocksTopic(t) \cup LocksTopic(t)
      BY <1>2, <1>4, <2>2
    <3> QED
      BY <3>1, NoSection
  <2> QED
    BY <2>1, <2>2
<1> QED
  BY <1>3, <1>4 DEF TopicsBalanced

(* Balanced is balanced for the server and for every topic. *)
LEMMA BalancedParts ==
  ASSUME NEW s, ServerBalanced(s), TopicsBalanced(s)
  PROVE  Balanced(s)
  BY DEF Balanced, ServerBalanced, TopicsBalanced

(* CREATE. *)
LEMMA CreateProgram ==
  ASSUME NEW t \in Topics, NEW p \in Procs \cup {Nil}
  PROVE  LET s == Steps(<<"lock_server", "create", "unlock_server", "respond">>, t, p)
         IN  s \in Seq(Step) /\ Balanced(s)
<1> DEFINE s == Steps(<<"lock_server", "create", "unlock_server", "respond">>, t, p)
<1>1. /\ s \in Seq(Step) /\ Len(s) = 4
      /\ s[1].op = "lock_server" /\ s[2].op = "create" /\ s[3].op = "unlock_server"
      /\ s[4].op = "respond"
      /\ \A i \in 1 .. 4 : s[i].t = t
  BY DEF Steps, Step, ServerOps, TopicOps
<1> HIDE DEF s
<1>2. ServerBalanced(s)
  <2>1. \A i \in 1 .. Len(s) : i \notin {1, 3} => s[i].op \notin {"lock_server", "unlock_server"}
    BY <1>1
  <2>2. /\ s \in Seq(Step) /\ 1 \in 1 .. Len(s) /\ 3 \in 1 .. Len(s)
        /\ 1 < 3 /\ s[1].op = "lock_server" /\ s[3].op = "unlock_server"
    BY <1>1
  <2> QED
    BY <2>1, <2>2, ServerSections
<1>3. TopicsBalanced(s)
  <2>1. \A i \in 1 .. Len(s) : s[i].op \notin {"lock_topic", "unlock_topic", "shut"}
    BY <1>1
  <2> QED
    BY <1>1, <2>1, TopicSections
<1> QED
  BY <1>1, <1>2, <1>3, BalancedParts DEF s

(* LIST, and a request refused. *)
LEMMA ListProgram ==
  ASSUME NEW t \in Topics, NEW p \in Procs \cup {Nil}
  PROVE  LET s == Steps(<<"lock_server", "respond", "unlock_server">>, t, p)
         IN  s \in Seq(Step) /\ Balanced(s)
<1> DEFINE s == Steps(<<"lock_server", "respond", "unlock_server">>, t, p)
<1>1. /\ s \in Seq(Step) /\ Len(s) = 3
      /\ s[1].op = "lock_server" /\ s[2].op = "respond" /\ s[3].op = "unlock_server"
      /\ \A i \in 1 .. 3 : s[i].t = t
  BY DEF Steps, Step, ServerOps, TopicOps
<1> HIDE DEF s
<1>2. ServerBalanced(s)
  <2>1. \A i \in 1 .. Len(s) : i \notin {1, 3} => s[i].op \notin {"lock_server", "unlock_server"}
    BY <1>1
  <2>2. /\ s \in Seq(Step) /\ 1 \in 1 .. Len(s) /\ 3 \in 1 .. Len(s)
        /\ 1 < 3 /\ s[1].op = "lock_server" /\ s[3].op = "unlock_server"
    BY <1>1
  <2> QED
    BY <2>1, <2>2, ServerSections
<1>3. TopicsBalanced(s)
  <2>1. \A i \in 1 .. Len(s) : s[i].op \notin {"lock_topic", "unlock_topic", "shut"}
    BY <1>1
  <2> QED
    BY <1>1, <2>1, TopicSections
<1> QED
  BY <1>1, <1>2, <1>3, BalancedParts DEF s

(* CONNECT to an unknown topic. *)
LEMMA RefusedProgram ==
  ASSUME NEW t \in Topics, NEW p \in Procs \cup {Nil}
  PROVE  LET s == Steps(<<"lock_server", "unlock_server", "respond">>, t, p)
         IN  s \in Seq(Step) /\ Balanced(s)
<1> DEFINE s == Steps(<<"lock_server", "unlock_server", "respond">>, t, p)
<1>1. /\ s \in Seq(Step) /\ Len(s) = 3
      /\ s[1].op = "lock_server" /\ s[2].op = "unlock_server" /\ s[3].op = "respond"
      /\ \A i \in 1 .. 3 : s[i].t = t
  BY DEF Steps, Step, ServerOps, TopicOps
<1> HIDE DEF s
<1>2. ServerBalanced(s)
  <2>1. \A i \in 1 .. Len(s) : i \notin {1, 2} => s[i].op \notin {"lock_server", "unlock_server"}
    BY <1>1
  <2>2. /\ s \in Seq(Step) /\ 1 \in 1 .. Len(s) /\ 2 \in 1 .. Len(s)
        /\ 1 < 2 /\ s[1].op = "lock_server" /\ s[2].op = "unlock_server"
    BY <1>1
  <2> QED
    BY <2>1, <2>2, ServerSections
<1>3. TopicsBalanced(s)
  <2>1. \A i \in 1 .. Len(s) : s[i].op \notin {"lock_topic", "unlock_topic", "shut"}
    BY <1>1
  <2> QED
    BY <1>1, <2>1, TopicSections
<1> QED
  BY <1>1, <1>2, <1>3, BalancedParts DEF s

(* COMMIT, PRODUCE to an unknown topic, and the lookup of CONNECT. *)
LEMMA LookupProgram ==
  ASSUME NEW t \in Topics, NEW p \in Procs \cup {Nil}
  PROVE  LET s == Steps(<<"lock_server", "unlock_server">>, t, p)
         IN  s \in Seq(Step) /\ Balanced(s)
<1> DEFINE s == Steps(<<"lock_server", "unlock_server">>, t, p)
<1>1. /\ s \in Seq(Step) /\ Len(s) = 2
      /\ s[1].op = "lock_server" /\ s[2].op = "unlock_server"
      /\ \A i \in 1 .. 2 : s[i].t = t
  BY DEF Steps, Step, ServerOps, TopicOps
<1> HIDE DEF s
<1>2. ServerBalanced(s)
  <2>1. \A i \in 1 .. Len(s) : i \notin {1, 2} => s[i].op \notin {"lock_server", "unlock_server"}
    BY <1>1
  <2>2. /\ s \in Seq(Step) /\ 1 \in 1 .. Len(s) /\ 2 \in 1 .. Len(s)
        /\ 1 < 2 /\ s[1].op = "lock_server" /\ s[2].op = "unlock_server"
    BY <1>1
  <2> QED
    BY <2>1, <2>2, ServerSections
<1>3. TopicsBalanced(s)
  <2>1. \A i \in 1 .. Len(s) : s[i].op \notin {"lock_topic", "unlock_topic", "shut"}
    BY <1>1
  <2> QED
    BY <1>1, <2>1, TopicSections
<1> QED
  BY <1>1, <1>2, <1>3, BalancedParts DEF s

(* PRODUCE. *)
LEMMA ProduceProgram ==
  ASSUME NEW t \in Topics, NEW p \in Procs \cup {Nil}
  PROVE  LET s == Steps(<<"lock_server", "unlock_server", "lock_topic", "append", "unlock_topic">>, t, p)
         IN  s \in Seq(Step) /\ Balanced(s)
<1> DEFINE s == Steps(<<"lock_server", "unlock_server", "lock_topic", "append", "unlock_topic">>, t, p)
<1>1. /\ s \in Seq(Step) /\ Len(s) = 5
      /\ s[1].op = "lock_server" /\ s[2].op = "unlock_server" /\ s[3].op = "lock_topic"
      /\ s[4].op = "append" /\ s[5].op = "unlock_topic"
      /\ \A i \in 1 .. 5 : s[i].t = t
  BY DEF Steps, Step, ServerOps, TopicOps
<1> HIDE DEF s
<1>2. ServerBalanced(s)
  <2>1. \A i \in 1 .. Len(s) : i \notin {1, 2} => s[i].op \notin {"lock_server", "unlock_server"}
    BY <1>1
  <2>2. /\ s \in Seq(Step) /\ 1 \in 1 .. Len(s) /\ 2 \in 1 .. Len(s)
        /\ 1 < 2 /\ s[1].op = "lock_server" /\ s[2].op = "unlock_server"
    BY <1>1
  <2> QED
    BY <2>1, <2>2, ServerSections
<1>3. TopicsBalanced(s)
  <2>1. \A i \in 1 .. Len(s) :
          i \notin {3, 5} => s[i].op \notin {"lock_topic", "unlock_topic", "shut"}
    BY <1>1
  <2>2. /\ s \in Seq(Step) /\ 3 \in 1 .. Len(s) /\ 5 \in 1 .. Len(s) /\ 3 < 5
        /\ s[3].t = s[5].t /\ s[3].op = "lock_topic" /\ s[5].op \in {"unlock_topic", "shut"}
    BY <1>1
  <2> QED
    BY <2>1, <2>2, TopicSections
<1> QED
  BY <1>1, <1>2, <1>3, BalancedParts DEF s

(* SUBSCRIBE. *)
LEMMA SubscribeProgram ==
  ASSUME NEW t \in Topics, NEW p \in Procs
  PROVE  LET s == Steps(<<"lock_server", "accept", "lock_topic", "attach", "unlock_topic", "unlock_server">>, t, p)
         IN  s \in Seq(Step) /\ Balanced(s)
<1> DEFINE s == Steps(<<"lock_server", "accept", "lock_topic", "attach", "unlock_topic", "unlock_server">>, t, p)
<1>1. /\ s \in Seq(Step) /\ Len(s) = 6
      /\ s[1].op = "lock_server" /\ s[2].op = "accept" /\ s[3].op = "lock_topic"
      /\ s[4].op = "attach" /\ s[5].op = "unlock_topic" /\ s[6].op = "unlock_server"
      /\ \A i \in 1 .. 6 : s[i].t = t
  BY DEF Steps, Step, ServerOps, TopicOps
<1> HIDE DEF s
<1>2. ServerBalanced(s)
  <2>1. \A i \in 1 .. Len(s) : i \notin {1, 6} => s[i].op \notin {"lock_server", "unlock_server"}
    BY <1>1
  <2>2. /\ s \in Seq(Step) /\ 1 \in 1 .. Len(s) /\ 6 \in 1 .. Len(s)
        /\ 1 < 6 /\ s[1].op = "lock_server" /\ s[6].op = "unlock_server"
    BY <1>1
  <2> QED
    BY <2>1, <2>2, ServerSections
<1>3. TopicsBalanced(s)
  <2>1. \A i \in 1 .. Len(s) :
          i \notin {3, 5} => s[i].op \notin {"lock_topic", "unlock_topic", "shut"}
    BY <1>1
  <2>2. /\ s \in Seq(Step) /\ 3 \in 1 .. Len(s) /\ 5 \in 1 .. Len(s) /\ 3 < 5
        /\ s[3].t = s[5].t /\ s[3].op = "lock_topic" /\ s[5].op \in {"unlock_topic", "shut"}
    BY <1>1
  <2> QED
    BY <2>1, <2>2, TopicSections
<1> QED
  BY <1>1, <1>2, <1>3, BalancedParts DEF s

(* DISCONNECT. *)
LEMMA DisconnectProgram ==
  ASSUME NEW t \in Topics, NEW p \in Procs
  PROVE  LET s == Steps(<<"lock_server", "lock_topic", "detach", "unlock_topic", "unlock_server">>, t, p)
         IN  s \in Seq(Step) /\ Balanced(s)
<1> DEFINE s == Steps(<<"lock_server", "lock_topic", "detach", "unlock_topic", "unlock_server">>, t, p)
<1>1. /\ s \in Seq(Step) /\ Len(s) = 5
      /\ s[1].op = "lock_server" /\ s[2].op = "lock_topic" /\ s[3].op = "detach"
      /\ s[4].op = "unlock_topic" /\ s[5].op = "unlock_server"
      /\ \A i \in 1 .. 5 : s[i].t = t
  BY DEF Steps, Step, ServerOps, TopicOps
<1> HIDE DEF s
<1>2. ServerBalanced(s)
  <2>1. \A i \in 1 .. Len(s) : i \notin {1, 5} => s[i].op \notin {"lock_server", "unlock_server"}
    BY <1>1
  <2>2. /\ s \in Seq(Step) /\ 1 \in 1 .. Len(s) /\ 5 \in 1 .. Len(s)
        /\ 1 < 5 /\ s[1].op = "lock_server" /\ s[5].op = "unlock_server"
    BY <1>1
  <2> QED
    BY <2>1, <2>2, ServerSections
<1>3. TopicsBalanced(s)
  <2>1. \A i \in 1 .. Len(s) :
          i \notin {2, 4} => s[i].op \notin {"lock_topic", "unlock_topic", "shut"}
    BY <1>1
  <2>2. /\ s \in Seq(Step) /\ 2 \in 1 .. Len(s) /\ 4 \in 1 .. Len(s) /\ 2 < 4
        /\ s[2].t = s[4].t /\ s[2].op = "lock_topic" /\ s[4].op \in {"unlock_topic", "shut"}
    BY <1>1
  <2> QED
    BY <2>1, <2>2, TopicSections
<1> QED
  BY <1>1, <1>2, <1>3, BalancedParts DEF s

(* stop(). *)
LEMMA StopProgram ==
  ASSUME NEW t \in Topics \cup {Nil}, NEW p \in Procs \cup {Nil}
  PROVE  LET s == Steps(<<"lock_server", "shutdown_all", "close", "unlock_server">>, t, p)
         IN  s \in Seq(Step) /\ Balanced(s)
<1> DEFINE s == Steps(<<"lock_server", "shutdown_all", "close", "unlock_server">>, t, p)
<1>1. /\ s \in Seq(Step) /\ Len(s) = 4
      /\ s[1].op = "lock_server" /\ s[2].op = "shutdown_all" /\ s[3].op = "close"
      /\ s[4].op = "unlock_server"
      /\ \A i \in 1 .. 4 : s[i].t = t
  BY DEF Steps, Step, ServerOps, TopicOps
<1> HIDE DEF s
<1>2. ServerBalanced(s)
  <2>1. \A i \in 1 .. Len(s) : i \notin {1, 4} => s[i].op \notin {"lock_server", "unlock_server"}
    BY <1>1
  <2>2. /\ s \in Seq(Step) /\ 1 \in 1 .. Len(s) /\ 4 \in 1 .. Len(s)
        /\ 1 < 4 /\ s[1].op = "lock_server" /\ s[4].op = "unlock_server"
    BY <1>1
  <2> QED
    BY <2>1, <2>2, ServerSections
<1>3. TopicsBalanced(s)
  <2>1. \A i \in 1 .. Len(s) : s[i].op \notin {"lock_topic", "unlock_topic", "shut"}
    BY <1>1
  <2> QED
    BY <1>1, <2>1, TopicSections
<1> QED
  BY <1>1, <1>2, <1>3, BalancedParts DEF s
(* Steps without a lock. *)
LEMMA PlainBalanced ==
  ASSUME NEW s \in Seq(Step),
         \A i \in 1 .. Len(s) : s[i].op \notin {"lock_server", "unlock_server", "lock_topic",
                                              "unlock_topic", "shut"}
  PROVE  Balanced(s)
<1>1. ServerBalanced(s)
  <2>1. \A i \in 1 .. Len(s) : s[i].op \notin {"lock_server", "unlock_server"}
    OBVIOUS
  <2> QED
    BY <2>1, ServerSections
<1>2. TopicsBalanced(s)
  <2>1. \A i \in 1 .. Len(s) : s[i].op \notin {"lock_topic", "unlock_topic", "shut"}
    OBVIOUS
  <2> QED
    BY <2>1, TopicSections
<1> QED
  BY <1>1, <1>2, BalancedParts

(* The program of every request. *)
LEMMA RequestProgram ==
  ASSUME NEW r \in Request
  PROVE  handle_request(r) \in Seq(Step) /\ Balanced(handle_request(r))
<1>1. r.t \in Topics /\ r.p \in Procs \cup {Nil} /\ r.op \in Ops
  BY DEF Request, Ops
<1>2. CASE r.op = "CREATE"
  <2>1. handle_request(r) =
          Steps(<<"lock_server", "create", "unlock_server", "respond">>, r.t, r.p)
    BY <1>2 DEF handle_request
  <2> QED
    BY <1>1, <2>1, CreateProgram
<1>3. CASE r.op = "LIST" \/ (r.op = "SUBSCRIBE" /\ r.t \notin topics)
  <2>1. handle_request(r) = Steps(<<"lock_server", "respond", "unlock_server">>, r.t, r.p)
    BY <1>3 DEF handle_request
  <2> QED
    BY <1>1, <2>1, ListProgram
<1>4. CASE r.op = "CONNECT" /\ r.t \in topics
  <2> DEFINE a == Steps(<<"lock_server", "unlock_server">>, r.t, r.p)
             b == Steps(<<"lock_server", "unlock_server", "respond">>, r.t, r.p)
  <2>1. handle_request(r) = Steps(<<"lock_server", "unlock_server", "lock_server",
                                    "unlock_server", "respond">>, r.t, r.p)
    BY <1>4 DEF handle_request
  <2>2. a \in Seq(Step) /\ Balanced(a) /\ b \in Seq(Step) /\ Balanced(b)
    BY <1>1, LookupProgram, RefusedProgram
  <2>3. handle_request(r) = a \o b
    BY <2>1 DEF Steps
  <2> HIDE DEF a, b
  <2> QED
    BY <2>2, <2>3, BalancedConcat, ConcatProperties
<1>5. CASE r.op = "CONNECT" /\ r.t \notin topics
  <2>1. handle_request(r) = Steps(<<"lock_server", "unlock_server", "respond">>, r.t, r.p)
    BY <1>5 DEF handle_request
  <2> QED
    BY <1>1, <2>1, RefusedProgram
<1>6. CASE r.op = "COMMIT" \/ (r.op = "PRODUCE" /\ r.t \notin topics)
  <2>1. handle_request(r) = Steps(<<"lock_server", "unlock_server">>, r.t, r.p)
    BY <1>6 DEF handle_request
  <2> QED
    BY <1>1, <2>1, LookupProgram
<1>7. CASE r.op = "PRODUCE" /\ r.t \in topics
  <2>1. handle_request(r) = Steps(<<"lock_server", "unlock_server", "lock_topic",
                                    "append", "unlock_topic">>, r.t, r.p)
    BY <1>7 DEF handle_request
  <2> QED
    BY <1>1, <2>1, ProduceProgram
<1>8. CASE r.op = "SUBSCRIBE" /\ r.t \in topics
  <2>1. handle_request(r) = Steps(<<"lock_server", "accept", "lock_topic", "attach",
                                    "unlock_topic", "unlock_server">>, r.t, r.p)
    BY <1>8 DEF handle_request
  <2>2. r.p \in Procs
    BY <1>8 DEF Request
  <2> QED
    BY <1>1, <2>1, <2>2, SubscribeProgram
<1>9. CASE r.op = "DISCONNECT"
  <2>1. handle_request(r) = Steps(<<"lock_server", "lock_topic", "detach", "unlock_topic",
                                    "unlock_server">>, r.t, r.p)
    BY <1>9 DEF handle_request
  <2>2. r.p \in Procs
    BY <1>9 DEF Request
  <2> QED
    BY <1>1, <2>1, <2>2, DisconnectProgram
<1> QED
  BY <1>1, <1>2, <1>3, <1>4, <1>5, <1>6, <1>7, <1>8, <1>9 DEF Ops

(* What else is put on the stack: stop(), the loop over the topics, and a  *)
(* shutdown() in it.                                                       *)
LEMMA OtherPrograms ==
  /\ <<>> \in Seq(Step) /\ Balanced(<<>>) /\ Len(<<>>) = 0
  /\ stop \in Seq(Step) /\ Balanced(stop)
  /\ LET s == Steps(<<"stop">>, Nil, Nil)
     IN  s \in Seq(Step) /\ Balanced(s) /\ Len(s) = 1 /\ s[1].op = "stop"
  /\ LET s == Steps(<<"stop", "shutdown_all">>, Nil, Nil)
     IN  /\ s \in Seq(Step) /\ Balanced(s) /\ Len(s) = 2
         /\ s[1].op = "stop" /\ s[2].op = "shutdown_all"
  /\ \A rest \in SUBSET Topics :
       /\ Loop(rest) \in Seq(Step) /\ Balanced(Loop(rest)) /\ Len(Loop(rest)) = 1
       /\ Loop(rest)[1].op = "shutdown_rest" /\ Loop(rest)[1].rest = rest
       /\ \A t \in Topics :
            LET s == shutdown(t) \o Loop(rest)
            IN  /\ s \in Seq(Step) /\ Balanced(s) /\ Len(s) = 3
                /\ s[1].op = "lock_topic" /\ s[1].t = t /\ s[2].op = "shut" /\ s[2].t = t
                /\ s[3].op = "shutdown_rest" /\ s[3].rest = rest
<1>1. <<>> \in Seq(Step) /\ Balanced(<<>>) /\ Len(<<>>) = 0
  <2>1. <<>> \in Seq(Step) /\ Len(<<>>) = 0
    BY EmptySeq
  <2>2. \A i \in 1 .. Len(<<>>) : FALSE
    BY <2>1
  <2> QED
    BY <2>1, <2>2, PlainBalanced
<1>2. stop \in Seq(Step) /\ Balanced(stop)
  <2>1. CASE running
    <3>1. stop = Steps(<<"lock_server", "shutdown_all", "close", "unlock_server">>, Nil, Nil)
      BY <2>1 DEF stop
    <3> QED
      BY <3>1, StopProgram
  <2>2. CASE ~running
    BY <1>1, <2>2 DEF stop
  <2> QED
    BY <2>1, <2>2
<1>3. LET s == Steps(<<"stop">>, Nil, Nil)
      IN  s \in Seq(Step) /\ Balanced(s) /\ Len(s) = 1 /\ s[1].op = "stop"
  <2> DEFINE s == Steps(<<"stop">>, Nil, Nil)
  <2>1. s \in Seq(Step) /\ Len(s) = 1 /\ s[1].op = "stop"
    BY DEF Steps, Step, ServerOps
  <2> HIDE DEF s
  <2>2. Balanced(s)
    BY <2>1, PlainBalanced
  <2> QED
    BY <2>1, <2>2 DEF s
<1>4. LET s == Steps(<<"stop", "shutdown_all">>, Nil, Nil)
      IN  /\ s \in Seq(Step) /\ Balanced(s) /\ Len(s) = 2
          /\ s[1].op = "stop" /\ s[2].op = "shutdown_all"
  <2> DEFINE s == Steps(<<"stop", "shutdown_all">>, Nil, Nil)
  <2>1. s \in Seq(Step) /\ Len(s) = 2 /\ s[1].op = "stop" /\ s[2].op = "shutdown_all"
    BY DEF Steps, Step, ServerOps
  <2> HIDE DEF s
  <2>2. Balanced(s)
    BY <2>1, PlainBalanced
  <2> QED
    BY <2>1, <2>2 DEF s
<1>5. ASSUME NEW rest \in SUBSET Topics
      PROVE  /\ Loop(rest) \in Seq(Step) /\ Balanced(Loop(rest)) /\ Len(Loop(rest)) = 1
             /\ Loop(rest)[1].op = "shutdown_rest" /\ Loop(rest)[1].rest = rest
  <2> DEFINE s == Loop(rest)
  <2>1. /\ s \in Seq(Step) /\ Len(s) = 1
        /\ s[1].op = "shutdown_rest" /\ s[1].rest = rest
    BY DEF Loop, Step
  <2> HIDE DEF s
  <2>2. Balanced(s)
    BY <2>1, PlainBalanced
  <2> QED
    BY <2>1, <2>2 DEF s
<1>6. ASSUME NEW rest \in SUBSET Topics, NEW t \in Topics
      PROVE  LET s == shutdown(t) \o Loop(rest)
             IN  /\ s \in Seq(Step) /\ Balanced(s) /\ Len(s) = 3
                 /\ s[1].op = "lock_topic" /\ s[1].t = t /\ s[2].op = "shut" /\ s[2].t = t
                 /\ s[3].op = "shutdown_rest" /\ s[3].rest = rest
  <2> DEFINE s == shutdown(t) \o Loop(rest)
  <2>1. /\ shutdown(t) \in Seq(Step) /\ Len(shutdown(t)) = 2
        /\ shutdown(t)[1].op = "lock_topic" /\ shutdown(t)[1].t = t
        /\ shutdown(t)[2].op = "shut" /\ shutdown(t)[2].t = t
    BY DEF shutdown, Steps, Step, TopicOps
  <2>2. /\ s \in Seq(Step) /\ Len(s) = 3
        /\ s[1] = shutdown(t)[1] /\ s[2] = shutdown(t)[2] /\ s[3] = Loop(rest)[1]
    BY <1>5, <2>1, ConcatProperties
  <2> HIDE DEF s
  <2>3. /\ s[1].op = "lock_topic" /\ s[1].t = t /\ s[2].op = "shut" /\ s[2].t = t
        /\ s[3].op = "shutdown_rest" /\ s[3].rest = rest
    BY <1>5, <2>1, <2>2
  <2>4. ServerBalanced(s)
    <3>1. \A i \in 1 .. Len(s) : s[i].op \notin {"lock_server", "unlock_server"}
      BY <2>2, <2>3
    <3> QED
      BY <2>2, <3>1, ServerSections
  <2>5. TopicsBalanced(s)
    <3>1. \A i \in 1 .. Len(s) : i \notin {1, 2} => s[i].op \notin {"lock_topic", "unlock_topic", "shut"}
      BY <2>2, <2>3
    <3>2. /\ s \in Seq(Step) /\ 1 \in 1 .. Len(s) /\ 2 \in 1 .. Len(s) /\ 1 < 2
          /\ s[1].t = s[2].t /\ s[1].op = "lock_topic" /\ s[2].op \in {"unlock_topic", "shut"}
      BY <2>2, <2>3
    <3> QED
      BY <3>1, <3>2, TopicSections
  <2> QED
    BY <2>2, <2>3, <2>4, <2>5, BalancedParts DEF s
<1> QED
  BY <1>1, <1>2, <1>3, <1>4, <1>5, <1>6

(* A handler, or an open that blocks, is put on top of the stack. *)
LEMMA OnePushed ==
  ASSUME signal_handler \/ open_blocks
  PROVE  \E s \in Seq(Step) : /\ Balanced(s) /\ Len(s) = 1 /\ s[1].op \in {"stop", "blocked"}
                              /\ \A x \in Elements(s) : x.op \in {"stop", "blocked"}
                              /\ todo' = s \o todo
<1>1. CASE signal_handler
  <2> DEFINE s == Steps(<<"stop">>, Nil, Nil)
  <2>1. s \in Seq(Step) /\ Balanced(s) /\ Len(s) = 1 /\ s[1].op = "stop"
    BY OtherPrograms
  <2>2. todo' = s \o todo
    BY <1>1 DEF signal_handler
  <2> HIDE DEF s
  <2>3. \A x \in Elements(s) : x.op = "stop"
    BY <2>1 DEF Elements
  <2> QED
    BY <2>1, <2>2, <2>3
<1>2. CASE open_blocks
  <2> DEFINE s == Blocked
  <2>1. s \in Seq(Step) /\ Len(s) = 1 /\ s[1].op = "blocked"
    BY DEF Blocked, Steps, Step, ServerOps
  <2>2. todo' = s \o todo
    BY <1>2 DEF open_blocks
  <2> HIDE DEF s
  <2>3. Balanced(s)
    BY <2>1, PlainBalanced
  <2>4. \A x \in Elements(s) : x.op = "blocked"
    BY <2>1 DEF Elements
  <2> QED
    BY <2>1, <2>2, <2>3, <2>4
<1> QED
  BY <1>1, <1>2
-----------------------------------------------------------------------------
(* The locks stay balanced.                                                *)

(* A step that is none of the locks', replaced by a balanced program. *)
LEMMA LockKept ==
  ASSUME todo \in Seq(Step), LockInv, NEW op, NEW new \in Seq(Step), Does(op, new), Balanced(new),
         op \notin {"lock_server", "unlock_server", "lock_topic", "unlock_topic", "shut"},
         UNCHANGED mutexVars
  PROVE  LockInv'
<1>1. todo[1] \in Step /\ todo[1].op = op
  BY DoesStack
<1>2. todo[1] \notin UnlocksServer /\ todo[1] \notin LocksServer
  BY <1>1, LockSteps
<1>3. \A t : todo[1] \notin UnlocksTopic(t) /\ todo[1] \notin LocksTopic(t)
  BY <1>1, LockSteps
<1>4. ASSUME NEW U, NEW L, NEW n \in Int, Closed(todo, U, L), Level(todo, U, L, 1) = n,
             Closed(new, U, L), Level(new, U, L, 1) = 0, todo[1] \notin U, todo[1] \notin L
      PROVE  Closed(todo, U, L)' /\ Level(todo', U, L, 1) = n
  <2>1. /\ Closed(todo, U, L)'
        /\ Level(todo, U, L, 2) \in Nat
        /\ Level(todo', U, L, 1) = Level(new, U, L, 1) + Level(todo, U, L, 2)
        /\ Level(todo, U, L, 1) = Level(todo, U, L, 2)
             + (IF todo[1] \in U THEN 1 ELSE 0) - (IF todo[1] \in L THEN 1 ELSE 0)
    BY <1>4, DoesLevel
  <2>2. Level(todo, U, L, 1) = Level(todo, U, L, 2) + 0 - 0
    BY <1>4, <2>1
  <2> QED
    BY <1>4, <2>1, <2>2
<1>5. \A m : Held(m) \in Int
  BY DEF Held
<1>6. ServerLock'
  <2>1. Closed(todo, UnlocksServer, LocksServer)'
        /\ Level(todo', UnlocksServer, LocksServer, 1) = Held(server_mutex)
    BY <1>2, <1>4, <1>5 DEF LockInv, ServerLock, Balanced
  <2> QED
    BY <2>1 DEF ServerLock, mutexVars
<1>7. ASSUME NEW t \in Topics PROVE TopicLock(t)'
  <2>1. Closed(todo, UnlocksTopic(t), LocksTopic(t))'
        /\ Level(todo', UnlocksTopic(t), LocksTopic(t), 1) = Held(topic_mutex[t])
    BY <1>3, <1>4, <1>5 DEF LockInv, TopicLock, Balanced
  <2> QED
    BY <2>1 DEF TopicLock, mutexVars
<1> QED
  BY <1>6, <1>7 DEF LockInv

(* A balanced program is put in front of what there is to do. *)
LEMMA LockPushed ==
  ASSUME todo \in Seq(Step), LockInv, NEW new \in Seq(Step), Balanced(new), todo' = new \o todo,
         UNCHANGED mutexVars
  PROVE  LockInv' /\ todo' \in Seq(Step)
<1>0. /\ Len(new) \in Nat /\ Len(todo) \in Nat /\ todo' \in Seq(Step)
      /\ Len(todo') = Len(new) + Len(todo)
  BY ConcatProperties
<1>1. ASSUME NEW U, NEW L, NEW n \in Nat, Closed(todo, U, L), Level(todo, U, L, 1) = n,
             Closed(new, U, L), Level(new, U, L, 1) = 0
      PROVE  Closed(todo, U, L)' /\ Level(todo', U, L, 1) = n
  <2>1. \A k \in 1 .. Len(new) + 1 : Level(todo', U, L, k) = Level(new, U, L, k) + n
    BY <1>1, LevelPushed
  <2>2. \A k \in 1 .. Len(todo) + 1 : Level(todo', U, L, Len(new) + k) = Level(todo, U, L, k)
    BY LevelBelow
  <2>3. ASSUME NEW k \in 1 .. Len(todo') + 1
        PROVE  Level(todo', U, L, k) >= 0
    <3>1. CASE k <= Len(new) + 1
      <4>1. Cardinality(From(new, U, k)) \in Nat /\ Cardinality(From(new, L, k)) \in Nat
        BY <1>0, FromFinite
      <4>2. Level(new, U, L, k) \in Int
        BY <4>1 DEF Level
      <4>3. k \in 1 .. Len(new) + 1
        BY <1>0, <3>1
      <4>4. Level(new, U, L, k) >= 0
        BY <1>1, <4>3 DEF Closed
      <4> QED
        BY <1>1, <2>1, <4>2, <4>3, <4>4
    <3>2. CASE k > Len(new) + 1
      <4>1. k - Len(new) \in 1 .. Len(todo) + 1 /\ k = Len(new) + (k - Len(new))
        BY <1>0, <3>2
      <4>2. Level(todo, U, L, k - Len(new)) >= 0
        BY <1>1, <4>1 DEF Closed
      <4>3. Level(todo', U, L, Len(new) + (k - Len(new))) = Level(todo, U, L, k - Len(new))
        BY <2>2, <4>1
      <4> QED
        BY <4>1, <4>2, <4>3
    <3> QED
      BY <1>0, <3>1, <3>2
  <2>4. 1 \in 1 .. Len(new) + 1
    BY <1>0
  <2>5. Level(todo', U, L, 1) = 0 + n
    BY <1>1, <2>1, <2>4
  <2>6. Closed(todo, U, L)'
    BY <2>3 DEF Closed, Level, From
  <2> QED
    BY <2>5, <2>6
<1>2. \A m : Held(m) \in Nat
  BY DEF Held
<1>3. ServerLock'
  <2>1. Closed(todo, UnlocksServer, LocksServer)'
        /\ Level(todo', UnlocksServer, LocksServer, 1) = Held(server_mutex)
    BY <1>1, <1>2 DEF LockInv, ServerLock, Balanced
  <2> QED
    BY <2>1 DEF ServerLock, mutexVars
<1>4. ASSUME NEW t \in Topics PROVE TopicLock(t)'
  <2>1. Closed(todo, UnlocksTopic(t), LocksTopic(t))'
        /\ Level(todo', UnlocksTopic(t), LocksTopic(t), 1) = Held(topic_mutex[t])
    BY <1>1, <1>2 DEF LockInv, TopicLock, Balanced
  <2> QED
    BY <2>1 DEF TopicLock, mutexVars
<1> QED
  BY <1>0, <1>3, <1>4 DEF LockInv

(* The steps of the locks themselves: what they replace themselves by, and *)
(* how far that takes a level.                                             *)
LEMMA LockMoved ==
  ASSUME todo \in Seq(Step), NEW op, NEW new \in Seq(Step), Does(op, new),
         NEW U, NEW L, Closed(todo, U, L), Closed(new, U, L)
  PROVE  /\ Closed(todo, U, L)' /\ Level(todo, U, L, 1) \in Int
         /\ todo[1] \in U /\ todo[1] \notin L => Level(todo, U, L, 1) >= 1
         /\ Level(todo', U, L, 1) = Level(new, U, L, 1) + (Level(todo, U, L, 1)
              - (IF todo[1] \in U THEN 1 ELSE 0) + (IF todo[1] \in L THEN 1 ELSE 0))
<1>1. /\ Closed(todo, U, L)'
      /\ Level(todo, U, L, 2) \in Nat
      /\ Level(todo', U, L, 1) = Level(new, U, L, 1) + Level(todo, U, L, 2)
      /\ Level(todo, U, L, 1) = Level(todo, U, L, 2)
           + (IF todo[1] \in U THEN 1 ELSE 0) - (IF todo[1] \in L THEN 1 ELSE 0)
  BY DoesLevel
<1>2. PICK l1, l2, n : l1 = Level(todo, U, L, 1) /\ l2 = Level(todo, U, L, 2) /\ n = Level(new, U, L, 1)
  OBVIOUS
<1>3. l2 \in Nat /\ l1 = l2 + (IF todo[1] \in U THEN 1 ELSE 0) - (IF todo[1] \in L THEN 1 ELSE 0)
  BY <1>1, <1>2
<1>4. /\ l1 \in Int /\ (todo[1] \in U /\ todo[1] \notin L => l1 >= 1)
      /\ l2 = l1 - (IF todo[1] \in U THEN 1 ELSE 0) + (IF todo[1] \in L THEN 1 ELSE 0)
  BY <1>3
<1> QED
  BY <1>1, <1>2, <1>4

(* lock_server and unlock_server move the level of server_mutex with it,   *)
(* and leave the others alone.                                             *)
LEMMA ServerLockStep ==
  ASSUME TypeOK, LockInv, lock_server \/ unlock_server
  PROVE  LockInv'
<1> DEFINE new == <<>>
<1>1. new \in Seq(Step) /\ Balanced(new)
  BY OtherPrograms
<1> HIDE DEF new
<1>2. PICK op \in {"lock_server", "unlock_server"} : Does(op, new)
  BY DEF lock_server, unlock_server, new
<1>3. todo \in Seq(Step) /\ todo[1] \in Step /\ todo[1].op = op /\ topic_mutex' = topic_mutex
  BY <1>1, <1>2, DoesStack DEF TypeOK, lock_server, unlock_server
<1>4. ASSUME NEW t \in Topics PROVE TopicLock(t)'
  <2>1. todo[1] \notin UnlocksTopic(t) /\ todo[1] \notin LocksTopic(t)
    BY <1>2, <1>3, LockSteps
  <2>2. /\ Closed(todo, UnlocksTopic(t), LocksTopic(t))
        /\ Closed(new, UnlocksTopic(t), LocksTopic(t))
        /\ Level(new, UnlocksTopic(t), LocksTopic(t), 1) = 0
        /\ Level(todo, UnlocksTopic(t), LocksTopic(t), 1) = Held(topic_mutex[t])
    BY <1>1 DEF LockInv, TopicLock, Balanced
  <2>3. /\ Closed(todo, UnlocksTopic(t), LocksTopic(t))'
        /\ Level(todo, UnlocksTopic(t), LocksTopic(t), 1) \in Int
        /\ Level(todo', UnlocksTopic(t), LocksTopic(t), 1) =
             Level(new, UnlocksTopic(t), LocksTopic(t), 1)
             + (Level(todo, UnlocksTopic(t), LocksTopic(t), 1)
                - (IF todo[1] \in UnlocksTopic(t) THEN 1 ELSE 0)
                + (IF todo[1] \in LocksTopic(t) THEN 1 ELSE 0))
    BY <1>1, <1>2, <1>3, <2>2, LockMoved
  <2>4. Level(todo', UnlocksTopic(t), LocksTopic(t), 1) =
          0 + (Level(todo, UnlocksTopic(t), LocksTopic(t), 1) - 0 + 0)
    BY <2>1, <2>2, <2>3
  <2>5. Level(todo', UnlocksTopic(t), LocksTopic(t), 1) = Held(topic_mutex'[t])
    BY <1>3, <2>2, <2>3, <2>4
  <2> QED
    BY <2>3, <2>5 DEF TopicLock
<1>5. /\ Closed(todo, UnlocksServer, LocksServer) /\ Closed(new, UnlocksServer, LocksServer)
      /\ Level(new, UnlocksServer, LocksServer, 1) = 0
      /\ Level(todo, UnlocksServer, LocksServer, 1) = Held(server_mutex)
  BY <1>1 DEF LockInv, ServerLock, Balanced
<1>6. /\ Closed(todo, UnlocksServer, LocksServer)'
      /\ todo[1] \in UnlocksServer /\ todo[1] \notin LocksServer
           => Level(todo, UnlocksServer, LocksServer, 1) >= 1
      /\ Level(todo', UnlocksServer, LocksServer, 1) =
           Level(new, UnlocksServer, LocksServer, 1)
           + (Level(todo, UnlocksServer, LocksServer, 1)
              - (IF todo[1] \in UnlocksServer THEN 1 ELSE 0)
              + (IF todo[1] \in LocksServer THEN 1 ELSE 0))
  BY <1>1, <1>2, <1>3, <1>5, LockMoved
<1>7. Level(todo', UnlocksServer, LocksServer, 1) = Held(server_mutex')
  <2>1. CASE lock_server
    <3>1. server_mutex = "free" /\ server_mutex' = "main" /\ todo[1].op = "lock_server"
      BY <1>3, <2>1, DoesStack, <1>1 DEF lock_server, Does
    <3>2. todo[1] \notin UnlocksServer /\ todo[1] \in LocksServer
      BY <1>3, <3>1, LockSteps
    <3>3. Held(server_mutex) = 0 /\ Held(server_mutex') = 1
      BY <3>1 DEF Held
    <3>4. Level(todo', UnlocksServer, LocksServer, 1) = 0 + (0 - 0 + 1)
      BY <1>5, <1>6, <3>2, <3>3
    <3> QED
      BY <3>3, <3>4
  <2>2. CASE unlock_server
    <3>1. server_mutex' = "free" /\ todo[1].op = "unlock_server"
      BY <1>3, <2>2, DoesStack, <1>1 DEF unlock_server, Does
    <3>2. todo[1] \in UnlocksServer /\ todo[1] \notin LocksServer
      BY <1>3, <3>1, LockSteps
    <3>3. Held(server_mutex) = 1 /\ Held(server_mutex') = 0
      BY <1>5, <1>6, <3>1, <3>2 DEF Held
    <3>4. Level(todo', UnlocksServer, LocksServer, 1) = 0 + (1 - 1 + 0)
      BY <1>5, <1>6, <3>2, <3>3
    <3> QED
      BY <3>3, <3>4
  <2> QED
    BY <2>1, <2>2
<1>8. ServerLock'
  BY <1>6, <1>7 DEF ServerLock
<1> QED
  BY <1>4, <1>8 DEF LockInv

(* shutdown() of a stopped topic, or the rest of a first one: the mutex is *)
(* released, and nothing else is locked.                                   *)
LEMMA ShutPrograms ==
  ASSUME NEW t \in Topics
  PROVE  /\ LET s == Steps(<<"unlock_topic">>, t, Nil)
            IN  s \in Seq(Step) /\ Len(s) = 1 /\ s[1].op = "unlock_topic" /\ s[1].t = t
         /\ /\ AfterShut(t) \in Seq(Step) /\ Len(AfterShut(t)) = 3
            /\ AfterShut(t)[1].op = "unlock_topic" /\ AfterShut(t)[1].t = t
            /\ AfterShut(t)[2].op = "notify" /\ AfterShut(t)[2].t = t
            /\ AfterShut(t)[3].op = "join" /\ AfterShut(t)[3].t = t
  BY DEF AfterShut, Steps, Step, TopicOps

(* Steps that begin by unlocking a topic unlock it once, and nothing else. *)
LEMMA ReleaseLevels ==
  ASSUME NEW s \in Seq(Step), NEW t \in Topics, Len(s) >= 1,
         s[1].op = "unlock_topic", s[1].t = t,
         \A i \in 1 .. Len(s) : i # 1 => s[i].op \in {"notify", "join"}
  PROVE  /\ ServerBalanced(s)
         /\ Closed(s, UnlocksTopic(t), LocksTopic(t)) /\ Level(s, UnlocksTopic(t), LocksTopic(t), 1) = 1
         /\ \A u \in Topics \ {t} :
              Closed(s, UnlocksTopic(u), LocksTopic(u)) /\ Level(s, UnlocksTopic(u), LocksTopic(u), 1) = 0
<1>1. 1 \in 1 .. Len(s) /\ \A i \in 1 .. Len(s) : s[i] \in Step
  OBVIOUS
<1>2. ServerBalanced(s)
  <2>1. \A i \in 1 .. Len(s) : s[i].op \notin {"lock_server", "unlock_server"}
    OBVIOUS
  <2> QED
    BY <2>1, ServerSections
<1>3. \A u : \A i \in 1 .. Len(s) :
        /\ s[i] \in UnlocksTopic(u) <=> s[i].op \in {"unlock_topic", "shut"} /\ s[i].t = u
        /\ s[i] \in LocksTopic(u) <=> s[i].op = "lock_topic" /\ s[i].t = u
  BY <1>1, LockSteps
<1>4. Closed(s, UnlocksTopic(t), LocksTopic(t)) /\ Level(s, UnlocksTopic(t), LocksTopic(t), 1) = 1
  <2>1. /\ s[1] \in UnlocksTopic(t)
        /\ \A i \in 1 .. Len(s) : s[i] \notin LocksTopic(t) /\ (i # 1 => s[i] \notin UnlocksTopic(t))
    BY <1>1, <1>3
  <2> QED
    BY <1>1, <2>1, OneRelease
<1>5. ASSUME NEW u \in Topics \ {t}
      PROVE  Closed(s, UnlocksTopic(u), LocksTopic(u)) /\ Level(s, UnlocksTopic(u), LocksTopic(u), 1) = 0
  <2>1. \A i \in 1 .. Len(s) : s[i] \notin UnlocksTopic(u) \cup LocksTopic(u)
    BY <1>3, <1>5
  <2> QED
    BY <2>1, NoSection
<1> QED
  BY <1>2, <1>4, <1>5

(* The topic a step works on. *)
LEMMA StepTopic ==
  ASSUME NEW x \in Step
  PROVE  /\ x.op \in TopicOps \cup {"accept", "attach", "detach"} => x.t \in Topics
         /\ x.op \in {"accept", "attach", "detach"} => x.p \in Procs
         /\ x.op = "shutdown_rest" => x.rest \in SUBSET Topics
  BY DEF Step, TopicOps, ServerOps

(* A step on the mutex of one topic leaves the other locks alone, and      *)
(* takes the level of its own by what it did to it.                        *)
LEMMA TopicLockMoved ==
  ASSUME todo \in Seq(Step), LockInv, NEW op, NEW new \in Seq(Step), Does(op, new),
         op \in {"lock_topic", "unlock_topic", "shut"}, NEW n \in Int,
         ServerBalanced(new), server_mutex' = server_mutex,
         \A u \in Topics \ {T} :
           Closed(new, UnlocksTopic(u), LocksTopic(u)) /\ Level(new, UnlocksTopic(u), LocksTopic(u), 1) = 0,
         Closed(new, UnlocksTopic(T), LocksTopic(T)), Level(new, UnlocksTopic(T), LocksTopic(T), 1) = n,
         \A u \in Topics \ {T} : topic_mutex'[u] = topic_mutex[u],
         (op = "lock_topic" => Held(topic_mutex'[T]) = n + (Held(topic_mutex[T]) + 1)),
         (op # "lock_topic" /\ Held(topic_mutex[T]) = 1 => Held(topic_mutex'[T]) = n)
  PROVE  LockInv' /\ (op # "lock_topic" => Held(topic_mutex[T]) = 1)
<1>1. todo[1] \in Step /\ todo[1].op = op /\ Head(todo) = todo[1]
  BY DoesStack
<1>2. T \in Topics /\ todo[1].t = T
  BY <1>1, StepTopic DEF TopicOps, T
<1>3. ASSUME NEW U, NEW L, NEW m \in Int, Closed(todo, U, L), Level(todo, U, L, 1) = m,
             Closed(new, U, L), Level(new, U, L, 1) = 0, todo[1] \notin U, todo[1] \notin L
      PROVE  Closed(todo, U, L)' /\ Level(todo', U, L, 1) = m
  <2>1. /\ Closed(todo, U, L)'
        /\ Level(todo', U, L, 1) = Level(new, U, L, 1) + (Level(todo, U, L, 1)
              - (IF todo[1] \in U THEN 1 ELSE 0) + (IF todo[1] \in L THEN 1 ELSE 0))
    BY <1>3, LockMoved
  <2>2. Level(todo', U, L, 1) = 0 + (m - 0 + 0)
    BY <1>3, <2>1
  <2> QED
    BY <2>1, <2>2
<1>4. \A m : Held(m) \in {0, 1}
  BY DEF Held
<1>5. ServerLock'
  <2>1. todo[1] \notin UnlocksServer /\ todo[1] \notin LocksServer
    BY <1>1, LockSteps
  <2>2. Closed(todo, UnlocksServer, LocksServer)'
        /\ Level(todo', UnlocksServer, LocksServer, 1) = Held(server_mutex)
    BY <1>3, <1>4, <2>1 DEF LockInv, ServerLock, ServerBalanced
  <2> QED
    BY <2>2 DEF ServerLock
<1>6. ASSUME NEW u \in Topics \ {T} PROVE TopicLock(u)'
  <2>1. todo[1] \notin UnlocksTopic(u) /\ todo[1] \notin LocksTopic(u)
    BY <1>1, <1>2, <1>6, LockSteps
  <2>2. Closed(todo, UnlocksTopic(u), LocksTopic(u))'
        /\ Level(todo', UnlocksTopic(u), LocksTopic(u), 1) = Held(topic_mutex[u])
    BY <1>3, <1>4, <2>1 DEF LockInv, TopicLock
  <2> QED
    BY <2>2 DEF TopicLock
<1>7. /\ Closed(todo, UnlocksTopic(T), LocksTopic(T))
      /\ Level(todo, UnlocksTopic(T), LocksTopic(T), 1) = Held(topic_mutex[T])
  BY <1>2 DEF LockInv, TopicLock
<1>8. PICK U, L : U = UnlocksTopic(T) /\ L = LocksTopic(T)
  OBVIOUS
<1>9. /\ Closed(todo, U, L)'
      /\ todo[1] \in U /\ todo[1] \notin L => Held(topic_mutex[T]) >= 1
      /\ Level(todo', U, L, 1) = n + (Held(topic_mutex[T])
            - (IF todo[1] \in U THEN 1 ELSE 0) + (IF todo[1] \in L THEN 1 ELSE 0))
  BY <1>7, <1>8, LockMoved
<1>10. /\ op = "lock_topic" => todo[1] \notin U /\ todo[1] \in L
       /\ op # "lock_topic" => todo[1] \in U /\ todo[1] \notin L
  BY <1>1, <1>2, <1>8, LockSteps
<1>11. op # "lock_topic" => Held(topic_mutex[T]) = 1
  BY <1>4, <1>9, <1>10
<1>12. Level(todo', U, L, 1) = Held(topic_mutex'[T])
  <2>1. CASE op = "lock_topic"
    <3>1. Level(todo', U, L, 1) = n + (Held(topic_mutex[T]) - 0 + 1)
      BY <1>9, <1>10, <2>1
    <3> QED
      BY <1>4, <2>1, <3>1
  <2>2. CASE op # "lock_topic"
    <3>1. Level(todo', U, L, 1) = n + (1 - 1 + 0)
      BY <1>9, <1>10, <1>11, <2>2
    <3> QED
      BY <1>11, <2>2, <3>1
  <2> QED
    BY <2>1, <2>2
<1>13. ASSUME NEW u \in Topics, u = T PROVE TopicLock(u)'
  BY <1>8, <1>9, <1>12, <1>13 DEF TopicLock
<1> QED
  BY <1>5, <1>6, <1>11, <1>13 DEF LockInv

(* The steps that are none of the locks'. *)
Quiet ==
  \/ do_stop \/ shutdown_all \/ shutdown_rest \/ respond \/ create \/ accept \/ attach
  \/ detach \/ append \/ notify \/ join
LockOps == {"lock_server", "unlock_server", "lock_topic", "unlock_topic", "shut"}

(* They put only balanced programs on the stack. *)
LEMMA QuietDoes ==
  ASSUME TypeOK, TopicInv, Quiet
  PROVE  /\ UNCHANGED mutexVars
         /\ \E op, new : op \notin LockOps /\ new \in Seq(Step) /\ Balanced(new) /\ Does(op, new)
<1> USE DEF LockOps
<1>0. <<>> \in Seq(Step) /\ Balanced(<<>>)
  BY OtherPrograms
<1>1. CASE do_stop
  BY <1>1, OtherPrograms DEF do_stop
<1>2. CASE shutdown_all
  <2>1. topics \in SUBSET Topics
    BY DEF TypeOK
  <2> QED
    BY <1>2, <2>1, OtherPrograms DEF shutdown_all
<1>3. CASE shutdown_rest
  <2>1. todo # <<>> /\ Head(todo).op = "shutdown_rest" /\ UNCHANGED mutexVars
    BY <1>3 DEF shutdown_rest, Does
  <2>2. Head(todo) \in Step
    BY <2>1, HeadTailProperties DEF TypeOK
  <2>3. \A t : Head(todo).rest \ {t} \in SUBSET Topics
    BY <2>1, <2>2, StepTopic
  <2>4. CASE Does("shutdown_rest", <<>>)
    BY <1>0, <2>1, <2>4
  <2>5. CASE \E t \in Topics :
               Does("shutdown_rest", shutdown(t) \o Loop(Head(todo).rest \ {t}))
    <3>1. PICK t \in Topics : Does("shutdown_rest", shutdown(t) \o Loop(Head(todo).rest \ {t}))
      BY <2>5
    <3>2. PICK rest \in SUBSET Topics : rest = Head(todo).rest \ {t}
      BY <2>3
    <3>3. shutdown(t) \o Loop(rest) \in Seq(Step) /\ Balanced(shutdown(t) \o Loop(rest))
      BY OtherPrograms
    <3> QED
      BY <2>1, <3>1, <3>2, <3>3
  <2> QED
    BY <1>3, <2>4, <2>5 DEF shutdown_rest
<1>4. CASE respond \/ create \/ accept \/ attach \/ detach \/ append \/ notify \/ join
  <2>1. PICK op \in {"respond", "close", "create", "accept", "attach", "detach", "append", "notify", "join"} :
          Does(op, <<>>)
    BY <1>4 DEF respond, create, accept, attach, detach, append, notify, join
  <2>2. UNCHANGED mutexVars
    BY <1>4 DEF respond, create, accept, attach, detach, append, notify, join
  <2> QED
    BY <1>0, <2>1, <2>2
<1> QED
  BY <1>1, <1>2, <1>3, <1>4 DEF Quiet

(* unlock_topic and the critical section of shutdown() are only reached by *)
(* the holder of the mutex.                                                *)
LEMMA HolderReleases ==
  ASSUME todo \in Seq(Step), LockInv, todo # <<>>, Head(todo).op \in {"unlock_topic", "shut"}
  PROVE  T \in Topics /\ topic_mutex[T] = "main"
<1>1. /\ Head(todo) = todo[1] /\ todo[1] \in Step
      /\ 1 \in 1 .. Len(todo) /\ 2 \in 1 .. Len(todo) + 1 /\ 2 \in Int /\ 2 = 1 + 1
  BY HeadTailProperties
<1>2. T \in Topics /\ todo[1].t = T
  BY <1>1, StepTopic DEF TopicOps, T
<1>3. PICK U, L : U = UnlocksTopic(T) /\ L = LocksTopic(T)
  OBVIOUS
<1>4. todo[1] \in U /\ todo[1] \notin L
  BY <1>1, <1>2, <1>3, LockSteps
<1>5. Level(todo, U, L, 1) = Held(topic_mutex[T]) /\ Level(todo, U, L, 2) >= 0
  BY <1>1, <1>2, <1>3 DEF LockInv, TopicLock, Closed
<1>6. /\ Level(todo, U, L, 2) \in Int
      /\ Level(todo, U, L, 1) = Level(todo, U, L, 2)
           + (IF todo[1] \in U THEN 1 ELSE 0) - (IF todo[1] \in L THEN 1 ELSE 0)
  BY <1>1, LevelNext
<1>7. Level(todo, U, L, 1) = Level(todo, U, L, 2) + 1 - 0
  BY <1>4, <1>6
<1>8. Held(topic_mutex[T]) # 0
  BY <1>5, <1>6, <1>7
<1> QED
  BY <1>2, <1>8 DEF Held

(* The locks are kept by every step. *)
LEMMA LockStep ==
  ASSUME TypeOK, LockInv, TopicInv, [Next]_vars
  PROVE  LockInv' /\ todo' \in Seq(Step)
<1>0. todo \in Seq(Step) /\ DOMAIN topic_mutex = Topics
  BY DEF TypeOK
<1>e. <<>> \in Seq(Step) /\ Balanced(<<>>)
  BY OtherPrograms
<1>1. CASE Quiet
  <2>1. PICK op, new : op \notin LockOps /\ new \in Seq(Step) /\ Balanced(new) /\ Does(op, new)
    BY <1>1, QuietDoes
  <2>2. UNCHANGED mutexVars
    BY <1>1, QuietDoes
  <2>4. LockInv'
    BY <1>0, <2>1, <2>2, LockKept DEF LockOps
  <2>5. todo' \in Seq(Step)
    BY <1>0, <2>1, DoesStack
  <2> QED
    BY <2>4, <2>5
<1>2. CASE lock_server \/ unlock_server
  <2>1. PICK op \in {"lock_server", "unlock_server"} : Does(op, <<>>)
    BY <1>2 DEF lock_server, unlock_server
  <2>3. todo' \in Seq(Step)
    BY <1>0, <1>e, <2>1, DoesStack
  <2> QED
    BY <1>2, <2>3, ServerLockStep
<1>3. CASE lock_topic \/ unlock_topic
  <2> DEFINE new == <<>>
  <2>0. new \in Seq(Step) /\ Balanced(new)
    BY <1>e
  <2> HIDE DEF new
  <2>1. PICK op \in {"lock_topic", "unlock_topic"} : Does(op, new)
    BY <1>3 DEF lock_topic, unlock_topic, new
  <2>2. todo[1] \in Step /\ todo[1].op = op /\ Head(todo) = todo[1] /\ todo' \in Seq(Step)
    BY <1>0, <2>0, <2>1, DoesStack
  <2>3. T \in Topics
    BY <2>2, StepTopic DEF TopicOps, T
  <2>4. /\ ServerBalanced(new)
        /\ \A u \in Topics : Closed(new, UnlocksTopic(u), LocksTopic(u))
                             /\ Level(new, UnlocksTopic(u), LocksTopic(u), 1) = 0
    BY <2>0 DEF Balanced, ServerBalanced
  <2>5. /\ server_mutex' = server_mutex
        /\ \A u \in Topics \ {T} : topic_mutex'[u] = topic_mutex[u]
    BY <1>0, <1>3 DEF lock_topic, unlock_topic
  <2>6. CASE lock_topic
    <3>1. op = "lock_topic" /\ topic_mutex[T] = "free" /\ topic_mutex'[T] = "main"
      BY <1>0, <2>2, <2>3, <2>6 DEF lock_topic, Does
    <3>2. Held(topic_mutex'[T]) = 0 + (Held(topic_mutex[T]) + 1)
      BY <3>1 DEF Held
    <3>3. LockInv'
      BY <1>0, <2>0, <2>1, <2>3, <2>4, <2>5, <3>1, <3>2, TopicLockMoved
    <3> QED
      BY <2>2, <3>3
  <2>7. CASE unlock_topic
    <3>1. op = "unlock_topic" /\ topic_mutex'[T] = "free"
      BY <1>0, <2>2, <2>3, <2>7 DEF unlock_topic, Does
    <3>2. Held(topic_mutex'[T]) = 0
      BY <3>1 DEF Held
    <3>3. LockInv'
      BY <1>0, <2>0, <2>1, <2>3, <2>4, <2>5, <3>1, <3>2, TopicLockMoved
    <3> QED
      BY <2>2, <3>3
  <2> QED
    BY <1>3, <2>6, <2>7
<1>4. CASE shut
  <2>1. PICK new : /\ new = IF stop_flag[T] THEN Steps(<<"unlock_topic">>, T, Nil) ELSE AfterShut(T)
                   /\ Does("shut", new)
    BY <1>4 DEF shut
  <2>2. todo # <<>> /\ Head(todo).op = "shut" /\ Head(todo) \in Step
    BY <1>0, <2>1, HeadTailProperties DEF Does
  <2>3. T \in Topics
    BY <2>2, StepTopic DEF TopicOps, T
  <2>4. /\ new \in Seq(Step) /\ Len(new) >= 1 /\ new[1].op = "unlock_topic" /\ new[1].t = T
        /\ \A i \in 1 .. Len(new) : i # 1 => new[i].op \in {"notify", "join"}
    <3>1. CASE stop_flag[T]
      <4>1. new = Steps(<<"unlock_topic">>, T, Nil)
        BY <2>1, <3>1
      <4>2. /\ new \in Seq(Step) /\ Len(new) = 1 /\ new[1].op = "unlock_topic" /\ new[1].t = T
        BY <2>3, <4>1, ShutPrograms
      <4> QED
        BY <4>2
    <3>2. CASE ~stop_flag[T]
      <4>1. new = AfterShut(T)
        BY <2>1, <3>2
      <4>2. /\ new \in Seq(Step) /\ Len(new) = 3 /\ new[1].op = "unlock_topic" /\ new[1].t = T
            /\ new[2].op = "notify" /\ new[3].op = "join"
        BY <2>3, <4>1, ShutPrograms
      <4> QED
        BY <4>2
    <3> QED
      BY <3>1, <3>2
  <2>5. /\ ServerBalanced(new)
        /\ Closed(new, UnlocksTopic(T), LocksTopic(T)) /\ Level(new, UnlocksTopic(T), LocksTopic(T), 1) = 1
        /\ \A u \in Topics \ {T} : Closed(new, UnlocksTopic(u), LocksTopic(u))
                                   /\ Level(new, UnlocksTopic(u), LocksTopic(u), 1) = 0
    BY <2>3, <2>4, ReleaseLevels
  <2>6. /\ server_mutex' = server_mutex /\ topic_mutex' = topic_mutex
    BY <1>4 DEF shut, mutexVars
  <2>7. LockInv'
    BY <1>0, <2>1, <2>3, <2>4, <2>5, <2>6, TopicLockMoved
  <2>8. todo' \in Seq(Step)
    BY <1>0, <2>1, <2>4, DoesStack
  <2> QED
    BY <2>7, <2>8
<1>5. CASE next_request \/ leave_run \/ signal_handler \/ open_blocks
  <2>1. UNCHANGED mutexVars
    BY <1>5 DEF next_request, leave_run, signal_handler, open_blocks
  <2>2. PICK new \in Seq(Step) : Balanced(new) /\ todo' = new \o todo
    <3>1. CASE next_request
      <4>1. Head(recv_buf) \in Request /\ todo = <<>> /\ todo' = handle_request(Head(recv_buf))
        BY <3>1, HeadTailProperties DEF next_request, TypeOK
      <4>2. handle_request(Head(recv_buf)) \in Seq(Step) /\ Balanced(handle_request(Head(recv_buf)))
        BY <4>1, RequestProgram
      <4>3. handle_request(Head(recv_buf)) \o todo = handle_request(Head(recv_buf))
        BY <1>0, <4>1, <4>2, ConcatEmptySeq
      <4> QED
        BY <4>1, <4>2, <4>3
    <3>2. CASE leave_run
      <4>1. todo = <<>> /\ todo' = Steps(<<"stop", "shutdown_all">>, Nil, Nil)
        BY <3>2 DEF leave_run
      <4>2. todo' \in Seq(Step) /\ Balanced(Steps(<<"stop", "shutdown_all">>, Nil, Nil))
        BY <4>1, OtherPrograms
      <4>3. todo' = todo' \o todo
        BY <4>1, <4>2, ConcatEmptySeq
      <4> QED
        BY <4>1, <4>2, <4>3
    <3>3. CASE signal_handler \/ open_blocks
      BY <3>3, OnePushed
    <3> QED
      BY <1>5, <3>1, <3>2, <3>3
  <2>3. LockInv' /\ todo' \in Seq(Step)
    BY <1>0, <2>1, <2>2, LockPushed
  <2> QED
    BY <2>3
<1>6. CASE \E t \in Topics : run_lock(t) \/ run_unlock(t)
  <2>1. PICK t \in Topics : run_lock(t) \/ run_unlock(t)
    BY <1>6
  <2>2. todo' = todo /\ server_mutex' = server_mutex
    BY <2>1 DEF run_lock, run_unlock
  <2>3. topic_mutex[t] \in {"free", "worker"} /\ topic_mutex'[t] \in {"free", "worker"}
    BY <2>1 DEF run_lock, run_unlock, TypeOK
  <2>4. \A u \in Topics \ {t} : topic_mutex'[u] = topic_mutex[u]
    BY <2>1, <1>0 DEF run_lock, run_unlock
  <2>5. \A u \in Topics : Held(topic_mutex'[u]) = Held(topic_mutex[u])
    BY <2>3, <2>4 DEF Held
  <2>6. LockInv'
    BY <2>2, <2>5 DEF LockInv, ServerLock, TopicLock, Closed, Level, From
  <2> QED
    BY <1>0, <2>2, <2>6
<1>7. CASE read_requests \/ exit \/ client_request \/ (\E p \in Procs : subscribe(p) \/ disconnect(p))
           \/ UNCHANGED vars
  <2>1. UNCHANGED <<todo, mutexVars>>
    BY <1>7 DEF read_requests, exit, client_request, subscribe, disconnect, Send, vars
  <2>2. LockInv'
    BY <2>1 DEF LockInv, ServerLock, TopicLock, Closed, Level, From, mutexVars
  <2> QED
    BY <1>0, <2>1, <2>2
<1> QED
  BY <1>1, <1>2, <1>3, <1>4, <1>5, <1>6, <1>7 DEF Next, MainThread, Quiet
-----------------------------------------------------------------------------
(* Types.                                                                  *)

(* The steps of the main thread work on what their steps name. *)
LEMMA HeadFacts ==
  ASSUME TypeOK, NEW op, NEW new, Does(op, new)
  PROVE  /\ Head(todo) \in Step /\ Head(todo).op = op
         /\ op \in TopicOps \cup {"accept", "attach", "detach"} => T \in Topics
         /\ op \in {"accept", "attach", "detach"} => P \in Procs
  <1>1. Head(todo) \in Step /\ Head(todo).op = op
    BY HeadTailProperties DEF TypeOK, Does
  <1> QED
    BY <1>1, StepTopic DEF T, P

(* Every step keeps the types; a worker in a pass holds its mutex. *)
LEMMA TypeStep ==
  ASSUME TypeOK, LockInv, TopicInv, [Next]_vars
  PROVE  TypeOK'
<1>0. todo' \in Seq(Step)
  BY LockStep
<1>1. CASE do_stop \/ lock_server \/ unlock_server \/ shutdown_all \/ shutdown_rest \/ respond \/ join
  BY <1>0, <1>1 DEF TypeOK, do_stop, lock_server, unlock_server, shutdown_all, shutdown_rest, respond,
       join, Does, inputVars, mutexVars, topicVars
<1>2. CASE lock_topic \/ unlock_topic
  <2>1. T \in Topics
    BY <1>2, HeadFacts DEF lock_topic, unlock_topic, TopicOps
  <2>2. topic_mutex[T] # "worker"
    <3>1. CASE lock_topic
      BY <3>1 DEF lock_topic
    <3>2. CASE unlock_topic
      <4>1. todo # <<>> /\ Head(todo).op = "unlock_topic" /\ todo \in Seq(Step)
        BY <3>2 DEF unlock_topic, Does, TypeOK
      <4> QED
        BY <4>1, HolderReleases
    <3> QED
      BY <1>2, <3>1, <3>2
  <2>3. /\ topic_mutex' \in [Topics -> {"free", "main", "worker"}] /\ topic_mutex'[T] # "worker"
        /\ \A t \in Topics \ {T} : topic_mutex'[t] = topic_mutex[t]
    BY <1>2, <2>1 DEF lock_topic, unlock_topic, TypeOK
  <2>4. /\ UNCHANGED <<main, inputVars>>
        /\ UNCHANGED <<running, server_mutex, topicVars, sub, early>>
    BY <1>2 DEF lock_topic, unlock_topic, Does
  <2>5. \A t \in Topics : worker'[t] = "deliver" <=> topic_mutex'[t] = "worker"
    BY <2>2, <2>3, <2>4 DEF TypeOK, topicVars
  <2> QED
    BY <1>0, <2>3, <2>4, <2>5 DEF TypeOK, inputVars, topicVars
<1>3. CASE create
  <2>1. T \in Topics
    BY <1>3, HeadFacts DEF create, TopicOps
  <2>2. T \notin topics => worker[T] = "none"
    BY <2>1 DEF TopicInv
  <2>3. /\ worker' \in [Topics -> {"none", "ready", "waiting", "deliver", "done"}]
        /\ \A t \in Topics : worker'[t] = "deliver" <=> worker[t] = "deliver"
    BY <1>3, <2>1, <2>2 DEF create, TypeOK
  <2> QED
    BY <1>0, <1>3, <2>1, <2>3 DEF create, TypeOK, Does, inputVars, mutexVars
<1>4. CASE accept
  <2>1. P \in Procs
    BY <1>4, HeadFacts DEF accept
  <2> QED
    BY <1>0, <1>4, <2>1 DEF accept, TypeOK, Does, inputVars, mutexVars, topicVars
<1>5. CASE attach \/ append \/ notify
  <2>1. T \in Topics
    BY <1>5, HeadFacts DEF attach, append, notify, TopicOps
  <2>2. /\ worker' \in [Topics -> {"none", "ready", "waiting", "deliver", "done"}]
        /\ \A t \in Topics : worker'[t] = "deliver" <=> worker[t] = "deliver"
    BY <1>5, <2>1 DEF attach, append, notify, Notified, TypeOK
  <2>3. backlog' \in [Topics -> BOOLEAN]
    BY <1>5, <2>1 DEF attach, append, notify, TypeOK
  <2>4. entries' \in [Topics -> SUBSET Procs]
    <3>1. CASE attach
      <4>1. P \in Procs
        BY <3>1, HeadFacts DEF attach
      <4> QED
        BY <2>1, <3>1, <4>1 DEF attach, TypeOK
    <3> QED
      BY <1>5, <3>1 DEF append, notify, TypeOK
  <2> QED
    BY <1>0, <1>5, <2>2, <2>3, <2>4 DEF attach, append, notify, TypeOK, Does, inputVars, mutexVars
<1>6. CASE detach
  <2>1. T \in Topics
    BY <1>6, HeadFacts DEF detach
  <2> QED
    BY <1>0, <1>6, <2>1 DEF detach, TypeOK, Does, inputVars, mutexVars
<1>7. CASE shut
  <2>1. T \in Topics
    BY <1>7, HeadFacts DEF shut, TopicOps
  <2>2. /\ stop_flag' \in [Topics -> BOOLEAN] /\ entries' \in [Topics -> SUBSET Procs]
        /\ sub' \in [Procs -> {"new", "asked", "refused", "accepted", "cut", "left", "told"}]
    BY <1>7, <2>1 DEF shut, TypeOK
  <2> QED
    BY <1>0, <1>7, <2>2 DEF shut, TypeOK, Does, inputVars, mutexVars
<1>8. CASE read_requests
  <2>1. inbox' \in Seq(Request) /\ recv_buf' \in Seq(Request)
    <3>1. PICK n \in 1 .. Len(inbox) : recv_buf' = SubSeq(inbox, 1, n) /\ inbox' = SubSeq(inbox, n + 1, Len(inbox))
      BY <1>8 DEF read_requests
    <3>2. inbox \in Seq(Request) /\ Len(inbox) \in Nat
      BY DEF TypeOK
    <3> QED
      BY <3>1, <3>2
  <2> QED
    BY <1>0, <1>8, <2>1 DEF read_requests, TypeOK, mutexVars, topicVars
<1>9. CASE next_request
  <2>1. Head(recv_buf) \in Request /\ recv_buf' \in Seq(Request)
    BY <1>9, HeadTailProperties DEF next_request, TypeOK
  <2>2. Head(recv_buf).op = "SUBSCRIBE" => Head(recv_buf).p \in Procs
    BY <2>1 DEF Request
  <2>3. sub' \in [Procs -> {"new", "asked", "refused", "accepted", "cut", "left", "told"}]
    BY <1>9, <2>2 DEF next_request, TypeOK
  <2> QED
    BY <1>0, <1>9, <2>1, <2>3 DEF next_request, TypeOK, mutexVars, topicVars
<1>10. CASE leave_run \/ exit \/ signal_handler \/ open_blocks
  BY <1>0, <1>10, ShutdownAssumption DEF leave_run, exit, signal_handler, open_blocks, TypeOK, inputVars, mutexVars, topicVars
<1>11. CASE \E t \in Topics : run_lock(t) \/ run_unlock(t)
  <2>1. PICK t \in Topics : run_lock(t) \/ run_unlock(t)
    BY <1>11
  <2>2. /\ worker' \in [Topics -> {"none", "ready", "waiting", "deliver", "done"}]
        /\ topic_mutex' \in [Topics -> {"free", "main", "worker"}] /\ backlog' \in [Topics -> BOOLEAN]
    BY <2>1 DEF run_lock, run_unlock, TypeOK
  <2>3. worker'[t] = "deliver" <=> topic_mutex'[t] = "worker"
    <3>1. CASE run_lock(t)
      BY <3>1 DEF run_lock, TypeOK
    <3>2. CASE run_unlock(t)
      BY <3>2 DEF run_unlock, TypeOK
    <3> QED
      BY <2>1, <3>1, <3>2
  <2>4. \A u \in Topics \ {t} : worker'[u] = worker[u] /\ topic_mutex'[u] = topic_mutex[u]
    BY <2>1 DEF run_lock, run_unlock, TypeOK
  <2>5. \A u \in Topics : worker'[u] = "deliver" <=> topic_mutex'[u] = "worker"
    BY <2>3, <2>4 DEF TypeOK
  <2>6. sub' \in [Procs -> {"new", "asked", "refused", "accepted", "cut", "left", "told"}]
    BY <2>1 DEF run_lock, run_unlock, TypeOK
  <2>7. UNCHANGED <<running, main, todo, inputVars, server_mutex, topics, stop_flag, entries, early>>
    BY <2>1 DEF run_lock, run_unlock
  <2> QED
    BY <1>0, <2>1, <2>2, <2>5, <2>6, <2>7 DEF TypeOK, inputVars
<1>12. CASE client_request \/ (\E p \in Procs : subscribe(p) \/ disconnect(p))
  <2>1. PICK r \in Request : Send(r)
    <3>1. \A op \in Ops \ {"SUBSCRIBE", "DISCONNECT"}, t \in Topics : [op |-> op, t |-> t, p |-> Nil] \in Request
      BY DEF Request
    <3>2. \A p \in Procs, t \in Topics : /\ [op |-> "SUBSCRIBE", t |-> t, p |-> p] \in Request
                                         /\ [op |-> "DISCONNECT", t |-> t, p |-> p] \in Request
      BY DEF Request
    <3> QED
      BY <1>12, <3>1, <3>2 DEF client_request, subscribe, disconnect
  <2>2. inbox' \in Seq(Request) /\ requests' \in 0 .. MaxRequests
    BY <2>1, ShutdownAssumption DEF Send, TypeOK
  <2>3. sub' \in [Procs -> {"new", "asked", "refused", "accepted", "cut", "left", "told"}]
    BY <1>12 DEF client_request, subscribe, disconnect, TypeOK
  <2> QED
    BY <1>0, <2>1, <2>2, <2>3 DEF Send, TypeOK, mutexVars, topicVars
<1>13. CASE UNCHANGED vars
  BY <1>0, <1>13 DEF TypeOK, vars, inputVars, mutexVars, topicVars
<1> QED
  BY <1>1, <1>2, <1>3, <1>4, <1>5, <1>6, <1>7, <1>8, <1>9, <1>10, <1>11, <1>12, <1>13 DEF Next, MainThread
-----------------------------------------------------------------------------
(* The steps yet to be done.                                               *)

(* A step is replaced by others: the others stay. *)
LEMMA PendingMoved ==
  ASSUME todo \in Seq(Step), NEW op, NEW new \in Seq(Step), Does(op, new)
  PROVE  /\ Head(todo) \in Pending
         /\ \A x \in Pending' : x \in Elements(new) \/ x \in Pending
         /\ \A x \in Elements(new) : x \in Pending'
         /\ \A x \in Pending : x # Head(todo) => x \in Pending'
<1>1. /\ Len(todo) \in Nat /\ Len(todo) >= 1 /\ Head(todo) = todo[1]
      /\ \A i \in 1 .. Len(todo') :
           \/ i \in 1 .. Len(new) /\ todo'[i] = new[i]
           \/ i - Len(new) + 1 \in 2 .. Len(todo) /\ todo'[i] = todo[i - Len(new) + 1]
      /\ \A i \in 1 .. Len(new) : i \in 1 .. Len(todo') /\ todo'[i] = new[i]
      /\ \A j \in 2 .. Len(todo) :
           j - 1 + Len(new) \in 1 .. Len(todo') /\ todo'[j - 1 + Len(new)] = todo[j]
  BY DoesStack
<1>2. Head(todo) \in Pending
  BY <1>1 DEF Pending
<1>3. \A j \in 2 .. Len(todo) : j \in 1 .. Len(todo)
  BY <1>1
<1>4. ASSUME NEW x \in Pending' PROVE x \in Elements(new) \/ x \in Pending
  <2>1. PICK i \in 1 .. Len(todo') : x = todo'[i]
    BY DEF Pending
  <2>2. CASE i \in 1 .. Len(new) /\ todo'[i] = new[i]
    BY <2>1, <2>2 DEF Elements
  <2>3. CASE i - Len(new) + 1 \in 2 .. Len(todo) /\ todo'[i] = todo[i - Len(new) + 1]
    <3>1. i - Len(new) + 1 \in 1 .. Len(todo)
      BY <1>3, <2>3
    <3> QED
      BY <2>1, <2>3, <3>1 DEF Pending
  <2> QED
    BY <1>1, <2>2, <2>3
<1>5. ASSUME NEW x \in Elements(new) PROVE x \in Pending'
  BY <1>1 DEF Pending, Elements
<1>6. ASSUME NEW x \in Pending, x # Head(todo) PROVE x \in Pending'
  <2>1. PICK j \in 1 .. Len(todo) : x = todo[j]
    BY DEF Pending
  <2>2. j \in 2 .. Len(todo)
    BY <1>1, <1>6, <2>1
  <2> QED
    BY <1>1, <2>1, <2>2 DEF Pending
<1> QED
  BY <1>2, <1>4, <1>5, <1>6

(* A step is done, and that is all. *)
LEMMA PendingDone ==
  ASSUME todo \in Seq(Step), NEW op, Does(op, <<>>)
  PROVE  /\ Head(todo) \in Pending /\ Pending' \subseteq Pending
         /\ \A x \in Pending : x # Head(todo) => x \in Pending'
<1>1. <<>> \in Seq(Step) /\ Elements(<<>>) = {}
  <2>1. <<>> \in Seq(Step) /\ Len(<<>>) = 0
    BY OtherPrograms
  <2> QED
    BY <2>1 DEF Elements
<1> QED
  BY <1>1, PendingMoved

(* Steps are put on top of the stack. *)
LEMMA PendingPushed ==
  ASSUME todo \in Seq(Step), NEW new \in Seq(Step), todo' = new \o todo
  PROVE  Pending' = Elements(new) \cup Pending
<1>1. /\ Len(todo) \in Nat /\ Len(new) \in Nat /\ Len(todo') = Len(new) + Len(todo)
      /\ \A i \in 1 .. Len(new) + Len(todo) :
           todo'[i] = IF i <= Len(new) THEN new[i] ELSE todo[i - Len(new)]
  BY ConcatProperties
<1>2. \A x \in Pending' : x \in Elements(new) \/ x \in Pending
  BY <1>1 DEF Pending, Elements
<1>3. \A x \in Elements(new) : x \in Pending'
  BY <1>1 DEF Pending, Elements
<1>4. ASSUME NEW x \in Pending PROVE x \in Pending'
  <2>1. PICK j \in 1 .. Len(todo) : x = todo[j]
    BY DEF Pending
  <2>2. j + Len(new) \in 1 .. Len(todo') /\ todo'[j + Len(new)] = todo[j]
    BY <1>1
  <2> QED
    BY <2>1, <2>2 DEF Pending
<1> QED
  BY <1>2, <1>3, <1>4

(* What a request puts on the stack. *)
RequestOps == {"lock_server", "unlock_server", "create", "respond", "lock_topic",
               "unlock_topic", "append", "accept", "attach", "detach"}

(* A request works on its topic for its client; only a subscription to a   *)
(* topic that exists is accepted, and only a disconnection detaches.       *)
LEMMA RequestSteps ==
  ASSUME NEW r \in Request, NEW x \in Elements(handle_request(r))
  PROVE  /\ x.op \in RequestOps /\ x.t = r.t /\ x.p = r.p
         /\ x.op \in {"accept", "attach"} => r.op = "SUBSCRIBE" /\ r.t \in topics
         /\ x.op = "detach" => r.op = "DISCONNECT"
<1>1. r.op \in Ops
  BY DEF Request, Ops
<1>2. ASSUME NEW ops, handle_request(r) = Steps(ops, r.t, r.p)
      PROVE  \E i \in 1 .. Len(ops) : x.op = ops[i] /\ x.t = r.t /\ x.p = r.p
  BY <1>2 DEF Elements, Steps
<1> USE DEF RequestOps
<1>3. CASE r.op = "CREATE"
  <2>1. handle_request(r) =
          Steps(<<"lock_server", "create", "unlock_server", "respond">>, r.t, r.p)
    BY <1>3 DEF handle_request
  <2> QED
    BY <1>2, <1>3, <2>1
<1>4. CASE r.op = "LIST" \/ (r.op = "SUBSCRIBE" /\ r.t \notin topics)
  <2>1. handle_request(r) = Steps(<<"lock_server", "respond", "unlock_server">>, r.t, r.p)
    BY <1>4 DEF handle_request
  <2> QED
    BY <1>2, <1>4, <2>1
<1>5. CASE r.op = "CONNECT"
  <2>1. \/ handle_request(r) = Steps(<<"lock_server", "unlock_server", "lock_server",
                                      "unlock_server", "respond">>, r.t, r.p)
        \/ handle_request(r) = Steps(<<"lock_server", "unlock_server", "respond">>, r.t, r.p)
    BY <1>5 DEF handle_request
  <2> QED
    BY <1>2, <1>5, <2>1
<1>6. CASE r.op = "COMMIT" \/ r.op = "PRODUCE"
  <2>1. \/ handle_request(r) = Steps(<<"lock_server", "unlock_server", "lock_topic",
                                      "append", "unlock_topic">>, r.t, r.p)
        \/ handle_request(r) = Steps(<<"lock_server", "unlock_server">>, r.t, r.p)
    BY <1>6 DEF handle_request
  <2> QED
    BY <1>2, <1>6, <2>1
<1>7. CASE r.op = "SUBSCRIBE" /\ r.t \in topics
  <2>1. handle_request(r) = Steps(<<"lock_server", "accept", "lock_topic", "attach",
                                    "unlock_topic", "unlock_server">>, r.t, r.p)
    BY <1>7 DEF handle_request
  <2> QED
    BY <1>2, <1>7, <2>1
<1>8. CASE r.op = "DISCONNECT"
  <2>1. handle_request(r) = Steps(<<"lock_server", "lock_topic", "detach", "unlock_topic",
                                    "unlock_server">>, r.t, r.p)
    BY <1>8 DEF handle_request
  <2> QED
    BY <1>2, <1>8, <2>1
<1> QED
  BY <1>1, <1>3, <1>4, <1>5, <1>6, <1>7, <1>8 DEF Ops

(* What the other programs put there. *)
LEMMA OtherSteps ==
  /\ \A x \in Elements(stop) : running /\ x.op \in {"lock_server", "shutdown_all", "close", "unlock_server"}
  /\ \A x \in Elements(Steps(<<"stop">>, Nil, Nil)) : x.op = "stop"
  /\ \A x \in Elements(Steps(<<"stop", "shutdown_all">>, Nil, Nil)) : x.op \in {"stop", "shutdown_all"}
  /\ \E x \in Elements(Steps(<<"stop", "shutdown_all">>, Nil, Nil)) : x.op = "shutdown_all"
<1>1. ASSUME NEW x \in Elements(stop)
      PROVE  running /\ x.op \in {"lock_server", "shutdown_all", "close", "unlock_server"}
  <2>1. CASE running
    BY <1>1, <2>1 DEF stop, Steps, Elements
  <2>2. CASE ~running
    BY <1>1, <2>2, OtherPrograms DEF stop, Elements
  <2> QED
    BY <2>1, <2>2
<1>2. \A x \in Elements(Steps(<<"stop">>, Nil, Nil)) : x.op = "stop"
  BY DEF Steps, Elements
<1>3. \A x \in Elements(Steps(<<"stop", "shutdown_all">>, Nil, Nil)) : x.op \in {"stop", "shutdown_all"}
  BY DEF Steps, Elements
<1>4. \E x \in Elements(Steps(<<"stop", "shutdown_all">>, Nil, Nil)) : x.op = "shutdown_all"
  <2> DEFINE s == Steps(<<"stop", "shutdown_all">>, Nil, Nil)
  <2>1. Len(s) = 2 /\ s[2].op = "shutdown_all"
    BY OtherPrograms
  <2>2. s[2] \in Elements(s)
    BY <2>1 DEF Elements
  <2> QED
    BY <2>1, <2>2
<1> QED
  BY <1>1, <1>2, <1>3, <1>4
-----------------------------------------------------------------------------
(* The shutdown of the topics.                                             *)

TopicsInv == TopicInv /\ LeavingInv /\ JoinInv /\ RunningInv

(* The steps that only go on with what is on the stack. *)
LEMMA TopicsDone ==
  ASSUME TypeOK, TopicsInv,
         lock_server \/ unlock_server \/ lock_topic \/ unlock_topic \/ respond \/ create \/ accept
           \/ attach \/ detach \/ append \/ notify \/ join
  PROVE  TopicsInv'
<1>1. PICK op \in {"lock_server", "unlock_server", "lock_topic", "unlock_topic", "respond", "close",
                   "create", "accept", "attach", "detach", "append", "notify", "join"} : Does(op, <<>>)
  BY DEF lock_server, unlock_server, lock_topic, unlock_topic, respond, create, accept, attach,
     detach, append, notify, join
<1>2. /\ Head(todo) \in Pending /\ Pending' \subseteq Pending
      /\ \A x \in Pending : x # Head(todo) => x \in Pending'
  BY <1>1, PendingDone DEF TypeOK
<1>3. /\ Head(todo).op = op /\ main' = main /\ todo # <<>>
      /\ op \in TopicOps \cup {"accept", "attach", "detach"} => T \in Topics
  BY <1>1, HeadFacts DEF Does
<1>4. UNCHANGED <<running, stop_flag, early>>
  BY DEF lock_server, unlock_server, lock_topic, unlock_topic, respond, create, accept, attach,
     detach, append, notify, join, topicVars
<1>5. \A x \in Pending : x.op \notin {"lock_server", "unlock_server", "lock_topic", "unlock_topic",
        "respond", "close", "create", "accept", "attach", "detach", "append", "notify", "join"} => x \in Pending'
  BY <1>1, <1>2, <1>3
<1>6. /\ topics \subseteq topics' /\ topics' \subseteq Topics
      /\ topics' = topics \/ create
      /\ \A t \in Topics : /\ worker'[t] # "none" => worker[t] # "none" \/ t \in topics'
                           /\ worker[t] = "done" => worker'[t] = "done" \/ t \notin topics
  <2>1. CASE create
    <3>1. T \in Topics
      BY <1>3, <2>1 DEF create, Does, TopicOps
    <3> QED
      BY <2>1, <3>1 DEF create, TypeOK
  <2>2. CASE attach \/ append \/ notify
    <3>1. T \in Topics
      BY <1>3, <2>2 DEF attach, append, notify, Does, TopicOps
    <3> QED
      BY <2>2, <3>1 DEF attach, append, notify, Notified, TypeOK
  <2>3. CASE lock_server \/ unlock_server \/ lock_topic \/ unlock_topic \/ respond \/ accept \/ detach \/ join
    BY <2>3 DEF lock_server, unlock_server, lock_topic, unlock_topic, respond, accept, detach, join,
       topicVars, TypeOK
  <2> QED
    BY <2>1, <2>2, <2>3
<1>7. TopicInv'
  BY <1>2, <1>4, <1>6 DEF TopicsInv, TopicInv
<1>8. LeavingInv'
  <2>1. CASE main = "run"
    BY <1>3, <2>1 DEF LeavingInv
  <2>2. CASE main # "run"
    <3>1. /\ \A x \in Pending : x.op \notin {"create", "attach", "accept"}
          /\ \A t \in topics : Doomed(t)
          /\ ~running /\ main # "exited"
      BY <1>3, <2>2 DEF TopicsInv, LeavingInv
    <3>2. topics' = topics
      BY <1>2, <1>6, <3>1 DEF create, Does
    <3>3. \A t \in topics : Doomed(t)'
      BY <1>4, <1>5, <3>1 DEF Doomed, PendingOf
    <3> QED
      BY <1>2, <1>3, <1>4, <3>1, <3>2, <3>3 DEF LeavingInv
  <2> QED
    BY <2>1, <2>2
<1>9. JoinInv'
  <2> SUFFICES ASSUME NEW t \in Topics, stop_flag[t]
               PROVE  worker'[t] = "done" \/ PendingOf("join", t)'
    BY <1>4 DEF JoinInv
  <2>1. t \in topics
    BY DEF TopicsInv, TopicInv
  <2>2. CASE worker[t] = "done"
    BY <1>6, <2>1, <2>2
  <2>3. CASE PendingOf("join", t)
    <3>1. PICK x \in Pending : x.op = "join" /\ x.t = t
      BY <2>3 DEF PendingOf
    <3>2. CASE x = Head(todo)
      <4>1. join
        BY <3>1, <3>2 DEF lock_server, unlock_server, lock_topic, unlock_topic, respond, create, accept,
           attach, detach, append, notify, Does
      <4>2. worker'[t] = "done"
        BY <3>1, <3>2, <4>1 DEF join, T, topicVars
      <4> QED
        BY <4>2
    <3>3. CASE x # Head(todo)
      BY <1>2, <3>1, <3>3 DEF PendingOf
    <3> QED
      BY <3>2, <3>3
  <2> QED
    BY <2>2, <2>3 DEF TopicsInv, JoinInv
<1>10. RunningInv'
  BY <1>2, <1>4 DEF TopicsInv, RunningInv
<1> QED
  BY <1>7, <1>8, <1>9, <1>10 DEF TopicsInv

(* The steps that are not on the stack, and leave it alone. *)
LEMMA TopicsAside ==
  ASSUME TypeOK, TopicsInv,
         \/ read_requests \/ exit \/ client_request \/ (\E p \in Procs : subscribe(p) \/ disconnect(p))
         \/ (\E t \in Topics : run_lock(t) \/ run_unlock(t)) \/ UNCHANGED vars
  PROVE  TopicsInv'
<1>1. todo' = todo /\ Pending' = Pending
  BY DEF read_requests, exit, client_request, subscribe, disconnect, Send, run_lock, run_unlock, vars, Pending
<1>2. UNCHANGED <<running, topics, stop_flag, early>>
  BY DEF read_requests, exit, client_request, subscribe, disconnect, Send, run_lock, run_unlock, vars, topicVars
<1>3. main' = main \/ (main = "exiting" /\ main' = "exited" /\ todo = <<>>)
  BY DEF read_requests, exit, client_request, subscribe, disconnect, Send, run_lock, run_unlock, vars
<1>4. \A t \in Topics : /\ worker'[t] # "none" => worker[t] # "none"
                        /\ worker[t] = "done" => worker'[t] = "done"
  <2>1. CASE \E t \in Topics : run_lock(t) \/ run_unlock(t)
    BY <2>1 DEF run_lock, run_unlock, TypeOK
  <2>2. CASE ~\E t \in Topics : run_lock(t) \/ run_unlock(t)
    <3>1. worker' = worker
      BY <2>2 DEF read_requests, exit, client_request, subscribe, disconnect, Send, vars, topicVars
    <3> QED
      BY <3>1
  <2> QED
    BY <2>1, <2>2
<1>5. TopicInv'
  BY <1>1, <1>2, <1>4 DEF TopicsInv, TopicInv
<1>6. LeavingInv'
  <2>1. \A t : Doomed(t) => Doomed(t)'
    BY <1>1, <1>2 DEF Doomed, PendingOf
  <2> QED
    BY <1>1, <1>2, <1>3, <2>1 DEF TopicsInv, LeavingInv
<1>7. JoinInv'
  BY <1>1, <1>2, <1>4 DEF TopicsInv, JoinInv, PendingOf
<1>8. RunningInv'
  BY <1>1, <1>2 DEF TopicsInv, RunningInv
<1> QED
  BY <1>5, <1>6, <1>7, <1>8 DEF TopicsInv

(* A request, the destructors or a handler is put on the stack. *)
LEMMA TopicsPushed ==
  ASSUME TypeOK, TopicsInv, next_request \/ leave_run \/ signal_handler \/ open_blocks
  PROVE  TopicsInv'
<1>1. UNCHANGED <<running, topicVars, early>>
  BY DEF next_request, leave_run, signal_handler, open_blocks
<1>2. CASE next_request
  <2> DEFINE r == Head(recv_buf)
  <2>1. r \in Request /\ todo = <<>> /\ todo' = handle_request(r) /\ main = "run" /\ main' = main
    BY <1>2, HeadTailProperties DEF next_request, TypeOK
  <2>2. Pending' = Elements(handle_request(r))
    BY <2>1 DEF Pending, Elements
  <2> HIDE DEF r
  <2>3. \A x \in Pending' : x.op \in RequestOps /\ (x.op = "attach" => x.t \in topics)
    BY <2>1, <2>2, RequestSteps
  <2>4. Pending = {}
    BY <2>1 DEF Pending
  <2>5. TopicInv'
    BY <1>1, <2>3 DEF TopicsInv, TopicInv, topicVars, RequestOps
  <2>6. LeavingInv'
    BY <2>1 DEF LeavingInv
  <2>7. JoinInv'
    BY <1>1, <2>4 DEF TopicsInv, JoinInv, PendingOf, topicVars
  <2>8. RunningInv'
    BY <1>1, <2>3 DEF TopicsInv, RunningInv, topicVars, RequestOps
  <2> QED
    BY <2>5, <2>6, <2>7, <2>8 DEF TopicsInv
<1>3. CASE leave_run
  <2> DEFINE s == Steps(<<"stop", "shutdown_all">>, Nil, Nil)
  <2>1. todo = <<>> /\ todo' = s /\ main' = "exiting" /\ ~running
    BY <1>3 DEF leave_run
  <2>2. Pending' = Elements(s) /\ Pending = {}
    BY <2>1 DEF Pending, Elements
  <2>3. /\ \A x \in Pending' : x.op \in {"stop", "shutdown_all"}
        /\ \E x \in Pending' : x.op = "shutdown_all"
    BY <2>2, OtherSteps
  <2>4. TopicInv'
    BY <1>1, <2>3 DEF TopicsInv, TopicInv, topicVars
  <2>5. LeavingInv'
    BY <1>1, <2>1, <2>3 DEF LeavingInv, Doomed
  <2>6. JoinInv'
    BY <1>1, <2>2 DEF TopicsInv, JoinInv, PendingOf, topicVars
  <2>7. RunningInv'
    BY <1>1, <2>1 DEF RunningInv
  <2> QED
    BY <2>4, <2>5, <2>6, <2>7 DEF TopicsInv
<1>4. CASE signal_handler \/ open_blocks
  <2>0. PICK s \in Seq(Step) : todo' = s \o todo /\ \A x \in Elements(s) : x.op \in {"stop", "blocked"}
    BY <1>4, OnePushed
  <2>1. todo' = s \o todo /\ main' = main /\ main # "exited"
    BY <1>4, <2>0 DEF signal_handler, open_blocks, TopicsInv, LeavingInv
  <2>2. Pending' = Elements(s) \cup Pending
    BY <2>1, PendingPushed DEF TypeOK
  <2>3. /\ Pending \subseteq Pending'
        /\ \A x \in Pending' : x.op \in {"stop", "blocked"} \/ x \in Pending
    BY <2>0, <2>2
  <2>4. TopicInv'
    BY <1>1, <2>3 DEF TopicsInv, TopicInv, topicVars
  <2>5. LeavingInv'
    <3>1. \A t : Doomed(t) => Doomed(t)'
      BY <1>1, <2>3 DEF Doomed, PendingOf, topicVars
    <3> QED
      BY <1>1, <2>1, <2>3, <3>1 DEF TopicsInv, LeavingInv, topicVars
  <2>6. JoinInv'
    BY <1>1, <2>3 DEF TopicsInv, JoinInv, PendingOf, topicVars
  <2>7. RunningInv'
    BY <1>1, <2>3 DEF TopicsInv, RunningInv, topicVars
  <2> QED
    BY <2>4, <2>5, <2>6, <2>7 DEF TopicsInv
<1> QED
  BY <1>2, <1>3, <1>4

(* stop() begins. *)
LEMMA TopicsStop ==
  ASSUME TypeOK, TopicsInv, do_stop
  PROVE  TopicsInv'
<1>1. Does("stop", stop) /\ stop \in Seq(Step) /\ running' = FALSE /\ UNCHANGED topicVars
  BY OtherPrograms DEF do_stop
<1>2. /\ Head(todo) \in Pending /\ Head(todo).op = "stop" /\ main' = main /\ todo # <<>>
      /\ \A x \in Pending' : x \in Elements(stop) \/ x \in Pending
      /\ \A x \in Pending : x # Head(todo) => x \in Pending'
  BY <1>1, PendingMoved DEF TypeOK, Does
<1>3. /\ \A x \in Pending' : x \in Pending \/ (running /\ x.op \in {"lock_server", "shutdown_all", "close", "unlock_server"})
      /\ \A x \in Pending : x.op # "stop" => x \in Pending'
  BY <1>2, OtherSteps
<1>4. TopicInv'
  BY <1>1, <1>3 DEF TopicsInv, TopicInv, topicVars
<1>5. LeavingInv'
  <2>1. \A t : Doomed(t) => Doomed(t)'
    BY <1>1, <1>3 DEF Doomed, PendingOf, topicVars
  <2> QED
    BY <1>1, <1>2, <1>3, <2>1 DEF TopicsInv, LeavingInv, topicVars
<1>6. JoinInv'
  BY <1>1, <1>3 DEF TopicsInv, JoinInv, PendingOf, topicVars
<1>7. RunningInv'
  BY <1>1 DEF RunningInv
<1> QED
  BY <1>4, <1>5, <1>6, <1>7 DEF TopicsInv

(* The loop over the topics. *)
LEMMA TopicsLoop ==
  ASSUME TypeOK, TopicsInv, shutdown_all \/ shutdown_rest
  PROVE  TopicsInv'
<1>1. /\ todo # <<>> /\ Head(todo).op \in {"shutdown_all", "shutdown_rest"} /\ main' = main
      /\ UNCHANGED <<running, topicVars, early>>
  BY DEF shutdown_all, shutdown_rest, Does
<1>2. Head(todo) \in Pending /\ ~running /\ main # "exited"
  <2>1. Head(todo) = todo[1] /\ 1 \in 1 .. Len(todo)
    BY <1>1, HeadTailProperties DEF TypeOK
  <2>2. Head(todo) \in Pending
    BY <2>1 DEF Pending
  <2> QED
    BY <1>1, <2>2 DEF TopicsInv, RunningInv, LeavingInv
<1>3. /\ \A x \in Pending' : \/ x \in Pending
                             \/ x.op = "shut" /\ x.t \in topics
                             \/ x.op = "shutdown_rest" /\ x.rest \subseteq topics
                             \/ x.op = "lock_topic"
      /\ \A x \in Pending : x.op \notin {"shutdown_all", "shutdown_rest"} => x \in Pending'
      /\ \A t \in topics : Doomed(t) => Doomed(t)'
  <2>1. CASE shutdown_all
    <3>1. Does("shutdown_all", Loop(topics)) /\ topics \in SUBSET Topics
      BY <2>1 DEF shutdown_all, TypeOK
    <3>2. /\ Loop(topics) \in Seq(Step) /\ Len(Loop(topics)) = 1
          /\ Loop(topics)[1].op = "shutdown_rest" /\ Loop(topics)[1].rest = topics
      BY <3>1, OtherPrograms
    <3>3. PICK y : Elements(Loop(topics)) = {y} /\ y.op = "shutdown_rest" /\ y.rest = topics
      BY <3>2 DEF Elements
    <3>4. /\ \A x \in Pending' : x = y \/ x \in Pending
          /\ y \in Pending'
          /\ \A x \in Pending : x # Head(todo) => x \in Pending'
      BY <3>1, <3>2, <3>3, PendingMoved DEF TypeOK
    <3>5. \A t \in topics : Doomed(t)'
      BY <3>3, <3>4 DEF Doomed
    <3> QED
      BY <1>1, <3>3, <3>4, <3>5
  <2>2. CASE shutdown_rest
    <3>1. Head(todo).op = "shutdown_rest"
      BY <2>2 DEF shutdown_rest, Does
    <3>2. Head(todo).rest \subseteq topics /\ topics \subseteq Topics
      BY <1>2, <3>1 DEF TopicsInv, TopicInv, TypeOK
    <3>3. CASE Does("shutdown_rest", <<>>) /\ Head(todo).rest = {}
      <4>1. Pending' \subseteq Pending /\ \A x \in Pending : x # Head(todo) => x \in Pending'
        BY <3>3, PendingDone DEF TypeOK
      <4>2. \A t : Doomed(t) => Doomed(t)'
        BY <1>1, <3>1, <3>3, <4>1 DEF Doomed, PendingOf, topicVars
      <4> QED
        BY <1>1, <4>1, <4>2
    <3>4. CASE \E t \in Topics :
                 /\ Does("shutdown_rest", shutdown(t) \o Loop(Head(todo).rest \ {t}))
                 /\ t \in Head(todo).rest
      <4>1. PICK t \in Topics :
              /\ Does("shutdown_rest", shutdown(t) \o Loop(Head(todo).rest \ {t}))
              /\ t \in Head(todo).rest
        BY <3>4
      <4>2. PICK rest \in SUBSET Topics : rest = Head(todo).rest \ {t}
        BY <3>2
      <4>3. PICK new \in Seq(Step) :
              /\ Len(new) = 3 /\ Does("shutdown_rest", new)
              /\ new[1].op = "lock_topic" /\ new[2].op = "shut" /\ new[2].t = t
              /\ new[3].op = "shutdown_rest" /\ new[3].rest = rest
        <5> DEFINE s == shutdown(t) \o Loop(rest)
        <5>1. /\ s \in Seq(Step) /\ Len(s) = 3
              /\ s[1].op = "lock_topic" /\ s[2].op = "shut" /\ s[2].t = t
              /\ s[3].op = "shutdown_rest" /\ s[3].rest = rest
          BY OtherPrograms
        <5>2. Does("shutdown_rest", s)
          BY <4>1, <4>2
        <5> HIDE DEF s
        <5>3. /\ Len(s) = 3 /\ Does("shutdown_rest", s)
              /\ s[1].op = "lock_topic" /\ s[2].op = "shut" /\ s[2].t = t
              /\ s[3].op = "shutdown_rest" /\ s[3].rest = rest
          BY <5>1, <5>2
        <5> QED
          BY <5>1, <5>3 DEF s
      <4>4. Elements(new) = {new[1], new[2], new[3]}
        BY <4>3 DEF Elements
      <4>5. /\ \A x \in Pending' : x \in {new[1], new[2], new[3]} \/ x \in Pending
            /\ new[2] \in Pending' /\ new[3] \in Pending'
            /\ \A x \in Pending : x # Head(todo) => x \in Pending'
        BY <4>3, <4>4, PendingMoved DEF TypeOK
      <4>6. ASSUME NEW u \in topics, Doomed(u) PROVE Doomed(u)'
        <5>1. CASE u \in Head(todo).rest
          <6>1. u = t \/ u \in rest
            BY <4>2, <5>1
          <6> QED
            BY <4>3, <4>5, <6>1 DEF Doomed, PendingOf
        <5>2. CASE u \notin Head(todo).rest
          BY <1>1, <3>1, <4>5, <4>6, <5>2 DEF Doomed, PendingOf, topicVars
        <5> QED
          BY <5>1, <5>2
      <4>7. t \in topics /\ rest \subseteq topics
        BY <3>2, <4>1, <4>2
      <4>8. \A x \in Pending' : \/ x \in Pending
                                \/ x.op = "shut" /\ x.t \in topics
                                \/ x.op = "shutdown_rest" /\ x.rest \subseteq topics
                                \/ x.op = "lock_topic"
        BY <4>3, <4>5, <4>7
      <4> QED
        BY <1>1, <4>5, <4>6, <4>8
    <3> QED
      BY <2>2, <3>3, <3>4 DEF shutdown_rest
  <2> QED
    BY <2>1, <2>2
<1>4. TopicInv'
  BY <1>1, <1>3 DEF TopicsInv, TopicInv, topicVars
<1>5. LeavingInv'
  BY <1>1, <1>2, <1>3 DEF TopicsInv, LeavingInv, topicVars
<1>6. JoinInv'
  BY <1>1, <1>3 DEF TopicsInv, JoinInv, PendingOf, topicVars
<1>7. RunningInv'
  BY <1>1, <1>2 DEF RunningInv
<1> QED
  BY <1>4, <1>5, <1>6, <1>7 DEF TopicsInv

(* The critical section of shutdown(). *)
LEMMA TopicsShut ==
  ASSUME TypeOK, TopicsInv, shut
  PROVE  TopicsInv'
<1>1. PICK new : /\ new = IF stop_flag[T] THEN Steps(<<"unlock_topic">>, T, Nil) ELSE AfterShut(T)
                 /\ Does("shut", new)
  BY DEF shut
<1>2. T \in Topics /\ Head(todo).op = "shut" /\ Head(todo) \in Step
  BY <1>1, HeadFacts DEF TopicOps
<1>3. /\ new \in Seq(Step) /\ \A x \in Elements(new) : x.op \in {"unlock_topic", "notify", "join"}
      /\ stop_flag[T] \/ \E x \in Elements(new) : x.op = "join" /\ x.t = T
  <2>1. CASE stop_flag[T]
    <3>1. new = Steps(<<"unlock_topic">>, T, Nil)
      BY <1>1, <2>1
    <3>2. new \in Seq(Step) /\ Len(new) = 1 /\ new[1].op = "unlock_topic"
      BY <1>2, <3>1, ShutPrograms
    <3> QED
      BY <2>1, <3>2 DEF Elements
  <2>2. CASE ~stop_flag[T]
    <3>1. new = AfterShut(T)
      BY <1>1, <2>2
    <3>2. /\ new \in Seq(Step) /\ Len(new) = 3 /\ new[1].op = "unlock_topic"
          /\ new[2].op = "notify" /\ new[3].op = "join" /\ new[3].t = T
      BY <1>2, <3>1, ShutPrograms
    <3>3. Elements(new) = {new[1], new[2], new[3]}
      BY <3>2 DEF Elements
    <3> QED
      BY <3>2, <3>3
  <2> QED
    BY <2>1, <2>2
<1>4. /\ Head(todo) \in Pending
      /\ \A x \in Pending' : x.op \in {"unlock_topic", "notify", "join"} \/ x \in Pending
      /\ \A x \in Elements(new) : x \in Pending'
      /\ \A x \in Pending : x # Head(todo) => x \in Pending'
  BY <1>1, <1>3, PendingMoved DEF TypeOK
<1>5. /\ UNCHANGED <<running, main, topics, worker, early>> /\ todo # <<>>
      /\ stop_flag' \in [Topics -> BOOLEAN] /\ stop_flag'[T] = TRUE
      /\ \A t \in Topics \ {T} : stop_flag'[t] = stop_flag[t]
  BY <1>2 DEF shut, Does, TypeOK
<1>6. T \in topics /\ ~running /\ main # "exited"
  BY <1>2, <1>4, <1>5 DEF TopicsInv, TopicInv, RunningInv, LeavingInv, T
<1>7. TopicInv'
  BY <1>4, <1>5, <1>6 DEF TopicsInv, TopicInv
<1>8. LeavingInv'
  <2>1. ASSUME NEW t \in topics, Doomed(t) PROVE Doomed(t)'
    <3>1. CASE t = T
      BY <1>5, <3>1 DEF Doomed
    <3>2. CASE t # T
      <4>1. /\ ~(Head(todo).op = "shut" /\ Head(todo).t = t)
            /\ stop_flag[t] => stop_flag'[t]
        BY <1>5, <3>2 DEF T, TypeOK
      <4> QED
        BY <1>2, <1>4, <2>1, <4>1 DEF Doomed, PendingOf
    <3> QED
      BY <3>1, <3>2
  <2> QED
    BY <1>4, <1>5, <1>6, <2>1 DEF TopicsInv, LeavingInv
<1>9. JoinInv'
  <2> SUFFICES ASSUME NEW t \in Topics, stop_flag'[t]
               PROVE  worker'[t] = "done" \/ PendingOf("join", t)'
    BY DEF JoinInv
  <2>1. CASE stop_flag[t]
    BY <1>2, <1>4, <1>5, <2>1 DEF TopicsInv, JoinInv, PendingOf
  <2>2. CASE ~stop_flag[t]
    <3>1. t = T
      BY <1>5, <2>2
    <3> QED
      BY <1>3, <1>4, <2>2, <3>1 DEF PendingOf
  <2> QED
    BY <2>1, <2>2
<1>10. RunningInv'
  BY <1>5, <1>6 DEF RunningInv
<1> QED
  BY <1>7, <1>8, <1>9, <1>10 DEF TopicsInv

(* Every step keeps what is known of the topics. *)
LEMMA TopicsStep ==
  ASSUME TypeOK, TopicsInv, [Next]_vars
  PROVE  TopicsInv'
  BY TopicsDone, TopicsAside, TopicsPushed, TopicsStop, TopicsLoop, TopicsShut DEF Next, MainThread
-----------------------------------------------------------------------------
(* A subscription on the stack.                                            *)

OnStack ==
  \/ do_stop \/ lock_server \/ unlock_server \/ lock_topic \/ unlock_topic
  \/ shutdown_all \/ shutdown_rest \/ respond \/ create \/ accept \/ attach \/ detach \/ append
  \/ shut \/ notify \/ join

(* No step of the main thread puts a part of a request on its stack. *)
LEMMA OnStackDoes ==
  ASSUME TypeOK, TopicInv, OnStack
  PROVE  \E op, new : /\ new \in Seq(Step) /\ Does(op, new)
                      /\ \A i \in 1 .. Len(new) : new[i].op \notin {"accept", "attach", "detach"}
<1>0. PICK e \in Seq(Step) :
        e = <<>> /\ \A i \in 1 .. Len(e) : e[i].op \notin {"accept", "attach", "detach"}
  <2>1. <<>> \in Seq(Step) /\ Len(<<>>) = 0
    BY OtherPrograms
  <2>2. \A i \in 1 .. Len(<<>>) : <<>>[i].op \notin {"accept", "attach", "detach"}
    BY <2>1
  <2> QED
    BY <2>1, <2>2
<1>1. CASE do_stop
  <2>1. Does("stop", stop) /\ stop \in Seq(Step)
    BY <1>1, OtherPrograms DEF do_stop
  <2>2. \A x \in Elements(stop) : x.op \notin {"accept", "attach", "detach"}
    BY OtherSteps
  <2> QED
    BY <2>1, <2>2 DEF Elements
<1>2. CASE shutdown_all
  <2>1. Does("shutdown_all", Loop(topics)) /\ topics \in SUBSET Topics
    BY <1>2 DEF shutdown_all, TypeOK
  <2>2. Loop(topics) \in Seq(Step) /\ Len(Loop(topics)) = 1 /\ Loop(topics)[1].op = "shutdown_rest"
    BY <2>1, OtherPrograms
  <2>3. \A i \in 1 .. Len(Loop(topics)) : Loop(topics)[i].op \notin {"accept", "attach", "detach"}
    BY <2>2
  <2> QED
    BY <2>1, <2>2, <2>3
<1>3. CASE shutdown_rest
  <2>1. todo # <<>> /\ Head(todo).op = "shutdown_rest" /\ Head(todo) \in Step
    BY <1>3, HeadTailProperties DEF shutdown_rest, Does, TypeOK
  <2>2. Head(todo).rest \in SUBSET Topics
    BY <2>1, StepTopic
  <2>3. CASE Does("shutdown_rest", <<>>)
    BY <1>0, <2>3
  <2>4. CASE \E t \in Topics :
               Does("shutdown_rest", shutdown(t) \o Loop(Head(todo).rest \ {t}))
    <3>1. PICK t \in Topics : Does("shutdown_rest", shutdown(t) \o Loop(Head(todo).rest \ {t}))
      BY <2>4
    <3>2. PICK rest \in SUBSET Topics : rest = Head(todo).rest \ {t}
      BY <2>2
    <3> DEFINE s == shutdown(t) \o Loop(rest)
    <3>3. /\ s \in Seq(Step) /\ Len(s) = 3
          /\ s[1].op = "lock_topic" /\ s[2].op = "shut" /\ s[3].op = "shutdown_rest"
      BY OtherPrograms
    <3>4. Does("shutdown_rest", s)
      BY <3>1, <3>2
    <3> HIDE DEF s
    <3>5. \A i \in 1 .. Len(s) : s[i].op \notin {"accept", "attach", "detach"}
      BY <3>3
    <3> QED
      BY <3>3, <3>4, <3>5
  <2> QED
    BY <1>3, <2>3, <2>4 DEF shutdown_rest
<1>4. CASE shut
  <2>1. PICK new : /\ new = IF stop_flag[T] THEN Steps(<<"unlock_topic">>, T, Nil) ELSE AfterShut(T)
                   /\ Does("shut", new)
    BY <1>4 DEF shut
  <2>2. T \in Topics
    BY <2>1, HeadFacts DEF TopicOps
  <2>3. CASE stop_flag[T]
    <3>1. new = Steps(<<"unlock_topic">>, T, Nil)
      BY <2>1, <2>3
    <3>2. new \in Seq(Step) /\ Len(new) = 1 /\ new[1].op = "unlock_topic"
      BY <2>2, <3>1, ShutPrograms
    <3>3. \A i \in 1 .. Len(new) : new[i].op \notin {"accept", "attach", "detach"}
      BY <3>2
    <3> QED
      BY <2>1, <3>2, <3>3
  <2>4. CASE ~stop_flag[T]
    <3>1. new = AfterShut(T)
      BY <2>1, <2>4
    <3>2. /\ new \in Seq(Step) /\ Len(new) = 3 /\ new[1].op = "unlock_topic"
          /\ new[2].op = "notify" /\ new[3].op = "join"
      BY <2>2, <3>1, ShutPrograms
    <3>3. \A i \in 1 .. Len(new) : new[i].op \notin {"accept", "attach", "detach"}
      BY <3>2
    <3> QED
      BY <2>1, <3>2, <3>3
  <2> QED
    BY <2>3, <2>4
<1>5. CASE lock_server \/ unlock_server \/ lock_topic \/ unlock_topic \/ respond \/ create \/ accept
           \/ attach \/ detach \/ append \/ notify \/ join
  <2>1. PICK op : Does(op, <<>>)
    BY <1>5 DEF lock_server, unlock_server, lock_topic, unlock_topic, respond, create, accept, attach,
       detach, append, notify, join
  <2> QED
    BY <1>0, <2>1
<1> QED
  BY <1>1, <1>2, <1>3, <1>4, <1>5 DEF OnStack

(* Where the parts of a subscription are, counted from the bottom. *)
Bottom(s, i) ==
  /\ s[i].op = "accept" =>
       /\ i = Len(s) - 4 /\ s[i + 1].op = "lock_topic"
       /\ s[i + 2] = [s[i] EXCEPT !.op = "attach"]
  /\ s[i].op = "attach" =>
       /\ i = Len(s) - 2 /\ s[i + 1].op = "unlock_topic"
       /\ s[i + 2].op = "unlock_server"

(* They stay there, whatever is done above them. *)
LEMMA BottomStep ==
  ASSUME TypeOK, TopicInv, BottomInv, [Next]_vars
  PROVE  BottomInv'
<1>0. todo \in Seq(Step) /\ Len(todo) \in Nat
  BY DEF TypeOK
<1>b. \A i \in 1 .. Len(todo) : Bottom(todo, i)
  BY DEF BottomInv, Bottom
<1>c. SUFFICES \A i \in 1 .. Len(todo') : Bottom(todo', i)
  BY <1>c DEF BottomInv, Bottom
<1>1. CASE OnStack
  <2>1. PICK op, new : /\ new \in Seq(Step) /\ Does(op, new)
                       /\ \A i \in 1 .. Len(new) : new[i].op \notin {"accept", "attach", "detach"}
    BY <1>1, OnStackDoes
  <2>2. /\ Len(new) \in Nat /\ Len(todo') = Len(new) + Len(todo) - 1
        /\ \A i \in 1 .. Len(todo') :
             \/ i \in 1 .. Len(new) /\ todo'[i] = new[i]
             \/ /\ i > Len(new) /\ i - Len(new) + 1 \in 2 .. Len(todo)
                /\ todo'[i] = todo[i - Len(new) + 1]
        /\ \A j \in 2 .. Len(todo) :
             j - 1 + Len(new) \in 1 .. Len(todo') /\ todo'[j - 1 + Len(new)] = todo[j]
    BY <1>0, <2>1, DoesStack
  <2>0. Len(todo') \in Nat
    BY <1>0, <2>1, DoesStack
  <2> SUFFICES ASSUME NEW i \in 1 .. Len(todo') PROVE Bottom(todo', i)
    OBVIOUS
  <2>3. CASE i \in 1 .. Len(new) /\ todo'[i] = new[i]
    BY <2>1, <2>3 DEF Bottom
  <2>4. CASE /\ i > Len(new) /\ i - Len(new) + 1 \in 2 .. Len(todo)
             /\ todo'[i] = todo[i - Len(new) + 1]
    <3>1. PICK j \in 2 .. Len(todo) : j = i - Len(new) + 1 /\ j - 1 + Len(new) = i
      BY <1>0, <2>2, <2>4
    <3>2. todo'[i] = todo[j] /\ j \in 1 .. Len(todo) /\ Bottom(todo, j) /\ Len(todo') - i = Len(todo) - j
      BY <1>0, <1>b, <2>2, <2>4, <3>1
    <3>3. \A d \in {1, 2} : j + d <= Len(todo) => todo'[i + d] = todo[j + d]
      <4> SUFFICES ASSUME NEW d \in {1, 2}, j + d <= Len(todo) PROVE todo'[i + d] = todo[j + d]
        OBVIOUS
      <4>1. j + d \in 2 .. Len(todo) /\ (j + d) - 1 + Len(new) = i + d
        BY <1>0, <2>2, <3>1
      <4> QED
        BY <2>2, <4>1
    <3>4. ASSUME todo[j].op = "accept"
          PROVE  /\ i = Len(todo') - 4 /\ todo'[i + 1].op = "lock_topic"
                 /\ todo'[i + 2] = [todo'[i] EXCEPT !.op = "attach"]
      <4>1. /\ j = Len(todo) - 4 /\ todo[j + 1].op = "lock_topic"
            /\ todo[j + 2] = [todo[j] EXCEPT !.op = "attach"]
        BY <3>2, <3>4 DEF Bottom
      <4>2. i = Len(todo') - 4 /\ j + 1 <= Len(todo) /\ j + 2 <= Len(todo)
        BY <1>0, <2>0, <3>2, <4>1
      <4> QED
        BY <3>2, <3>3, <4>1, <4>2
    <3>5. ASSUME todo[j].op = "attach"
          PROVE  /\ i = Len(todo') - 2 /\ todo'[i + 1].op = "unlock_topic"
                 /\ todo'[i + 2].op = "unlock_server"
      <4>1. /\ j = Len(todo) - 2 /\ todo[j + 1].op = "unlock_topic"
            /\ todo[j + 2].op = "unlock_server"
        BY <3>2, <3>5 DEF Bottom
      <4>2. i = Len(todo') - 2 /\ j + 1 <= Len(todo) /\ j + 2 <= Len(todo)
        BY <1>0, <2>0, <3>2, <4>1
      <4> QED
        BY <3>2, <3>3, <4>1, <4>2
    <3> QED
      BY <3>2, <3>4, <3>5 DEF Bottom
  <2> QED
    BY <2>2, <2>3, <2>4
<1>2. CASE next_request
  <2> DEFINE r == Head(recv_buf)
             s == handle_request(r)
  <2>1. r \in Request /\ todo' = s
    BY <1>2, HeadTailProperties DEF next_request, TypeOK
  <2>2. CASE r.op = "SUBSCRIBE" /\ r.t \in topics
    <3>1. s = Steps(<<"lock_server", "accept", "lock_topic", "attach",
                      "unlock_topic", "unlock_server">>, r.t, r.p)
      BY <2>2 DEF handle_request
    <3>2. /\ Len(s) = 6
          /\ s[1].op = "lock_server" /\ s[2].op = "accept" /\ s[3].op = "lock_topic"
          /\ s[4].op = "attach" /\ s[5].op = "unlock_topic" /\ s[6].op = "unlock_server"
          /\ s[4] = [s[2] EXCEPT !.op = "attach"]
      BY <3>1 DEF Steps
    <3> HIDE DEF s
    <3>3. ASSUME NEW i \in 1 .. Len(s) PROVE Bottom(s, i)
      <4>0. i = 1 \/ i = 2 \/ i = 3 \/ i = 4 \/ i = 5 \/ i = 6
        <5>1. Len(s) = 6
          BY <3>2
        <5> QED
          BY <3>3, <5>1
      <4>1. s[i].op = "accept" => i = 2
        BY <3>2, <4>0, Zenon
      <4>2. s[i].op = "attach" => i = 4
        BY <3>2, <4>0, Zenon
      <4>3. s[i].op = "accept" => i + 1 = 3 /\ i + 2 = 4 /\ i = Len(s) - 4
        BY <3>2, <4>1
      <4>4. s[i].op = "attach" => i + 1 = 5 /\ i + 2 = 6 /\ i = Len(s) - 2
        BY <3>2, <4>2
      <4> QED
        BY <3>2, <4>1, <4>2, <4>3, <4>4 DEF Bottom
    <3> QED
      BY <2>1, <3>3
  <2>3. CASE ~(r.op = "SUBSCRIBE" /\ r.t \in topics)
    <3>1. \A x \in Elements(s) : x.op \notin {"accept", "attach"}
      BY <2>1, <2>3, RequestSteps
    <3> HIDE DEF s
    <3>2. \A i \in 1 .. Len(s) : Bottom(s, i)
      BY <3>1 DEF Bottom, Elements
    <3> QED
      BY <2>1, <3>2
  <2> QED
    BY <2>2, <2>3
<1>3. CASE leave_run
  <2> DEFINE s == Steps(<<"stop", "shutdown_all">>, Nil, Nil)
  <2>1. todo' = s /\ \A x \in Elements(s) : x.op \notin {"accept", "attach"}
    BY <1>3, OtherSteps DEF leave_run
  <2> HIDE DEF s
  <2> QED
    BY <2>1 DEF Bottom, Elements
<1>4. CASE signal_handler \/ open_blocks
  <2>1. PICK s \in Seq(Step) : todo' = s \o todo /\ Len(s) = 1 /\ s[1].op \in {"stop", "blocked"}
    BY <1>4, OnePushed
  <2>2. /\ Len(todo') = Len(todo) + 1 /\ todo'[1].op \in {"stop", "blocked"}
        /\ \A j \in 1 .. Len(todo) : todo'[j + 1] = todo[j]
    <3>1. /\ Len(todo') = 1 + Len(todo)
          /\ \A i \in 1 .. 1 + Len(todo) : todo'[i] = IF i <= 1 THEN s[i] ELSE todo[i - 1]
      BY <1>0, <2>1, ConcatProperties
    <3>2. ASSUME NEW j \in 1 .. Len(todo) PROVE todo'[j + 1] = todo[j]
      <4>1. j + 1 \in 1 .. 1 + Len(todo) /\ ~(j + 1 <= 1) /\ (j + 1) - 1 = j
        BY <1>0
      <4> QED
        BY <3>1, <4>1
    <3> QED
      BY <1>0, <2>1, <3>1, <3>2
  <2>5. Len(todo') \in Nat
    BY <1>0, <2>2
  <2> SUFFICES ASSUME NEW i \in 1 .. Len(todo') PROVE Bottom(todo', i)
    OBVIOUS
  <2>3. CASE i = 1
    BY <2>2, <2>3 DEF Bottom
  <2>4. CASE i # 1
    <3>1. PICK j \in 1 .. Len(todo) : i = j + 1
      <4>1. i - 1 \in 1 .. Len(todo) /\ i = (i - 1) + 1
        BY <1>0, <2>2, <2>4, <2>5
      <4> QED
        BY <4>1
    <3>2. Bottom(todo, j) /\ todo'[i] = todo[j]
      BY <1>b, <2>2, <3>1
    <3>3. /\ j + 1 <= Len(todo) => todo'[i + 1] = todo[j + 1]
          /\ j + 2 <= Len(todo) => todo'[i + 2] = todo[j + 2]
      <4>1. i + 1 = (j + 1) + 1 /\ i + 2 = (j + 2) + 1
        BY <1>0, <3>1
      <4>2. /\ j + 1 <= Len(todo) => j + 1 \in 1 .. Len(todo)
            /\ j + 2 <= Len(todo) => j + 2 \in 1 .. Len(todo)
        BY <1>0, <3>1
      <4> QED
        BY <2>2, <4>1, <4>2
    <3>4. todo[j].op = "accept" => /\ i = Len(todo') - 4 /\ j + 1 <= Len(todo) /\ j + 2 <= Len(todo)
      BY <1>0, <2>2, <3>1, <3>2 DEF Bottom
    <3>5. todo[j].op = "attach" => /\ i = Len(todo') - 2 /\ j + 1 <= Len(todo) /\ j + 2 <= Len(todo)
      BY <1>0, <2>2, <3>1, <3>2 DEF Bottom
    <3> QED
      BY <3>2, <3>3, <3>4, <3>5 DEF Bottom
  <2> QED
    BY <2>3, <2>4
<1>5. CASE read_requests \/ exit \/ client_request \/ (\E p \in Procs : subscribe(p) \/ disconnect(p))
           \/ (\E t \in Topics : run_lock(t) \/ run_unlock(t)) \/ UNCHANGED vars
  <2>1. todo' = todo
    BY <1>5 DEF read_requests, exit, client_request, subscribe, disconnect, Send, run_lock, run_unlock, vars
  <2> QED
    BY <1>b, <2>1
<1> QED
  BY <1>1, <1>2, <1>3, <1>4, <1>5 DEF Next, MainThread, OnStack
-----------------------------------------------------------------------------
(* The subscriptions.                                                      *)

(* Reading moves requests from the FIFO to the buffer, in order. *)
LEMMA StreamRead ==
  ASSUME TypeOK, read_requests
  PROVE  /\ Len(Stream) \in Nat /\ Len(Stream') = Len(Stream)
         /\ \A i \in 1 .. Len(Stream) : Stream'[i] = Stream[i]
<1>1. inbox \in Seq(Request) /\ recv_buf = <<>> /\ Len(inbox) \in Nat
  BY DEF TypeOK, read_requests
<1>2. Stream = inbox
  BY <1>1, ConcatEmptySeq DEF Stream
<1>3. PICK n \in 1 .. Len(inbox) : recv_buf' = SubSeq(inbox, 1, n) /\ inbox' = SubSeq(inbox, n + 1, Len(inbox))
  BY DEF read_requests
<1>4. /\ recv_buf' \in Seq(Request) /\ Len(recv_buf') = n
      /\ \A i \in 1 .. n : recv_buf'[i] = inbox[i]
  BY <1>1, <1>3
<1>5. /\ inbox' \in Seq(Request) /\ Len(inbox') = Len(inbox) - n
      /\ \A i \in 1 .. Len(inbox) - n : inbox'[i] = inbox[i + n]
  BY <1>1, <1>3
<1>6. /\ Len(Stream') = n + (Len(inbox) - n)
      /\ \A i \in 1 .. n + (Len(inbox) - n) :
           Stream'[i] = IF i <= n THEN recv_buf'[i] ELSE inbox'[i - n]
  BY <1>4, <1>5, ConcatProperties DEF Stream
<1>7. ASSUME NEW i \in 1 .. Len(inbox) PROVE Stream'[i] = inbox[i]
  <2>1. CASE i <= n
    BY <1>1, <1>4, <1>6, <2>1
  <2>2. CASE i > n
    <3>1. i - n \in 1 .. Len(inbox) - n /\ (i - n) + n = i /\ i \in 1 .. n + (Len(inbox) - n) /\ ~(i <= n)
      BY <1>1, <2>2
    <3>2. Stream'[i] = inbox'[i - n] /\ inbox'[i - n] = inbox[(i - n) + n]
      BY <1>5, <1>6, <3>1
    <3> QED
      BY <3>1, <3>2
  <2> QED
    BY <1>1, <2>1, <2>2
<1> QED
  BY <1>1, <1>2, <1>6, <1>7

(* The next request is the first one. *)
LEMMA StreamTaken ==
  ASSUME TypeOK, next_request
  PROVE  /\ Len(Stream) \in Nat /\ Len(Stream) >= 1 /\ Stream[1] = Head(recv_buf)
         /\ Len(Stream') = Len(Stream) - 1
         /\ \A i \in 1 .. Len(Stream) - 1 : Stream'[i] = Stream[i + 1]
<1>1. /\ inbox \in Seq(Request) /\ recv_buf \in Seq(Request) /\ recv_buf # <<>>
      /\ recv_buf' = Tail(recv_buf) /\ inbox' = inbox
  BY DEF TypeOK, next_request
<1>2. /\ Head(recv_buf) = recv_buf[1] /\ Len(recv_buf) \in Nat /\ Len(recv_buf) >= 1 /\ Len(inbox) \in Nat
      /\ recv_buf' \in Seq(Request) /\ Len(recv_buf') = Len(recv_buf) - 1
      /\ \A i \in 1 .. Len(recv_buf) - 1 : recv_buf'[i] = recv_buf[i + 1]
  BY <1>1, HeadTailProperties
<1>3. /\ Len(Stream) = Len(recv_buf) + Len(inbox)
      /\ \A i \in 1 .. Len(recv_buf) + Len(inbox) :
           Stream[i] = IF i <= Len(recv_buf) THEN recv_buf[i] ELSE inbox[i - Len(recv_buf)]
  BY <1>1, ConcatProperties DEF Stream
<1>4. /\ Len(Stream') = Len(recv_buf') + Len(inbox)
      /\ \A i \in 1 .. Len(recv_buf') + Len(inbox) :
           Stream'[i] = IF i <= Len(recv_buf') THEN recv_buf'[i] ELSE inbox[i - Len(recv_buf')]
  BY <1>1, <1>2, ConcatProperties DEF Stream
<1>5. Stream[1] = recv_buf[1]
  BY <1>2, <1>3
<1>6. ASSUME NEW i \in 1 .. Len(Stream) - 1 PROVE Stream'[i] = Stream[i + 1]
  <2>1. i \in 1 .. Len(recv_buf') + Len(inbox) /\ i + 1 \in 1 .. Len(recv_buf) + Len(inbox)
    BY <1>2, <1>3
  <2>2. CASE i <= Len(recv_buf')
    <3>1. i \in 1 .. Len(recv_buf) - 1 /\ i + 1 <= Len(recv_buf)
      BY <1>2, <2>1, <2>2
    <3> QED
      BY <1>2, <1>3, <1>4, <2>1, <2>2, <3>1
  <2>3. CASE ~(i <= Len(recv_buf'))
    <3>1. ~(i + 1 <= Len(recv_buf)) /\ i - Len(recv_buf') = (i + 1) - Len(recv_buf)
      BY <1>2, <2>1, <2>3
    <3> QED
      BY <1>3, <1>4, <2>1, <2>3, <3>1
  <2> QED
    BY <2>2, <2>3
<1> QED
  BY <1>2, <1>3, <1>4, <1>5, <1>6

(* What a client sends comes last. *)
LEMMA StreamSent ==
  ASSUME TypeOK, NEW r \in Request, Send(r)
  PROVE  /\ Len(Stream) \in Nat /\ Len(Stream') = Len(Stream) + 1 /\ Stream'[Len(Stream) + 1] = r
         /\ \A i \in 1 .. Len(Stream) : Stream'[i] = Stream[i]
<1>1. /\ inbox \in Seq(Request) /\ recv_buf \in Seq(Request)
      /\ recv_buf' = recv_buf /\ inbox' = Append(inbox, r)
  BY DEF TypeOK, Send
<1>2. /\ Len(recv_buf) \in Nat /\ Len(inbox) \in Nat
      /\ inbox' \in Seq(Request) /\ Len(inbox') = Len(inbox) + 1 /\ inbox'[Len(inbox) + 1] = r
      /\ \A i \in 1 .. Len(inbox) : inbox'[i] = inbox[i]
  BY <1>1, AppendProperties
<1>3. /\ Len(Stream) = Len(recv_buf) + Len(inbox)
      /\ \A i \in 1 .. Len(recv_buf) + Len(inbox) :
           Stream[i] = IF i <= Len(recv_buf) THEN recv_buf[i] ELSE inbox[i - Len(recv_buf)]
  BY <1>1, ConcatProperties DEF Stream
<1>4. /\ Len(Stream') = Len(recv_buf) + Len(inbox')
      /\ \A i \in 1 .. Len(recv_buf) + Len(inbox') :
           Stream'[i] = IF i <= Len(recv_buf) THEN recv_buf[i] ELSE inbox'[i - Len(recv_buf)]
  BY <1>1, <1>2, ConcatProperties DEF Stream
<1>5. Stream'[Len(Stream) + 1] = r
  <2>1. /\ Len(Stream) + 1 \in 1 .. Len(recv_buf) + Len(inbox') /\ ~(Len(Stream) + 1 <= Len(recv_buf))
        /\ (Len(Stream) + 1) - Len(recv_buf) = Len(inbox) + 1
    BY <1>2, <1>3
  <2> QED
    BY <1>2, <1>4, <2>1
<1>6. ASSUME NEW i \in 1 .. Len(Stream) PROVE Stream'[i] = Stream[i]
  <2>1. i \in 1 .. Len(recv_buf) + Len(inbox) /\ i \in 1 .. Len(recv_buf) + Len(inbox')
    BY <1>2, <1>3
  <2>2. CASE i <= Len(recv_buf)
    BY <1>3, <1>4, <2>1, <2>2
  <2>3. CASE ~(i <= Len(recv_buf))
    <3>1. i - Len(recv_buf) \in 1 .. Len(inbox)
      BY <1>2, <2>1, <2>3
    <3> QED
      BY <1>2, <1>3, <1>4, <2>1, <2>3, <3>1
  <2> QED
    BY <2>2, <2>3
<1> QED
  BY <1>2, <1>3, <1>4, <1>5, <1>6

(* The stream as it was. *)
LEMMA StreamKept ==
  ASSUME Len(Stream) \in Nat, Len(Stream') = Len(Stream),
         \A i \in 1 .. Len(Stream) : Stream'[i] = Stream[i], NEW p
  PROVE  (AsksOnce(p) => AsksOnce(p)') /\ (Asks(p)' => Asks(p)) /\ (Leaves(p)' => Leaves(p))
<1>1. AsksOnce(p) => AsksOnce(p)'
  BY DEF AsksOnce, SubscribeOf
<1>2. Asks(p)' => Asks(p)
  BY DEF Asks, SubscribeOf
<1>3. Leaves(p)' => Leaves(p)
  BY DEF Leaves
<1> QED
  BY <1>1, <1>2, <1>3

(* A step of the stack: only accept and the critical section of shutdown() *)
(* touch the subscriptions.                                                *)
LEMMA SubscribeOnStack ==
  ASSUME TypeOK, TopicInv, BottomInv, SubscribeInv, OnStack
  PROVE  SubscribeInv'
<1>1. PICK op, new : /\ new \in Seq(Step) /\ Does(op, new)
                     /\ \A i \in 1 .. Len(new) : new[i].op \notin {"accept", "attach", "detach"}
  BY OnStackDoes
<1>2. /\ Head(todo) \in Pending /\ Head(todo) = todo[1] /\ Head(todo).op = op
      /\ \A x \in Pending' : x \in Elements(new) \/ x \in Pending
  BY <1>1, PendingMoved, DoesStack DEF TypeOK
<1>3. /\ \A x \in Pending' : x.op \in {"accept", "detach"} => x \in Pending
  BY <1>1, <1>2 DEF Elements
<1>4. Stream' = Stream
  BY <1>1 DEF Does, Stream, inputVars
<1>5. Len(Stream) \in Nat
  BY ConcatProperties DEF TypeOK, Stream
<1>6. SUFFICES ASSUME NEW p \in Procs, Subscription(p) PROVE Subscription(p)'
  BY DEF SubscribeInv
<1>7. (AsksOnce(p) => AsksOnce(p)') /\ (Asks(p)' => Asks(p)) /\ (Leaves(p)' => Leaves(p))
  BY <1>4, <1>5, StreamKept
<1>8. (PendingFor("accept", p)' => PendingFor("accept", p)) /\ (PendingFor("detach", p)' => PendingFor("detach", p))
  BY <1>3 DEF PendingFor
<1>9. CASE accept
  <2>1. op = "accept" /\ P \in Procs /\ sub' = [sub EXCEPT ![P] = "accepted"]
    BY <1>1, <1>2, <1>9, HeadFacts DEF accept, Does
  <2>2. PendingFor("accept", P)
    BY <1>2, <2>1 DEF PendingFor, P
  <2>3. CASE p = P
    <3>1. sub[p] = "asked" /\ ~Asks(p) /\ ~Leaves(p) /\ ~PendingFor("detach", p)
      BY <1>6, <2>2, <2>3 DEF Subscription
    <3>2. ~PendingFor("accept", p)'
      <4>1. Does("accept", <<>>) /\ todo \in Seq(Step)
        BY <1>9 DEF accept, TypeOK
      <4>2. /\ Len(todo) \in Nat /\ Len(todo) >= 1 /\ todo[1].op = "accept"
            /\ \A i \in 1 .. Len(todo') : i + 1 \in 2 .. Len(todo) /\ todo'[i] = todo[i + 1]
        BY <4>1, DoneStack
      <4>3. 1 = Len(todo) - 4
        <5>1. 1 \in 1 .. Len(todo)
          BY <4>2
        <5> QED
          BY <4>2, <5>1 DEF BottomInv
      <4>4. ASSUME NEW i \in 1 .. Len(todo'), todo'[i].op = "accept" PROVE FALSE
        <5>1. i + 1 \in 2 .. Len(todo) /\ todo[i + 1].op = "accept"
          BY <4>2, <4>4
        <5>2. i + 1 \in 1 .. Len(todo)
          BY <4>2, <5>1
        <5>3. i + 1 = Len(todo) - 4
          BY <5>1, <5>2 DEF BottomInv
        <5> QED
          BY <4>3, <4>4, <5>1, <5>3
      <4> QED
        BY <4>4 DEF PendingFor, Pending
    <3> QED
      BY <1>6, <1>7, <1>8, <3>1, <3>2 DEF Subscription
  <2>4. CASE p # P
    <3>1. sub'[p] = sub[p]
      BY <2>1, <2>4 DEF TypeOK
    <3> QED
      BY <1>6, <1>7, <1>8, <3>1 DEF Subscription
  <2> QED
    BY <2>3, <2>4
<1>10. CASE ~accept
  <2>1. sub'[p] = sub[p] \/ sub[p] = "accepted"
    BY <1>10 DEF OnStack, do_stop, lock_server, unlock_server, lock_topic, unlock_topic, shutdown_all,
       shutdown_rest, respond, create, attach, detach, append, shut, Writable, notify, join, TypeOK
  <2> QED
    BY <1>6, <1>7, <1>8, <2>1 DEF Subscription
<1> QED
  BY <1>9, <1>10

(* The next request: what it asks for moves from the stream to the stack. *)
LEMMA SubscribeNext ==
  ASSUME TypeOK, SubscribeInv, next_request
  PROVE  SubscribeInv'
<1> DEFINE r == Head(recv_buf)
<1>1. /\ Len(Stream) \in Nat /\ Len(Stream) >= 1 /\ Stream[1] = r
      /\ Len(Stream') = Len(Stream) - 1
      /\ \A i \in 1 .. Len(Stream) - 1 : Stream'[i] = Stream[i + 1]
  BY StreamTaken
<1>2. /\ r \in Request /\ todo = <<>> /\ todo' = handle_request(r)
      /\ sub' = IF r.op = "SUBSCRIBE" /\ r.t \notin topics THEN [sub EXCEPT ![r.p] = "refused"] ELSE sub
  BY HeadTailProperties DEF next_request, TypeOK
<1> HIDE DEF r
<1>3. Pending' = Elements(handle_request(r))
  BY <1>2 DEF Pending, Elements
<1>4. /\ \A x \in Pending' : x.op \in {"accept", "attach"} => x.p = r.p /\ r.op = "SUBSCRIBE" /\ r.t \in topics
      /\ \A x \in Pending' : x.op = "detach" => x.p = r.p /\ r.op = "DISCONNECT"
  BY <1>2, <1>3, RequestSteps
<1>5. SUFFICES ASSUME NEW p \in Procs, Subscription(p) PROVE Subscription(p)'
  BY DEF SubscribeInv
<1>6. \A i \in 1 .. Len(Stream') : i + 1 \in 1 .. Len(Stream) /\ i + 1 # 1 /\ Stream'[i] = Stream[i + 1]
  BY <1>1
<1>7. 1 \in 1 .. Len(Stream) /\ \A i \in 1 .. Len(Stream') : i \in Int
  BY <1>1
<1>8. AsksOnce(p)'
  <2>1. \A i, j \in 1 .. Len(Stream') : i + 1 = j + 1 => i = j
    BY <1>1
  <2> QED
    BY <1>5, <1>6, <2>1 DEF Subscription, AsksOnce, SubscribeOf
<1>9. (Asks(p)' => Asks(p)) /\ (Leaves(p)' => Leaves(p))
  BY <1>6 DEF Asks, Leaves, SubscribeOf
<1>10. SubscribeOf(r, p) => Asks(p) /\ ~Asks(p)'
  <2>1. SubscribeOf(r, p) => Asks(p)
    BY <1>1, <1>7 DEF Asks
  <2>2. ASSUME SubscribeOf(r, p), Asks(p)' PROVE FALSE
    <3>1. PICK i \in 1 .. Len(Stream') : SubscribeOf(Stream'[i], p)
      BY <2>2 DEF Asks, SubscribeOf
    <3>2. SubscribeOf(Stream[i + 1], p) /\ SubscribeOf(Stream[1], p)
      BY <1>1, <1>6, <2>2, <3>1
    <3> QED
      BY <1>5, <1>6, <1>7, <3>1, <3>2 DEF Subscription, AsksOnce
  <2> QED
    BY <2>1, <2>2
<1>11. r.op = "DISCONNECT" /\ r.p = p => Leaves(p)
  BY <1>1, <1>7 DEF Leaves
<1>12. /\ PendingFor("accept", p)' => SubscribeOf(r, p) /\ r.t \in topics
       /\ PendingFor("detach", p)' => r.op = "DISCONNECT" /\ r.p = p
  BY <1>4 DEF PendingFor, SubscribeOf
<1>13. sub'[p] = IF SubscribeOf(r, p) /\ r.t \notin topics THEN "refused" ELSE sub[p]
  BY <1>2 DEF SubscribeOf, TypeOK
<1> QED
  BY <1>5, <1>8, <1>9, <1>10, <1>11, <1>12, <1>13 DEF Subscription

(* A client sends a request. *)
LEMMA SubscribeSent ==
  ASSUME TypeOK, SubscribeInv, client_request \/ (\E p \in Procs : subscribe(p) \/ disconnect(p))
  PROVE  SubscribeInv'
<1>1. PICK r \in Request :
        /\ Send(r)
        /\ \/ r.op \notin {"SUBSCRIBE", "DISCONNECT"} /\ sub' = sub
           \/ r.op = "SUBSCRIBE" /\ r.p \in Procs /\ sub[r.p] = "new" /\ sub' = [sub EXCEPT ![r.p] = "asked"]
           \/ r.op = "DISCONNECT" /\ r.p \in Procs /\ sub[r.p] \in {"accepted", "cut"} /\ sub' = [sub EXCEPT ![r.p] = "left"]
  <2>1. CASE client_request
    <3>1. PICK op \in Ops \ {"SUBSCRIBE", "DISCONNECT"}, t \in Topics : Send([op |-> op, t |-> t, p |-> Nil])
      BY <2>1 DEF client_request
    <3>2. [op |-> op, t |-> t, p |-> Nil] \in Request
      BY DEF Request
    <3>3. sub' = sub
      BY <2>1 DEF client_request
    <3> QED
      BY <3>1, <3>2, <3>3
  <2>2. CASE \E p \in Procs : subscribe(p) \/ disconnect(p)
    <3>1. PICK p \in Procs : subscribe(p) \/ disconnect(p)
      BY <2>2
    <3>2. CASE subscribe(p)
      <4>1. PICK t \in Topics : Send([op |-> "SUBSCRIBE", t |-> t, p |-> p])
        BY <3>2 DEF subscribe
      <4>2. [op |-> "SUBSCRIBE", t |-> t, p |-> p] \in Request
        BY DEF Request
      <4>3. sub[p] = "new" /\ sub' = [sub EXCEPT ![p] = "asked"]
        BY <3>2 DEF subscribe
      <4> QED
        BY <4>1, <4>2, <4>3
    <3>3. CASE disconnect(p)
      <4>1. PICK t \in Topics : Send([op |-> "DISCONNECT", t |-> t, p |-> p])
        BY <3>3 DEF disconnect
      <4>2. [op |-> "DISCONNECT", t |-> t, p |-> p] \in Request
        BY DEF Request
      <4>3. sub[p] \in {"accepted", "cut"} /\ sub' = [sub EXCEPT ![p] = "left"]
        BY <3>3 DEF disconnect
      <4> QED
        BY <4>1, <4>2, <4>3
    <3> QED
      BY <3>1, <3>2, <3>3
  <2> QED
    BY <2>1, <2>2
<1>2. /\ Len(Stream) \in Nat /\ Len(Stream') = Len(Stream) + 1 /\ Stream'[Len(Stream) + 1] = r
      /\ \A i \in 1 .. Len(Stream) : Stream'[i] = Stream[i]
  BY <1>1, StreamSent
<1>3. Pending' = Pending
  BY <1>1 DEF Send, Pending
<1>4. \A i \in 1 .. Len(Stream') : \/ i \in 1 .. Len(Stream) /\ Stream'[i] = Stream[i]
                                   \/ i = Len(Stream) + 1 /\ Stream'[i] = r
  BY <1>2
<1>5. SUFFICES ASSUME NEW p \in Procs, Subscription(p) PROVE Subscription(p)'
  BY DEF SubscribeInv
<1>6. (Asks(p)' => Asks(p) \/ SubscribeOf(r, p)) /\ (Leaves(p)' => Leaves(p) \/ (r.op = "DISCONNECT" /\ r.p = p))
  BY <1>4 DEF Asks, Leaves, SubscribeOf
<1>7. SubscribeOf(r, p) => sub[p] = "new" /\ sub'[p] = "asked" /\ ~Asks(p)
  BY <1>1, <1>5 DEF SubscribeOf, Subscription, TypeOK
<1>8. AsksOnce(p)'
  <2> SUFFICES ASSUME NEW i \in 1 .. Len(Stream'), NEW j \in 1 .. Len(Stream'),
                      SubscribeOf(Stream'[i], p), SubscribeOf(Stream'[j], p)
               PROVE  i = j
    BY DEF AsksOnce, SubscribeOf
  <2>1. CASE i \in 1 .. Len(Stream) /\ j \in 1 .. Len(Stream)
    BY <1>2, <1>5, <2>1 DEF Subscription, AsksOnce
  <2>2. CASE i = Len(Stream) + 1 /\ j = Len(Stream) + 1
    BY <2>2
  <2>3. CASE (i \in 1 .. Len(Stream) /\ j = Len(Stream) + 1) \/ (j \in 1 .. Len(Stream) /\ i = Len(Stream) + 1)
    <3>1. Asks(p) /\ SubscribeOf(r, p)
      BY <1>2, <2>3 DEF Asks
    <3> QED
      BY <1>7, <3>1
  <2> QED
    BY <1>4, <2>1, <2>2, <2>3
<1>9. /\ r.op = "DISCONNECT" /\ r.p = p => sub[p] \in {"accepted", "cut"} /\ sub'[p] = "left"
      /\ ~SubscribeOf(r, p) /\ ~(r.op = "DISCONNECT" /\ r.p = p) => sub'[p] = sub[p]
  BY <1>1 DEF SubscribeOf, TypeOK
<1>10. PendingFor("accept", p)' = PendingFor("accept", p) /\ PendingFor("detach", p)' = PendingFor("detach", p)
  BY <1>3 DEF PendingFor
<1> QED
  BY <1>5, <1>6, <1>7, <1>8, <1>9, <1>10 DEF Subscription

(* Every step keeps a subscription in one place. *)
LEMMA SubscribeStep ==
  ASSUME TypeOK, TopicInv, BottomInv, SubscribeInv, [Next]_vars
  PROVE  SubscribeInv'
<1>0. Len(Stream) \in Nat
  BY ConcatProperties DEF TypeOK, Stream
<1>1. CASE read_requests \/ leave_run \/ signal_handler \/ open_blocks \/ exit
           \/ (\E t \in Topics : run_lock(t) \/ run_unlock(t)) \/ UNCHANGED vars
  <2>1. \A p \in Procs : sub'[p] = sub[p] \/ sub[p] = "accepted"
    BY <1>1 DEF read_requests, leave_run, signal_handler, open_blocks, exit, run_lock, run_unlock,
       Writable, vars
  <2>2. Len(Stream') = Len(Stream) /\ \A i \in 1 .. Len(Stream) : Stream'[i] = Stream[i]
    <3>1. CASE read_requests
      BY <3>1, StreamRead
    <3>2. CASE ~read_requests
      <4>1. Stream' = Stream
        BY <1>1, <3>2 DEF leave_run, signal_handler, open_blocks, exit, run_lock, run_unlock, vars, inputVars, Stream
      <4> QED
        BY <4>1
    <3> QED
      BY <3>1, <3>2
  <2>3. \A x \in Pending' : x.op \in {"stop", "blocked", "shutdown_all"} \/ x \in Pending
    <3>1. CASE leave_run
      <4>1. Pending' = Elements(Steps(<<"stop", "shutdown_all">>, Nil, Nil))
        BY <3>1 DEF leave_run, Pending, Elements
      <4> QED
        BY <4>1, OtherSteps
    <3>2. CASE signal_handler \/ open_blocks
      <4>1. PICK s \in Seq(Step) : todo' = s \o todo /\ \A x \in Elements(s) : x.op \in {"stop", "blocked"}
        BY <3>2, OnePushed
      <4>2. Pending' = Elements(s) \cup Pending
        BY <4>1, PendingPushed DEF TypeOK
      <4> QED
        BY <4>1, <4>2
    <3>3. CASE ~(leave_run \/ signal_handler \/ open_blocks)
      BY <1>1, <3>3 DEF read_requests, exit, run_lock, run_unlock, vars, Pending
    <3> QED
      BY <3>1, <3>2, <3>3
  <2>4. ASSUME NEW p \in Procs, Subscription(p) PROVE Subscription(p)'
    <3>1. (AsksOnce(p) => AsksOnce(p)') /\ (Asks(p)' => Asks(p)) /\ (Leaves(p)' => Leaves(p))
      BY <1>0, <2>2, StreamKept
    <3>2. (PendingFor("accept", p)' => PendingFor("accept", p)) /\ (PendingFor("detach", p)' => PendingFor("detach", p))
      BY <2>3 DEF PendingFor
    <3> QED
      BY <2>1, <2>4, <3>1, <3>2 DEF Subscription
  <2> QED
    BY <2>4 DEF SubscribeInv
<1> QED
  BY <1>1, SubscribeOnStack, SubscribeNext, SubscribeSent DEF Next, MainThread, OnStack
-----------------------------------------------------------------------------
(* Whoever is accepted gets its entry.                                     *)

(* Who is about to be attached is above everything else. *)
LEMMA BetweenTop ==
  ASSUME todo \in Seq(Step), NEW p, Between(p)
  PROVE  /\ todo # <<>> /\ Head(todo) = todo[1]
         /\ todo[1].op \in {"stop", "lock_topic"} \/ (todo[1].op = "attach" /\ todo[1].p = p)
<1>1. PICK i \in 1 .. Len(todo) :
        /\ todo[i].op = "attach" /\ todo[i].p = p
        /\ \A j \in 1 .. i - 1 : todo[j].op \in {"stop", "lock_topic"}
  BY DEF Between
<1>2. Len(todo) \in Nat /\ todo # <<>>
  BY <1>1
<1>3. Head(todo) = todo[1]
  BY <1>2
<1>4. i = 1 \/ 1 \in 1 .. i - 1
  BY <1>2
<1> QED
  BY <1>1, <1>2, <1>3, <1>4

(* The lock is taken, and the attachment comes nearer. *)
LEMMA BetweenLocks ==
  ASSUME todo \in Seq(Step), NEW p, Between(p), Does("lock_topic", <<>>)
  PROVE  Between(p)'
<1>1. PICK i \in 1 .. Len(todo) :
        /\ todo[i].op = "attach" /\ todo[i].p = p
        /\ \A j \in 1 .. i - 1 : todo[j].op \in {"stop", "lock_topic"}
  BY DEF Between
<1>2. /\ Len(todo) \in Nat /\ todo[1].op = "lock_topic" /\ Len(todo') = Len(todo) - 1
      /\ \A k \in 1 .. Len(todo') : todo'[k] = todo[k + 1]
  BY DoneStack
<1>3. i # 1
  BY <1>1, <1>2
<1>4. i - 1 \in 1 .. Len(todo') /\ (i - 1) + 1 = i
  BY <1>2, <1>3
<1>5. todo'[i - 1] = todo[i]
  BY <1>2, <1>4
<1>6. ASSUME NEW j \in 1 .. (i - 1) - 1 PROVE todo'[j].op \in {"stop", "lock_topic"}
  <2>1. j \in 1 .. Len(todo') /\ j + 1 \in 1 .. i - 1
    BY <1>2, <1>4
  <2> QED
    BY <1>1, <1>2, <2>1
<1> QED
  BY <1>1, <1>4, <1>5, <1>6 DEF Between

(* The handler comes before what it interrupts. *)
LEMMA SignalStack ==
  ASSUME todo \in Seq(Step), signal_handler
  PROVE  /\ Len(todo) \in Nat /\ Len(todo') = Len(todo) + 1 /\ todo'[1].op = "stop"
         /\ \A j \in 1 .. Len(todo) : j + 1 \in 1 .. Len(todo') /\ todo'[j + 1] = todo[j]
<1> DEFINE s == Steps(<<"stop">>, Nil, Nil)
<1>1. todo' = s \o todo /\ s \in Seq(Step) /\ Len(s) = 1 /\ s[1].op = "stop"
  BY OtherPrograms DEF signal_handler
<1> HIDE DEF s
<1>2. /\ Len(todo') = 1 + Len(todo) /\ Len(todo) \in Nat
      /\ \A i \in 1 .. 1 + Len(todo) : todo'[i] = IF i <= 1 THEN s[i] ELSE todo[i - 1]
  BY <1>1, ConcatProperties
<1>3. ASSUME NEW j \in 1 .. Len(todo) PROVE j + 1 \in 1 .. Len(todo') /\ todo'[j + 1] = todo[j]
  <2>1. j + 1 \in 1 .. 1 + Len(todo) /\ ~(j + 1 <= 1) /\ (j + 1) - 1 = j
    BY <1>2
  <2> QED
    BY <1>2, <2>1
<1> QED
  BY <1>1, <1>2, <1>3

(* A signal does not come in between. *)
LEMMA BetweenSignal ==
  ASSUME todo \in Seq(Step), NEW p, Between(p), signal_handler
  PROVE  Between(p)'
<1>1. PICK i \in 1 .. Len(todo) :
        /\ todo[i].op = "attach" /\ todo[i].p = p
        /\ \A j \in 1 .. i - 1 : todo[j].op \in {"stop", "lock_topic"}
  BY DEF Between
<1>2. /\ Len(todo) \in Nat /\ todo'[1].op = "stop"
      /\ \A j \in 1 .. Len(todo) : j + 1 \in 1 .. Len(todo') /\ todo'[j + 1] = todo[j]
  BY SignalStack
<1>3. ASSUME NEW j \in 1 .. (i + 1) - 1 PROVE todo'[j].op \in {"stop", "lock_topic"}
  <2>1. CASE j = 1
    BY <1>2, <2>1
  <2>2. CASE j # 1
    <3>1. j - 1 \in 1 .. i - 1 /\ j - 1 \in 1 .. Len(todo) /\ (j - 1) + 1 = j
      BY <1>2, <2>2
    <3>2. todo'[(j - 1) + 1] = todo[j - 1]
      BY <1>2, <3>1
    <3> QED
      BY <1>1, <3>1, <3>2
  <2> QED
    BY <2>1, <2>2
<1> QED
  BY <1>1, <1>2, <1>3 DEF Between

(* What a step of the stack does to the entries of the running topics. *)
LEMMA SubscribedKept ==
  ASSUME TypeOK, TopicsInv, NEW p \in Procs, Subscribed(p), OnStack, ~shut,
         detach => P # p
  PROVE  Subscribed(p)'
<1>1. PICK t \in topics : p \in entries[t] /\ ~stop_flag[t]
  BY DEF Subscribed
<1>2. t \in Topics
  BY <1>1 DEF TypeOK
<1>3. CASE attach
  <2>1. T \in Topics
    BY <1>3, HeadFacts DEF attach
  <2>2. p \in entries'[t] /\ UNCHANGED <<topics, stop_flag>>
    BY <1>1, <1>2, <1>3, <2>1 DEF attach, TypeOK
  <2> QED
    BY <1>1, <2>2 DEF Subscribed
<1>4. CASE detach
  <2>1. T \in Topics
    BY <1>4, HeadFacts DEF detach
  <2>2. p \in entries'[t] /\ UNCHANGED <<topics, stop_flag>>
    BY <1>1, <1>2, <1>4, <2>1 DEF detach, TypeOK
  <2> QED
    BY <1>1, <2>2 DEF Subscribed
<1>5. CASE ~attach /\ ~detach
  <2>1. topics \subseteq topics' /\ UNCHANGED <<stop_flag, entries>>
    BY <1>5 DEF OnStack, do_stop, lock_server, unlock_server, lock_topic, unlock_topic, shutdown_all,
       shutdown_rest, respond, create, accept, append, notify, join, topicVars
  <2> QED
    BY <1>1, <2>1 DEF Subscribed
<1> QED
  BY <1>3, <1>4, <1>5

(* Until stop() begins, who is accepted has an entry, or is about to. *)
LEMMA AcceptedStep ==
  ASSUME TypeOK, TopicsInv, BottomInv, SubscribeInv, AcceptedInv, [Next]_vars
  PROVE  AcceptedInv'
<1>0. todo \in Seq(Step)
  BY DEF TypeOK
<1> SUFFICES ASSUME NEW p \in Procs, running', sub'[p] = "accepted"
             PROVE  Subscribed(p)' \/ Between(p)'
  BY DEF AcceptedInv
<1>1. CASE accept
  <2>1. /\ Does("accept", <<>>) /\ running /\ P \in Procs /\ sub' = [sub EXCEPT ![P] = "accepted"]
    BY <1>1, HeadFacts DEF accept
  <2>2. /\ Len(todo) \in Nat /\ Len(todo) >= 1 /\ Head(todo) = todo[1] /\ todo[1].op = "accept"
        /\ Len(todo') = Len(todo) - 1
        /\ \A j \in 2 .. Len(todo) : j - 1 \in 1 .. Len(todo') /\ todo'[j - 1] = todo[j]
    BY <1>0, <2>1, DoneStack
  <2>3. CASE p = P
    <3>1. 1 \in 1 .. Len(todo)
      BY <2>2
    <3>2. /\ 1 = Len(todo) - 4 /\ todo[1 + 1].op = "lock_topic"
          /\ todo[1 + 2] = [todo[1] EXCEPT !.op = "attach"]
      BY <2>2, <3>1 DEF BottomInv
    <3>3. Len(todo) = 5 /\ todo[2].op = "lock_topic" /\ todo[3].op = "attach" /\ todo[3].p = P
      <4>1. todo[1] \in Step
        BY <1>0, <3>1
      <4>2. todo[1] \in [op : {"accept", "attach", "detach"}, t : Topics, p : Procs]
        BY <2>2, <4>1 DEF Step, ServerOps, TopicOps
      <4>3. todo[3] = [todo[1] EXCEPT !.op = "attach"]
        BY <3>2
      <4>4. todo[3].op = "attach" /\ todo[3].p = todo[1].p
        BY <4>2, <4>3
      <4>5. Len(todo) = 5
        <5>1. Len(todo) \in Nat
          BY <2>2
        <5>2. 1 = Len(todo) - 4
          BY <3>2
        <5> QED
          BY <5>1, <5>2
      <4>6. todo[2].op = "lock_topic"
        BY <3>2
      <4> QED
        BY <2>2, <4>4, <4>5, <4>6 DEF P
    <3>4. /\ todo'[1].op = "lock_topic" /\ todo'[2].op = "attach" /\ todo'[2].p = p
          /\ 2 \in 1 .. Len(todo')
      <4>1. todo'[2 - 1] = todo[2] /\ todo'[3 - 1] = todo[3]
        BY <2>2, <3>3
      <4> QED
        BY <2>2, <2>3, <3>3, <4>1
    <3>5. \A j \in 1 .. 2 - 1 : todo'[j].op \in {"stop", "lock_topic"}
      BY <3>4
    <3> QED
      BY <3>4, <3>5 DEF Between
  <2>4. CASE p # P
    <3>1. sub[p] = "accepted"
      BY <2>1, <2>4 DEF TypeOK
    <3>2. ~Between(p)
      BY <1>0, <2>2, BetweenTop
    <3>3. Subscribed(p)
      BY <2>1, <3>1, <3>2 DEF AcceptedInv
    <3>4. Subscribed(p)'
      BY <1>1, <3>3 DEF accept, Subscribed, topicVars
    <3> QED
      BY <3>4
  <2> QED
    BY <2>3, <2>4
<1>2. CASE attach
  <2>1. /\ Does("attach", <<>>) /\ running /\ P \in Procs /\ T \in Topics /\ sub' = sub
    BY <1>2, HeadFacts DEF attach
  <2>2. Head(todo) = todo[1] /\ todo[1].op = "attach" /\ Head(todo) \in Pending
    BY <1>0, <2>1, DoneStack, PendingDone
  <2>3. CASE p = P
    <3>1. T \in topics /\ ~stop_flag[T]
      BY <2>1, <2>2 DEF TopicsInv, TopicInv, RunningInv, T
    <3>2. p \in entries'[T] /\ UNCHANGED <<topics, stop_flag>>
      BY <1>2, <2>1, <2>3 DEF attach, TypeOK
    <3> QED
      BY <3>1, <3>2 DEF Subscribed
  <2>4. CASE p # P
    <3>1. ~Between(p)
      BY <1>0, <2>2, <2>4, BetweenTop DEF P
    <3>2. Subscribed(p)
      BY <2>1, <3>1 DEF AcceptedInv
    <3> QED
      BY <1>2, <2>2, <3>2, SubscribedKept DEF OnStack, shut, detach, Does
  <2> QED
    BY <2>3, <2>4
<1>3. CASE lock_topic
  <2>1. Does("lock_topic", <<>>) /\ running /\ sub' = sub
    BY <1>3 DEF lock_topic
  <2>2. Between(p) => Between(p)'
    BY <1>0, <2>1, BetweenLocks
  <2>3. Subscribed(p) => Subscribed(p)'
    BY <1>3 DEF lock_topic, Subscribed, topicVars
  <2> QED
    BY <2>1, <2>2, <2>3 DEF AcceptedInv
<1>4. CASE OnStack /\ ~accept /\ ~attach /\ ~lock_topic /\ ~do_stop
  <2>1. PICK op, new : /\ new \in Seq(Step) /\ Does(op, new)
    BY <1>4, OnStackDoes DEF TopicsInv
  <2>2. Head(todo) = todo[1] /\ Head(todo) \in Pending /\ running' = running /\ Head(todo) \in Step
    BY <1>0, <1>4, <2>1, DoesStack, PendingMoved DEF OnStack, lock_server, unlock_server, unlock_topic, shutdown_all,
       shutdown_rest, respond, create, detach, append, shut, notify, join
  <2>3. Head(todo).op \notin {"stop", "lock_topic", "attach"}
    BY <1>4 DEF OnStack, lock_server, unlock_server, unlock_topic, shutdown_all,
       shutdown_rest, respond, create, detach, append, shut, notify, join, Does
  <2>4. ~Between(p)
    BY <1>0, <2>2, <2>3, BetweenTop
  <2>5. ~shut
    BY <2>2 DEF shut, Does, TopicsInv, RunningInv
  <2>6. sub' = sub
    BY <1>4, <2>5 DEF OnStack, lock_server, unlock_server, unlock_topic, shutdown_all,
       shutdown_rest, respond, create, detach, append, notify, join
  <2>7. detach => P # p
    <3>1. ASSUME detach, P = p PROVE FALSE
      <4>1. PendingFor("detach", p)
        BY <2>2, <3>1 DEF detach, Does, PendingFor, P
      <4>2. sub[p] = "left"
        BY <4>1 DEF SubscribeInv, Subscription
      <4> QED
        BY <2>6, <4>2
    <3> QED
      BY <3>1
  <2>8. Subscribed(p)
    BY <2>2, <2>4, <2>6 DEF AcceptedInv
  <2> QED
    BY <1>4, <2>5, <2>7, <2>8, SubscribedKept
<1>5. CASE do_stop
  BY <1>5 DEF do_stop
<1>6. CASE signal_handler
  <2>1. running /\ sub' = sub
    BY <1>6 DEF signal_handler
  <2>2. Between(p) => Between(p)'
    BY <1>0, <1>6, BetweenSignal
  <2>3. Subscribed(p) => Subscribed(p)'
    BY <1>6 DEF signal_handler, Subscribed, topicVars
  <2> QED
    BY <2>1, <2>2, <2>3 DEF AcceptedInv
<1>b. CASE open_blocks
  <2>1. running /\ sub' = sub /\ UNCHANGED topicVars
    BY <1>b DEF open_blocks
  <2>2. ~Between(p)
    BY <1>0, <1>b, BetweenTop DEF open_blocks
  <2>3. Subscribed(p)
    BY <2>1, <2>2 DEF AcceptedInv
  <2> QED
    BY <2>1, <2>3 DEF Subscribed, topicVars
<1>7. CASE next_request
  <2>1. running /\ todo = <<>> /\ UNCHANGED topicVars
    BY <1>7 DEF next_request
  <2>2. sub[p] = "accepted"
    <3>1. Head(recv_buf) \in Request
      BY <1>7, HeadTailProperties DEF next_request, TypeOK
    <3>2. Head(recv_buf).op = "SUBSCRIBE" => Head(recv_buf).p \in Procs
      BY <3>1 DEF Request
    <3> QED
      BY <1>7, <3>2 DEF next_request, TypeOK
  <2>3. ~Between(p)
    BY <1>0, <2>1, BetweenTop
  <2>4. Subscribed(p)
    BY <2>1, <2>2, <2>3 DEF AcceptedInv
  <2>5. Subscribed(p)'
    BY <2>1, <2>4 DEF Subscribed, topicVars
  <2> QED
    BY <2>5
<1>8. CASE leave_run
  BY <1>8 DEF leave_run
<1>9. CASE read_requests \/ exit \/ client_request \/ (\E q \in Procs : subscribe(q) \/ disconnect(q))
           \/ (\E t \in Topics : run_lock(t) \/ run_unlock(t)) \/ UNCHANGED vars
  <2>1. UNCHANGED <<running, todo, topics, stop_flag, entries>>
    BY <1>9 DEF read_requests, exit, client_request, subscribe, disconnect, Send, run_lock, run_unlock,
       vars, topicVars
  <2>2. sub[p] = "accepted"
    <3>1. CASE \E t \in Topics : run_lock(t) \/ run_unlock(t)
      <4>1. PICK t \in Topics : run_lock(t) \/ run_unlock(t)
        BY <3>1
      <4>2. CASE run_lock(t)
        BY <4>2 DEF run_lock
      <4>3. CASE run_unlock(t)
        <5>1. PICK full \in SUBSET Writable(t) :
                sub' = [q \in Procs |-> IF q \in full THEN "cut" ELSE sub[q]]
          BY <4>3 DEF run_unlock
        <5>2. sub'[p] = IF p \in full THEN "cut" ELSE sub[p]
          BY <5>1
        <5> QED
          BY <5>2
      <4> QED
        BY <4>1, <4>2, <4>3
    <3>2. CASE ~\E t \in Topics : run_lock(t) \/ run_unlock(t)
      BY <1>9, <3>2 DEF read_requests, exit, client_request, subscribe, disconnect, vars, TypeOK
    <3> QED
      BY <3>1, <3>2
  <2>3. (Between(p) => Between(p)') /\ (Subscribed(p) => Subscribed(p)')
    BY <2>1 DEF Between, Subscribed
  <2> QED
    BY <2>1, <2>2, <2>3 DEF AcceptedInv
<1> QED
  BY <1>1, <1>2, <1>3, <1>4, <1>5, <1>6, <1>b, <1>7, <1>8, <1>9 DEF Next, MainThread, OnStack
-----------------------------------------------------------------------------
(* Whoever was subscribed when stop() began is told.                       *)

(* A handler that waits for the mutex below it is on top of the stack. *)
LEMMA StuckTop ==
  ASSUME todo \in Seq(Step), Stuck
  PROVE  /\ todo # <<>> /\ Head(todo) = todo[1] /\ server_mutex = "main"
         /\ todo[1].op \in {"stop", "lock_server"}
<1>1. PICK i \in 1 .. Len(todo) :
        todo[i].op = "lock_server" /\ \A j \in 1 .. i - 1 : todo[j].op = "stop"
  BY DEF Stuck
<1>2. Len(todo) \in Nat /\ todo # <<>>
  BY <1>1
<1>3. Head(todo) = todo[1]
  BY <1>2
<1>4. i = 1 \/ 1 \in 1 .. i - 1
  BY <1>2
<1> QED
  BY <1>1, <1>2, <1>3, <1>4 DEF Stuck

(* It stays there for ever. *)
LEMMA StuckStep ==
  ASSUME TypeOK, Stuck, ~running, [Next]_vars
  PROVE  Stuck'
<1>0. todo \in Seq(Step) /\ todo # <<>> /\ Head(todo) = todo[1] /\ server_mutex = "main"
      /\ todo[1].op \in {"stop", "lock_server"}
  BY StuckTop DEF TypeOK
<1>1. PICK i \in 1 .. Len(todo) :
        todo[i].op = "lock_server" /\ \A j \in 1 .. i - 1 : todo[j].op = "stop"
  BY DEF Stuck
<1>2. CASE do_stop
  <2>1. Does("stop", <<>>) /\ server_mutex' = server_mutex
    BY <1>2 DEF do_stop, stop, mutexVars
  <2>2. /\ Len(todo) \in Nat /\ todo[1].op = "stop" /\ Len(todo') = Len(todo) - 1
        /\ \A k \in 1 .. Len(todo') : todo'[k] = todo[k + 1]
    BY <1>0, <2>1, DoneStack
  <2>3. i # 1
    BY <1>1, <2>2
  <2>4. i - 1 \in 1 .. Len(todo') /\ (i - 1) + 1 = i
    BY <2>2, <2>3
  <2>5. todo'[i - 1] = todo[i]
    BY <2>2, <2>4
  <2>6. ASSUME NEW j \in 1 .. (i - 1) - 1 PROVE todo'[j].op = "stop"
    <3>1. j \in 1 .. Len(todo') /\ j + 1 \in 1 .. i - 1
      BY <2>2, <2>4
    <3> QED
      BY <1>1, <2>2, <3>1
  <2> QED
    BY <1>0, <1>1, <2>1, <2>4, <2>5, <2>6 DEF Stuck
<1>3. CASE signal_handler
  <2>1. /\ Len(todo) \in Nat /\ todo'[1].op = "stop"
        /\ \A j \in 1 .. Len(todo) : j + 1 \in 1 .. Len(todo') /\ todo'[j + 1] = todo[j]
    BY <1>0, <1>3, SignalStack
  <2>2. ASSUME NEW j \in 1 .. (i + 1) - 1 PROVE todo'[j].op = "stop"
    <3>1. CASE j = 1
      BY <2>1, <3>1
    <3>2. CASE j # 1
      <4>1. j - 1 \in 1 .. i - 1 /\ j - 1 \in 1 .. Len(todo) /\ (j - 1) + 1 = j
        BY <2>1, <3>2
      <4>2. todo'[(j - 1) + 1] = todo[j - 1]
        BY <2>1, <4>1
      <4> QED
        BY <1>1, <4>1, <4>2
    <3> QED
      BY <3>1, <3>2
  <2>3. server_mutex' = "main"
    BY <1>0, <1>3 DEF signal_handler, mutexVars
  <2> QED
    BY <1>1, <2>1, <2>2, <2>3 DEF Stuck
<1>4. CASE client_request \/ (\E p \in Procs : subscribe(p) \/ disconnect(p))
           \/ (\E t \in Topics : run_lock(t) \/ run_unlock(t)) \/ UNCHANGED vars
  <2>1. todo' = todo /\ server_mutex' = server_mutex
    BY <1>4 DEF client_request, subscribe, disconnect, Send, run_lock, run_unlock, vars, mutexVars
  <2> QED
    BY <2>1 DEF Stuck
<1>5. ~(\/ read_requests \/ next_request \/ leave_run \/ exit \/ open_blocks)
  BY <1>0 DEF read_requests, next_request, leave_run, exit, open_blocks
<1>6. ~(\/ lock_server \/ unlock_server \/ lock_topic \/ unlock_topic
        \/ shutdown_all \/ shutdown_rest \/ respond \/ create \/ accept \/ attach \/ detach \/ append
        \/ shut \/ notify \/ join)
  BY <1>0 DEF lock_server, unlock_server, lock_topic, unlock_topic, shutdown_all, shutdown_rest, respond,
     create, accept, attach, detach, append, shut, notify, join, Does
<1> QED
  BY <1>2, <1>3, <1>4, <1>5, <1>6 DEF Next, MainThread

(* A handler that comes between acceptance and attachment finds the mutex  *)
(* of the server locked by the request it interrupts.                      *)
LEMMA BetweenHolds ==
  ASSUME TypeOK, LockInv, BottomInv, NEW p, Between(p)
  PROVE  server_mutex = "main"
<1>0. todo \in Seq(Step) /\ Len(todo) \in Nat
  BY DEF TypeOK
<1>1. PICK i \in 1 .. Len(todo) :
        /\ todo[i].op = "attach" /\ todo[i].p = p
        /\ \A j \in 1 .. i - 1 : todo[j].op \in {"stop", "lock_topic"}
  BY DEF Between
<1>2. i = Len(todo) - 2 /\ todo[i + 1].op = "unlock_topic" /\ todo[i + 2].op = "unlock_server"
  BY <1>1 DEF BottomInv
<1>3. PICK b \in 1 .. Len(todo) : b = Len(todo) /\ b = i + 2
  BY <1>0, <1>2
<1>4. ASSUME NEW k \in 1 .. Len(todo)
      PROVE  todo[k] \notin LocksServer /\ (k # b => todo[k] \notin UnlocksServer)
  <2>1. k \in 1 .. i - 1 \/ k = i \/ k = i + 1 \/ k = b
    BY <1>0, <1>2, <1>3
  <2> QED
    BY <1>1, <1>2, <1>3, <2>1 DEF LocksServer, UnlocksServer
<1>5. todo[b] \in UnlocksServer
  BY <1>0, <1>2, <1>3 DEF UnlocksServer
<1>6. Level(todo, UnlocksServer, LocksServer, 1) = 1
  BY <1>0, <1>4, <1>5, OneRelease
<1>7. Held(server_mutex) = 1
  BY <1>6 DEF LockInv, ServerLock
<1> QED
  BY <1>7 DEF Held

(* When stop() begins: who is accepted has an entry, or else the handler   *)
(* is about to wait for ever.                                              *)
LEMMA EarlyStop ==
  ASSUME TypeOK, LockInv, TopicsInv, BottomInv, AcceptedInv, running, do_stop
  PROVE  EarlyInv'
<1>1. /\ Does("stop", stop) /\ stop = Steps(<<"lock_server", "shutdown_all", "close", "unlock_server">>, Nil, Nil)
      /\ early' = {p \in Procs : sub[p] \in {"accepted", "cut"}} /\ sub' = sub
      /\ UNCHANGED <<mutexVars, topicVars>> /\ stop \in Seq(Step)
  BY OtherPrograms DEF do_stop, stop
<1>2. Len(stop) = 4 /\ stop[1].op = "lock_server"
  BY <1>1 DEF Steps
<1>3. 1 \in 1 .. Len(todo') /\ todo'[1].op = "lock_server"
  <2>1. \A i \in 1 .. Len(stop) : i \in 1 .. Len(todo') /\ todo'[i] = stop[i]
    BY <1>1, DoesStack DEF TypeOK
  <2>2. 1 \in 1 .. Len(stop)
    BY <1>2
  <2> QED
    BY <1>2, <2>1, <2>2
<1> SUFFICES ASSUME NEW p \in early'
             PROVE  sub'[p] = "cut" \/ (sub'[p] = "accepted" /\ Subscribed(p)') \/ Stuck'
  BY DEF EarlyInv
<1>c. p \in Procs /\ sub[p] \in {"accepted", "cut"} /\ sub'[p] = sub[p]
  BY <1>1
<1>d. CASE sub[p] = "cut"
  BY <1>c, <1>d
<1>4. SUFFICES ASSUME sub[p] = "accepted"
               PROVE  (sub'[p] = "accepted" /\ Subscribed(p)') \/ Stuck'
  BY <1>c, <1>d
<1>5. CASE Subscribed(p)
  <2>1. Subscribed(p)'
    BY <1>1, <1>5 DEF Subscribed, topicVars
  <2> QED
    BY <1>c, <1>4, <2>1
<1>6. CASE Between(p)
  <2>1. server_mutex' = "main"
    BY <1>1, <1>6, BetweenHolds DEF mutexVars
  <2>2. \A j \in 1 .. 1 - 1 : FALSE
    OBVIOUS
  <2>3. Stuck'
    BY <1>3, <2>1, <2>2 DEF Stuck
  <2> QED
    BY <2>3
<1> QED
  BY <1>c, <1>4, <1>5, <1>6 DEF AcceptedInv

(* From then on an early subscriber keeps its entry until it is told. *)
LEMMA EarlyStep ==
  ASSUME TypeOK, LockInv, TopicsInv, BottomInv, SubscribeInv, AcceptedInv, EarlyInv, [Next]_vars
  PROVE  EarlyInv'
<1>0. todo \in Seq(Step) /\ early \subseteq Procs
  BY DEF TypeOK
<1>1. CASE running /\ do_stop
  BY <1>1, EarlyStop
<1>2. CASE ~(running /\ do_stop)
  <2>1. early' = early
    BY <1>2 DEF Next, MainThread, do_stop, lock_server, unlock_server, lock_topic, unlock_topic, shutdown_all,
       shutdown_rest, respond, create, accept, attach, detach, append, shut, notify, join, read_requests,
       next_request, leave_run, exit, signal_handler, open_blocks, run_lock, run_unlock, client_request, subscribe,
       disconnect, Send, vars
  <2> SUFFICES ASSUME NEW p \in early
               PROVE  \/ sub'[p] \in {"told", "left", "cut"}
                      \/ sub'[p] = "accepted" /\ Subscribed(p)'
                      \/ Stuck'
    BY <2>1 DEF EarlyInv
  <2>2. p \in Procs /\ ~running
    BY <1>0 DEF TopicsInv, RunningInv
  <2>3. CASE Stuck
    BY <2>2, <2>3, StuckStep
  <2>4. CASE sub[p] \in {"told", "left", "cut"}
    <3>1. accept => P # p
      <4>1. ASSUME accept, P = p PROVE FALSE
        <5>1. Does("accept", <<>>) /\ Head(todo).op = "accept"
          BY <4>1 DEF accept, Does
        <5>2. PendingFor("accept", p)
          BY <1>0, <4>1, <5>1, PendingDone DEF PendingFor, P
        <5> QED
          BY <2>2, <2>4, <5>2 DEF SubscribeInv, Subscription
      <4> QED
        BY <4>1
    <3>2. next_request => ~(Head(recv_buf).op = "SUBSCRIBE" /\ Head(recv_buf).p = p)
      <4>1. ASSUME next_request, Head(recv_buf).op = "SUBSCRIBE", Head(recv_buf).p = p PROVE FALSE
        <5>1. Len(Stream) \in Nat /\ Len(Stream) >= 1 /\ Stream[1] = Head(recv_buf)
          BY <4>1, StreamTaken
        <5>2. 1 \in 1 .. Len(Stream)
          BY <5>1
        <5>3. Asks(p)
          BY <4>1, <5>1, <5>2 DEF Asks, SubscribeOf
        <5> QED
          BY <2>2, <2>4, <5>3 DEF SubscribeInv, Subscription
      <4> QED
        BY <4>1
    <3>3. sub'[p] \in {sub[p], "left"}
      <4>1. CASE accept
        BY <2>2, <3>1, <4>1 DEF accept, TypeOK
      <4>2. CASE next_request
        BY <2>2, <3>2, <4>2 DEF next_request, TypeOK
      <4>3. CASE shut
        BY <2>2, <2>4, <4>3 DEF shut, Writable, TypeOK
      <4>4. CASE client_request \/ \E q \in Procs : subscribe(q) \/ disconnect(q)
        BY <2>2, <2>4, <4>4 DEF client_request, subscribe, disconnect, TypeOK
      <4>6. CASE \E t \in Topics : run_lock(t) \/ run_unlock(t)
        BY <2>2, <2>4, <4>6 DEF run_lock, run_unlock, Writable, TypeOK
      <4>5. CASE /\ ~accept /\ ~next_request /\ ~shut /\ ~\E t \in Topics : run_lock(t) \/ run_unlock(t)
                 /\ ~(client_request \/ \E q \in Procs : subscribe(q) \/ disconnect(q))
        BY <4>5 DEF Next, MainThread, do_stop, lock_server, unlock_server, lock_topic, unlock_topic, shutdown_all,
           shutdown_rest, respond, create, attach, detach, append, notify, join, read_requests,
           leave_run, exit, signal_handler, open_blocks, vars
      <4> QED
        BY <4>1, <4>2, <4>3, <4>4, <4>5, <4>6
    <3> QED
      BY <2>4, <3>3
  <2>5. CASE sub[p] = "accepted" /\ Subscribed(p)
    <3>1. CASE shut
      <4>1. T \in Topics
        BY <3>1, HeadFacts DEF shut, TopicOps
      <4>2. PICK t \in topics : p \in entries[t] /\ ~stop_flag[t]
        BY <2>5 DEF Subscribed
      <4>3. t \in Topics
        BY <4>2 DEF TypeOK
      <4>4. CASE t = T
        <5>1. sub'[p] \in {"told", "cut"}
          BY <2>2, <2>5, <3>1, <4>2, <4>4 DEF shut, Writable
        <5> QED
          BY <5>1
      <4>5. CASE t # T
        <5>1. sub'[p] \in {"told", "cut", "accepted"}
          BY <2>2, <2>5, <3>1 DEF shut, Writable
        <5>2. p \in entries'[t] /\ ~stop_flag'[t] /\ topics' = topics
          BY <3>1, <4>1, <4>2, <4>3, <4>5 DEF shut, TypeOK
        <5>3. Subscribed(p)'
          BY <4>2, <5>2 DEF Subscribed
        <5> QED
          BY <5>1, <5>3
      <4> QED
        BY <4>4, <4>5
    <3>2. CASE OnStack /\ ~shut
      <4>1. sub'[p] = "accepted"
        <5>1. CASE accept
          <6>1. P \in Procs
            BY <5>1, HeadFacts DEF accept
          <6> QED
            BY <2>2, <2>5, <5>1, <6>1 DEF accept, TypeOK
        <5>2. CASE ~accept
          BY <2>5, <3>2, <5>2 DEF OnStack, do_stop, lock_server, unlock_server, lock_topic, unlock_topic,
             shutdown_all, shutdown_rest, respond, create, attach, detach, append, notify, join
        <5> QED
          BY <5>1, <5>2
      <4>2. detach => P # p
        <5>1. ASSUME detach, P = p PROVE FALSE
          <6>1. Does("detach", <<>>) /\ Head(todo).op = "detach"
            BY <5>1 DEF detach, Does
          <6>2. PendingFor("detach", p)
            BY <1>0, <5>1, <6>1, PendingDone DEF PendingFor, P
          <6> QED
            BY <2>2, <2>5, <6>2 DEF SubscribeInv, Subscription
        <5> QED
          BY <5>1
      <4>3. Subscribed(p)'
        BY <2>2, <2>5, <3>2, <4>2, SubscribedKept
      <4> QED
        BY <4>1, <4>3
    <3>3. CASE ~OnStack
      <4>1. UNCHANGED <<topics, stop_flag, entries>>
        BY <3>3 DEF Next, MainThread, OnStack, read_requests, next_request, leave_run, exit, signal_handler, open_blocks,
           run_lock, run_unlock, client_request, subscribe, disconnect, Send, vars, topicVars
      <4>2. Subscribed(p)'
        BY <2>5, <4>1 DEF Subscribed
      <4>3. sub'[p] \in {"accepted", "left", "cut"}
        <5>1. CASE next_request
          <6>1. /\ Len(Stream) \in Nat /\ Len(Stream) >= 1 /\ Stream[1] = Head(recv_buf)
            BY <5>1, StreamTaken
          <6>2. 1 \in 1 .. Len(Stream)
            BY <6>1
          <6>3. ~(Head(recv_buf).op = "SUBSCRIBE" /\ Head(recv_buf).p = p)
            BY <2>2, <2>5, <6>1, <6>2 DEF SubscribeInv, Subscription, Asks, SubscribeOf
          <6> QED
            BY <2>2, <2>5, <5>1, <6>3 DEF next_request, TypeOK
        <5>2. CASE client_request \/ \E q \in Procs : subscribe(q) \/ disconnect(q)
          BY <2>2, <2>5, <5>2 DEF client_request, subscribe, disconnect, TypeOK
        <5>3. CASE \E t \in Topics : run_lock(t) \/ run_unlock(t)
          BY <2>2, <2>5, <5>3 DEF run_lock, run_unlock, TypeOK
        <5>4. CASE /\ ~next_request /\ ~\E t \in Topics : run_lock(t) \/ run_unlock(t)
                   /\ ~(client_request \/ \E q \in Procs : subscribe(q) \/ disconnect(q))
          BY <2>5, <3>3, <5>4 DEF Next, MainThread, OnStack, read_requests, leave_run, exit, signal_handler,
             open_blocks, vars
        <5> QED
          BY <5>1, <5>2, <5>3, <5>4
      <4> QED
        BY <4>2, <4>3
    <3> QED
      BY <3>1, <3>2, <3>3
  <2> QED
    BY <2>3, <2>4, <2>5 DEF EarlyInv
<1> QED
  BY <1>1, <1>2
-----------------------------------------------------------------------------
(* The theorems.                                                           *)

(* At the start nothing is on the stack and nobody has asked for anything. *)
LEMMA ShutdownStarts ==
  ASSUME Init
  PROVE  ShutdownInv
<1>1. todo = <<>> /\ Len(todo) = 0 /\ todo \in Seq(Step)
  BY OtherPrograms DEF Init
<1>2. Pending = {}
  BY <1>1 DEF Pending
<1>3. inbox \in Seq(Request) /\ recv_buf \in Seq(Request) /\ Len(Stream) = 0
  <2>1. inbox = <<>> /\ recv_buf = <<>> /\ <<>> \in Seq(Request) /\ Len(<<>>) = 0
    BY EmptySeq DEF Init
  <2>2. Stream = <<>>
    BY <2>1, ConcatEmptySeq DEF Stream
  <2> QED
    BY <2>1, <2>2
<1>4. TypeOK
  BY <1>1, <1>3, ShutdownAssumption DEF Init, TypeOK
<1>5. LockInv
  <2>1. \A U, L : Closed(todo, U, L) /\ Level(todo, U, L, 1) = 0
    <3>1. \A i \in 1 .. Len(todo) : FALSE
      BY <1>1
    <3> QED
      BY <1>1, <3>1, NoSection
  <2>2. Held("free") = 0
    BY DEF Held
  <2> QED
    BY <2>1, <2>2 DEF Init, LockInv, ServerLock, TopicLock
<1>6. TopicInv
  BY <1>2, ShutdownAssumption DEF Init, TopicInv
<1>7. LeavingInv /\ JoinInv /\ RunningInv
  BY <1>2 DEF Init, LeavingInv, JoinInv, RunningInv
<1>8. SubscribeInv
  <2>1. \A i \in 1 .. Len(Stream) : FALSE
    BY <1>3
  <2> QED
    BY <1>2, <2>1 DEF SubscribeInv, Subscription, AsksOnce, Asks, Leaves, PendingFor
<1>9. BottomInv
  <2>1. \A i \in 1 .. Len(todo) : FALSE
    BY <1>1
  <2> QED
    BY <2>1 DEF BottomInv
<1>10. AcceptedInv /\ EarlyInv
  BY DEF Init, AcceptedInv, EarlyInv
<1> QED
  BY <1>4, <1>5, <1>6, <1>7, <1>8, <1>9, <1>10 DEF ShutdownInv

(* The inductive invariant of the termination: what is to be unlocked is   *)
(* what is held, which topics are doomed, joined and running, where a      *)
(* subscription is, and who stop() found subscribed.                       *)
THEOREM ShutdownInvariance == Spec => []ShutdownInv
<1>1. Init => ShutdownInv
  BY ShutdownStarts
<1>2. ShutdownInv /\ [Next]_vars => ShutdownInv'
  <2> SUFFICES ASSUME ShutdownInv, [Next]_vars PROVE ShutdownInv'
    OBVIOUS
  <2>1. /\ TypeOK /\ LockInv /\ TopicInv /\ TopicsInv
        /\ SubscribeInv /\ BottomInv /\ AcceptedInv /\ EarlyInv
    BY DEF ShutdownInv, TopicsInv
  <2>2. TypeOK' /\ LockInv'
    BY <2>1, TypeStep, LockStep
  <2>3. TopicsInv'
    BY <2>1, TopicsStep
  <2>4. SubscribeInv' /\ BottomInv'
    BY <2>1, SubscribeStep, BottomStep
  <2>5. AcceptedInv' /\ EarlyInv'
    BY <2>1, AcceptedStep, EarlyStep
  <2> QED
    BY <2>2, <2>3, <2>4, <2>5 DEF ShutdownInv, TopicsInv
<1> QED
  BY <1>1, <1>2, PTL DEF Spec

(* Types, and: a worker holds the mutex of its topic exactly in a pass.    *)
THEOREM ShutdownTypes == Spec => []TypeOK
<1>1. ShutdownInv => TypeOK
  BY DEF ShutdownInv
<1> QED
  BY <1>1, ShutdownInvariance, PTL

(* When the process ends every topic is stopped and its worker joined, the *)
(* topics that a request created after stop() included.                    *)
THEOREM WorkersAreJoined == Spec => []AllJoined
<1>1. ShutdownInv => AllJoined
  <2> SUFFICES ASSUME ShutdownInv, main = "exited", NEW t \in topics PROVE worker[t] = "done"
    BY DEF AllJoined
  <2>1. todo = <<>> /\ t \in Topics /\ Doomed(t)
    BY DEF ShutdownInv, LeavingInv, TypeOK
  <2>2. Pending = {}
    BY <2>1 DEF Pending
  <2>3. stop_flag[t]
    BY <2>1, <2>2 DEF Doomed, PendingOf
  <2> QED
    BY <2>1, <2>2, <2>3 DEF ShutdownInv, JoinInv, PendingOf
<1> QED
  BY <1>1, ShutdownInvariance, PTL

(* When the process ends, whoever was subscribed when stop() began has     *)
(* been written the sentinel or has left, or a write to its pipe has       *)
(* failed: nobody is forgotten for another reason, neither an entry made   *)
(* while the signal came nor one on a topic the loop came to last.  A      *)
(* handler that interrupts a subscription between acceptance and           *)
(* attachment never gets there: it waits for the mutex of the request      *)
(* below it.                                                               *)
THEOREM EarlySubscribersAreTold == Spec => []SubscribersAreTold
<1>1. ShutdownInv => SubscribersAreTold
  <2> SUFFICES ASSUME ShutdownInv, main = "exited", NEW p \in early PROVE sub[p] \in {"told", "left", "cut"}
    BY DEF SubscribersAreTold
  <2>1. todo = <<>> /\ todo \in Seq(Step) /\ \A t \in topics : Doomed(t)
    BY DEF ShutdownInv, LeavingInv, TypeOK
  <2>2. Pending = {}
    BY <2>1 DEF Pending
  <2>3. ~Subscribed(p)
    BY <2>1, <2>2 DEF Subscribed, Doomed, PendingOf
  <2>4. ~Stuck
    BY <2>1, StuckTop
  <2> QED
    BY <2>3, <2>4 DEF ShutdownInv, EarlyInv
<1> QED
  BY <1>1, ShutdownInvariance, PTL
=============================================================================
