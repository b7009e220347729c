----------------------------- MODULE PrefixTree ------------------------------
(***************************************************************************)
(* The routing trie of a topic (data_structures/PrefixTree.cpp).  A node   *)
(* is named by the path of characters that leads to it, so a trie maps the *)
(* paths it has nodes for to the subscriber list of the node, and the      *)
(* children of a node are the nodes one character below.                   *)
(*                                                                         *)
(* Beside every trie, registered is what PrefixIndex makes of the same     *)
(* calls: the reference its answers are held against.                      *)
(***************************************************************************)
EXTENDS Integers, Sequences, FiniteSets
SE == INSTANCE SequencesExt

CONSTANTS
  Clients, PrefixSet, Keys,   \* as in PrefixIndex
  Trees,                      \* trie objects
  MaxRegistrations            \* bound on the registrations of one trie

ASSUME PrefixTreeAssumption ==
  /\ PrefixSet \subseteq Seq(STRING) /\ Keys \subseteq Seq(STRING)
  /\ MaxRegistrations \in Nat

Index == INSTANCE PrefixIndex

VARIABLES
  root,               \* per trie: its nodes and their subscriber lists
  subscriber_count_,  \* per trie: size_t
  registered          \* per trie: the reference index

vars == <<root, subscriber_count_, registered>>

(* The nodes on the way from the root to path. *)
Branch(path) == {SubSeq(path, 1, k) : k \in 0 .. Len(path)}
Paths == {<<>>} \cup UNION {Branch(pre) : pre \in PrefixSet}

TypeOK ==
  \A x \in Trees :
    /\ <<>> \in DOMAIN root[x] /\ DOMAIN root[x] \subseteq Paths
    /\ \A q \in DOMAIN root[x] : root[x][q] \in Seq(Clients)
    /\ subscriber_count_[x] \in Nat
    /\ registered[x] \in Index!Indexes

EmptyNode == [q \in {<<>>} |-> <<>>]

Init ==
  /\ root = [x \in Trees |-> EmptyNode]
  /\ subscriber_count_ = [x \in Trees |-> 0]
  /\ registered = [x \in Trees |-> Index!EmptyIndex]
-----------------------------------------------------------------------------
(* The list at a path; a new node has none. *)
At(nodes, q) == IF q \in DOMAIN nodes THEN nodes[q] ELSE <<>>

(* The missing nodes of the branch are made, the last one gets the client. *)
Inserted(nodes, prefix, c) ==
  [q \in DOMAIN nodes \cup Branch(prefix) |->
     IF q = prefix THEN Append(At(nodes, q), c) ELSE At(nodes, q)]

insert(x, prefix, c) ==
  /\ subscriber_count_[x] < MaxRegistrations
  /\ root' = [root EXCEPT ![x] = Inserted(@, prefix, c)]
  /\ subscriber_count_' = [subscriber_count_ EXCEPT ![x] = @ + 1]
  /\ registered' = [registered EXCEPT ![x] = Index!insert(@, prefix, c)]

HasChildren(nodes, q) ==
  \E r \in DOMAIN nodes : Len(r) = Len(q) + 1 /\ SE!IsPrefix(q, r)

(* Mutant: a node without subscribers goes, with all that is below it. *)
DeadIfEmpty(nodes, q) == q # <<>> /\ nodes[q] = <<>>

(* Neither subscribers nor children; the root always stays. *)
Dead(nodes, q) ==
  q # <<>> /\ nodes[q] = <<>> /\ ~HasChildren(nodes, q)

(* Mutant: only the node itself is looked at. *)
PruneOnce(nodes, prefix) ==
  IF Dead(nodes, prefix)
  THEN [r \in DOMAIN nodes \ {prefix} |-> nodes[r]] ELSE nodes

(* A dead node goes, with what is below it. *)
EraseDead(nodes, q) ==
  IF Dead(nodes, q)
  THEN [r \in {s \in DOMAIN nodes : ~SE!IsPrefix(q, s)} |-> nodes[r]] ELSE nodes

(* The loop that climbs from the node at prefix to the root and erases the *)
(* nodes that are dead by then (a node that stays keeps its ancestors).    *)
Prune(nodes, prefix) ==
  LET climb[k \in 0 .. Len(prefix)] ==
        IF k = 0 THEN nodes
        ELSE EraseDead(climb[k - 1], SubSeq(prefix, 1, Len(prefix) + 1 - k))
  IN  climb[Len(prefix)]

Registered(x, prefix, c) ==
  prefix \in DOMAIN root[x] /\ SE!Contains(root[x][prefix], c)

(* The first occurrence of the client goes, then what is dead of the branch. *)
Removed(nodes, prefix, c) ==
  Prune([nodes EXCEPT ![prefix] = SE!RemoveFirst(@, c)], prefix)

(* No branch or no occurrence, and remove() returns false without a change. *)
remove(x, prefix, c) ==
  /\ IF Registered(x, prefix, c)
     THEN /\ root' = [root EXCEPT ![x] = Removed(@, prefix, c)]
          /\ subscriber_count_' = [subscriber_count_ EXCEPT ![x] = @ - 1]
     ELSE UNCHANGED <<root, subscriber_count_>>
  /\ registered' = [registered EXCEPT ![x] = Index!remove(@, prefix, c)]

clear(x) ==
  /\ root' = [root EXCEPT ![x] = EmptyNode]
  /\ subscriber_count_' = [subscriber_count_ EXCEPT ![x] = 0]
  /\ registered' = [registered EXCEPT ![x] = Index!EmptyIndex]

(* Mutant: the trie that was moved from keeps its counter. *)
move_KeepsCount(x, y) ==
  /\ x # y
  /\ root' = [root EXCEPT ![x] = root[y], ![y] = EmptyNode]
  /\ subscriber_count_' = [subscriber_count_ EXCEPT ![x] = subscriber_count_[y]]
  /\ registered' = [registered EXCEPT ![x] = registered[y],
                                      ![y] = Index!EmptyIndex]

(* Move construction or assignment from y to another trie x. *)
move(x, y) ==
  /\ x # y
  /\ root' = [root EXCEPT ![x] = root[y], ![y] = EmptyNode]
  /\ subscriber_count_' = [subscriber_count_ EXCEPT ![x] = subscriber_count_[y],
                                                    ![y] = 0]
  /\ registered' = [registered EXCEPT ![x] = registered[y],
                                      ![y] = Index!EmptyIndex]

(* The walk along the key collects the lists it passes and ends at the     *)
(* first character there is no branch for.                                 *)
match(x, key) ==
  LET depth == CHOOSE k \in 0 .. Len(key) :
                 /\ Branch(SubSeq(key, 1, k)) \subseteq DOMAIN root[x]
                 /\ k < Len(key) => SubSeq(key, 1, k + 1) \notin DOMAIN root[x]
  IN  SE!FlattenSeq([i \in 1 .. depth + 1 |-> root[x][SubSeq(key, 1, i - 1)]])

Next ==
  \E x \in Trees :
    \/ \E prefix \in PrefixSet, c \in Clients :
         insert(x, prefix, c) \/ remove(x, prefix, c)
    \/ clear(x)
    \/ \E y \in Trees : move(x, y)

Spec == Init /\ [][Next]_vars
-----------------------------------------------------------------------------
(* Correctness.                                                            *)

(* The registrations of a trie; equal ones are told apart by a number. *)
Registrations(x) ==
  UNION {{<<e, i>> : i \in 1 .. registered[x][e[1]][e[2]]} : e \in PrefixSet \X Clients}

Occurrences(s, c) == Cardinality({i \in DOMAIN s : s[i] = c})

(* PrefixTree::match returns every client once per registration under a    *)
(* prefix of the key and nobody else, however the nodes it passes were     *)
(* created, shared, pruned or moved: what Topic relies on as PrefixIndex.  *)
MatchesReference ==
  \A x \in Trees, key \in Keys, c \in Clients :
    Occurrences(match(x, key), c) =
      Cardinality({r \in Registrations(x) : r[1][2] = c /\ Index!Matches(r[1][1], key)})

(* PrefixTree.hpp:38: remove() prunes.  Every node but the root leads to a *)
(* subscriber, so that churn does not grow the trie.                       *)
NoDeadNodes ==
  \A x \in Trees : \A q \in DOMAIN root[x] \ {<<>>} :
    \E r \in DOMAIN root[x] : SE!IsPrefix(q, r) /\ root[x][r] # <<>>

(* subscriber_count() is the number of registrations, through failed       *)
(* removals, clear() and moves; it never wraps below zero.                 *)
CountExact ==
  \A x \in Trees : subscriber_count_[x] = Cardinality(Registrations(x))
=============================================================================
