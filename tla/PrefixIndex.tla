----------------------------- MODULE PrefixIndex -----------------------------
(***************************************************************************)
(* What the PrefixTree (data_structures/PrefixTree.hpp) promises the       *)
(* topics: a bag of (prefix, client) registrations that a message key can  *)
(* be matched against.  An index maps every prefix to the number of times  *)
(* each client is registered under it.  The trie itself, with its nodes,   *)
(* its pruning and its counter, is in PrefixTree.tla, which implements     *)
(* these operators.                                                        *)
(***************************************************************************)
EXTENDS Naturals, Sequences
SE == INSTANCE SequencesExt

CONSTANTS
  Clients,     \* subscriber names
  PrefixSet,   \* key prefixes: sequences of characters, <<>> is the wildcard
  Keys         \* message keys: sequences of characters

Indexes == [PrefixSet -> [Clients -> Nat]]

(* clear(): no registration is left. *)
EmptyIndex == [pre \in PrefixSet |-> [c \in Clients |-> 0]]

(* insert(): one more registration; an identical one is not detected. *)
insert(t, pre, c) == [t EXCEPT ![pre][c] = @ + 1]

(* remove(): one registration less, none when there is none to remove. *)
remove(t, pre, c) ==
  [t EXCEPT ![pre][c] = IF @ > 0 THEN @ - 1 ELSE 0]

(* Mutant: every registration is collected, on the branch or not. *)
MatchesAnyKey(pre, key) == TRUE

(* A key is routed to every prefix it starts with. *)
Matches(pre, key) == SE!IsPrefix(pre, key)

(* match(): the clients registered under a prefix of the key. *)
match(t, key) ==
  {c \in Clients : \E pre \in PrefixSet : Matches(pre, key) /\ t[pre][c] > 0}
=============================================================================
