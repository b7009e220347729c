------------------------------- MODULE HashMap -------------------------------
(***************************************************************************)
(* The hash table of the broker (data_structures/HashMap.hpp): separate    *)
(* chaining, doubling when the load factor would pass its maximum.  Every  *)
(* table of the server and every node of the prefix tree is one.           *)
(*                                                                         *)
(* Beside every map, table is the function it stands for.  The iterator is *)
(* that of a range-for loop: Topic::run, Server::stop and LIST go through  *)
(* a map while they change values in it, but not its keys.                 *)
(*                                                                         *)
(* Load factors are compared as fractions; the floats of the code give the *)
(* same answers for tables of less than 2^22 elements.                     *)
(***************************************************************************)
EXTENDS Integers, Sequences, FiniteSets
SE == INSTANCE SequencesExt

CONSTANTS
  Key, Value,         \* the template parameters
  Default,            \* Value{}
  Lists,              \* initializer lists: sequences of entries
  Maps,               \* map objects
  Nil,
  HashBound,          \* hash values are below it
  InitialCapacity,    \* 16
  LoadNum, LoadDen,   \* max_load_factor_: 3 / 4
  MaxBuckets          \* bound on the growth of the bucket vector

(* From a factor of one half on, one doubling makes room for one more. *)
ASSUME HashMapAssumption ==
  /\ Lists \subseteq Seq(Key \X Value)
  /\ Default \in Value /\ Nil \notin Maps \cup Value
  /\ {HashBound, InitialCapacity, LoadNum, LoadDen, MaxBuckets} \subseteq Nat \ {0}
  /\ 2 * LoadNum >= LoadDen

VARIABLES
  hasher_,   \* the hash function, any one
  map,       \* per map object: its buckets and its size
  it,        \* the iterator of the loop under way, or Nil
  visited,   \* the keys that loop has been given
  table      \* per map object: the function it should be

vars == <<hasher_, map, it, visited, table>>

Entry == Key \X Value

TypeOK ==
  /\ hasher_ \in [Key -> 0 .. HashBound - 1]
  /\ \A x \in Maps :
       /\ map[x].buckets_ \in Seq(Seq(Entry)) /\ Len(map[x].buckets_) > 0
       /\ map[x].num_elements_ \in Nat
       /\ DOMAIN table[x] \subseteq Key /\ table[x] \in [DOMAIN table[x] -> Value]
  /\ it # Nil => it.map \in Maps /\ it.bucket_idx_ \in Nat /\ it.list_it_ \in Nat
  /\ visited \in Seq(Key)

Empty(n) == [buckets_ |-> [i \in 1 .. n |-> <<>>], num_elements_ |-> 0]
EmptyTable == [k \in {} |-> Default]

Init ==
  /\ hasher_ \in [Key -> 0 .. HashBound - 1]
  /\ map = [x \in Maps |-> Empty(InitialCapacity)]
  /\ it = Nil /\ visited = <<>>
  /\ table = [x \in Maps |-> EmptyTable]
-----------------------------------------------------------------------------
(* What the methods make of a map m.                                       *)

bucket_count(m) == Len(m.buckets_)

(* The bucket of a key among n buckets, counted from 1. *)
get_index(k, n) == 1 + (hasher_[k] % n)

Chain(m, k) == m.buckets_[get_index(k, bucket_count(m))]

(* The position of a key in its chain; 0 for nullptr. *)
find_entry(m, k) == SE!SelectInSeq(Chain(m, k), LAMBDA e : e[1] = k)

(* find, contains and at: the value, or Nil for nullptr and out_of_range. *)
find(m, k) == IF find_entry(m, k) = 0 THEN Nil ELSE Chain(m, k)[find_entry(m, k)][2]

Entries(m) == SE!FlattenSeq(m.buckets_)

(* Every entry, one after the other, goes to the end of its new chain. *)
new_buckets(entries, n) ==
  LET filled[i \in 0 .. Len(entries)] ==
        IF i = 0 THEN Empty(n).buckets_
        ELSE [filled[i - 1] EXCEPT ![get_index(entries[i][1], n)] = Append(@, entries[i])]
  IN  filled[Len(entries)]

rehash(m, n) == [m EXCEPT !.buckets_ = new_buckets(Entries(m), n)]

(* Mutant: the element to come is not counted. *)
OverloadedWithout(m) == m.num_elements_ * LoadDen > LoadNum * bucket_count(m)

(* One more element would exceed max_load_factor_. *)
Overloaded(m) == (m.num_elements_ + 1) * LoadDen > LoadNum * bucket_count(m)

Grown(m) == IF Overloaded(m) THEN rehash(m, 2 * bucket_count(m)) ELSE m

Emplaced(m, idx, k, v) ==
  [m EXCEPT !.buckets_[idx] = Append(@, <<k, v>>), !.num_elements_ = @ + 1]

safe_insert(m, k, v) ==
  Emplaced(Grown(m), get_index(k, bucket_count(Grown(m))), k, v)

insert(m, k, v) == IF find_entry(m, k) # 0 THEN m ELSE safe_insert(m, k, v)

replace(m, k, v) ==
  [m EXCEPT !.buckets_[get_index(k, bucket_count(m))][find_entry(m, k)] = <<k, v>>]

insert_or_assign(m, k, v) ==
  IF find_entry(m, k) # 0 THEN replace(m, k, v) ELSE safe_insert(m, k, v)

(* Mutant: the index from before the rehash is used after it. *)
subscript_StaleIndex(m, k) ==
  IF find_entry(m, k) # 0 THEN m
  ELSE Emplaced(Grown(m), get_index(k, bucket_count(m)), k, Default)

(* operator[]: the index is computed again if the table has grown. *)
subscript(m, k) ==
  IF find_entry(m, k) # 0 THEN m
  ELSE Emplaced(Grown(m), get_index(k, bucket_count(Grown(m))), k, Default)

(* ceil(count / max_load_factor_). *)
RequiredBuckets(count) == (count * LoadDen + LoadNum - 1) \div LoadNum

reserve(m, count) ==
  IF RequiredBuckets(count) > bucket_count(m) THEN rehash(m, RequiredBuckets(count)) ELSE m

(* insert of a list or a range: keys that are there keep their values. *)
insert_list(m, list) ==
  LET filled[i \in 0 .. Len(list)] ==
        IF i = 0 THEN reserve(m, m.num_elements_ + Len(list))
        ELSE insert(filled[i - 1], list[i][1], list[i][2])
  IN  filled[Len(list)]

(* The constructor from a list; capacity as calculate_initial_capacity. *)
construct(list) ==
  LET capacity == RequiredBuckets(Len(list))
  IN  insert_list(Empty(IF capacity > InitialCapacity THEN capacity ELSE InitialCapacity), list)

erase(m, k) ==
  IF find_entry(m, k) = 0 THEN m
  ELSE [m EXCEPT !.buckets_[get_index(k, bucket_count(m))] = SE!RemoveAt(@, find_entry(m, k)),
                 !.num_elements_ = @ - 1]

clear(m) == Empty(bucket_count(m))

(* Mutant: the map that was moved from keeps its size. *)
moved_from_KeepsSize(m) == [Empty(1) EXCEPT !.num_elements_ = m.num_elements_]

(* What a move leaves behind: buckets_.resize(1) of the emptied vector. *)
moved_from(m) == Empty(1)
-----------------------------------------------------------------------------
(* The calls.  None changes the keys of a map that a loop goes through.    *)

NotIterated(x) == it # Nil => it.map # x

Put(f, k, v) == [j \in DOMAIN f \cup {k} |-> IF j = k THEN v ELSE f[j]]
PutNew(f, k, v) == IF k \in DOMAIN f THEN f ELSE Put(f, k, v)

Change(x, m, f) ==
  /\ bucket_count(m) <= MaxBuckets
  /\ map' = [map EXCEPT ![x] = m]
  /\ table' = [table EXCEPT ![x] = f]
  /\ UNCHANGED <<hasher_, it, visited>>

Insert(x, k, v) ==
  NotIterated(x) /\ Change(x, insert(map[x], k, v), PutNew(table[x], k, v))

InsertOrAssign(x, k, v) ==
  /\ find_entry(map[x], k) = 0 => NotIterated(x)
  /\ Change(x, insert_or_assign(map[x], k, v), Put(table[x], k, v))

Subscript(x, k) ==
  NotIterated(x) /\ Change(x, subscript(map[x], k), PutNew(table[x], k, Default))

PutList(f, list) ==
  LET put[i \in 0 .. Len(list)] ==
        IF i = 0 THEN f ELSE PutNew(put[i - 1], list[i][1], list[i][2])
  IN  put[Len(list)]

InsertList(x, list) ==
  NotIterated(x) /\ Change(x, insert_list(map[x], list), PutList(table[x], list))

Construct(x, list) ==
  NotIterated(x) /\ Change(x, construct(list), PutList(EmptyTable, list))

Reserve(x, count) == NotIterated(x) /\ Change(x, reserve(map[x], count), table[x])

Erase(x, k) ==
  /\ NotIterated(x)
  /\ Change(x, erase(map[x], k), [j \in DOMAIN table[x] \ {k} |-> table[x][j]])

Clear(x) == NotIterated(x) /\ Change(x, clear(map[x]), EmptyTable)

(* Construction or assignment from y. *)
Copy(x, y) == NotIterated(x) /\ Change(x, map[y], table[y])

Move(x, y) ==
  /\ x # y /\ NotIterated(x) /\ NotIterated(y)
  /\ map' = [map EXCEPT ![x] = map[y], ![y] = moved_from(map[y])]
  /\ table' = [table EXCEPT ![x] = table[y], ![y] = EmptyTable]
  /\ UNCHANGED <<hasher_, it, visited>>
-----------------------------------------------------------------------------
(* A range-for loop: begin(), operator++ until it equals end().            *)

(* The iterator at the first entry from bucket idx on; past the last       *)
(* bucket it equals end().                                                 *)
advance_to_next_valid_bucket(x, idx) ==
  LET buckets == map[x].buckets_
      valid == {i \in idx .. Len(buckets) : buckets[i] # <<>>}
  IN  [map |-> x, list_it_ |-> 1,
       bucket_idx_ |-> IF valid = {} THEN Len(buckets) + 1
                       ELSE CHOOSE i \in valid : \A j \in valid : i <= j]

AtEnd == it.bucket_idx_ > bucket_count(map[it.map])

begin(x) ==
  /\ it = Nil
  /\ it' = advance_to_next_valid_bucket(x, 1) /\ visited' = <<>>
  /\ UNCHANGED <<hasher_, map, table>>

(* Mutant: the next bucket, whatever is left of the chain. *)
Incremented_SkipsChain == advance_to_next_valid_bucket(it.map, it.bucket_idx_ + 1)

(* operator++. *)
Incremented ==
  IF it.list_it_ < Len(map[it.map].buckets_[it.bucket_idx_])
  THEN [it EXCEPT !.list_it_ = @ + 1]
  ELSE advance_to_next_valid_bucket(it.map, it.bucket_idx_ + 1)

(* The body of the loop is given an entry, and operator++ follows. *)
iterate ==
  /\ it # Nil /\ ~AtEnd
  /\ visited' = Append(visited, map[it.map].buckets_[it.bucket_idx_][it.list_it_][1])
  /\ it' = Incremented
  /\ UNCHANGED <<hasher_, map, table>>

leave_loop ==
  /\ it # Nil /\ AtEnd
  /\ it' = Nil /\ visited' = <<>>
  /\ UNCHANGED <<hasher_, map, table>>

Next ==
  \/ \E x \in Maps :
       \/ \E k \in Key, v \in Value : Insert(x, k, v) \/ InsertOrAssign(x, k, v)
       \/ \E k \in Key : Subscript(x, k) \/ Erase(x, k)
       \/ \E list \in Lists : InsertList(x, list) \/ Construct(x, list)
       \/ \E count \in 0 .. MaxBuckets : Reserve(x, count)
       \/ Clear(x) \/ begin(x)
       \/ \E y \in Maps : Move(x, y) \/ Copy(x, y)
  \/ iterate
  \/ leave_loop

Spec == Init /\ [][Next]_vars
-----------------------------------------------------------------------------
(* Correctness.                                                            *)

(* HashMap::find returns the value last stored under a key, and nullptr    *)
(* for the others, through every rehash, erasure, move and copy and        *)
(* whatever the hash function: what the other modules assume of a table.   *)
FindExact ==
  \A x \in Maps, k \in Key :
    find(map[x], k) = IF k \in DOMAIN table[x] THEN table[x][k] ELSE Nil

(* size() is the number of keys, and no chain holds a second entry of one, *)
(* through refused insertions, erasures and moves.                         *)
SizeExact ==
  \A x \in Maps :
    /\ map[x].num_elements_ = Cardinality(DOMAIN table[x])
    /\ map[x].num_elements_ = Len(Entries(map[x]))

(* README, Dynamic Resizing: the load factor never exceeds its maximum,    *)
(* not even in a map that was moved from and starts with a single bucket.  *)
LoadBounded ==
  \A x \in Maps : map[x].num_elements_ * LoadDen <= LoadNum * bucket_count(map[x])

(* A loop over a map is given every key once, also when its body assigns   *)
(* values (Topic::run), and has been given all of them when it ends.       *)
LoopCoversMap ==
  it # Nil =>
    /\ \A i, j \in DOMAIN visited : i # j => visited[i] # visited[j]
    /\ SE!ToSet(visited) \subseteq DOMAIN table[it.map]
    /\ AtEnd => SE!ToSet(visited) = DOMAIN table[it.map]
=============================================================================
