---------------------------- MODULE HashMapProofs ----------------------------
(***************************************************************************)
(* What TLAPS proves about HashMap: for all keys, values and maps, every   *)
(* hash function, every capacity and every load factor from one half on.   *)
(*                                                                         *)
(* The argument is about chains.  A chain represents a part of a table:    *)
(* the keys K of the function f, each once and with its value.  In a map   *)
(* every bucket represents the keys that are hashed to it, and what the    *)
(* methods do to one chain keeps it so.                                    *)
(***************************************************************************)
EXTENDS HashMap, DataInduction, FiniteSetTheorems

(* The keys K of the table f, each in one entry of the chain c. *)
Represents(c, f, K) ==
  /\ c \in Seq(Entry)
  /\ \A i \in 1 .. Len(c) : c[i][1] \in K /\ c[i][2] = f[c[i][1]]
  /\ \A i, j \in 1 .. Len(c) : c[i][1] = c[j][1] => i = j
  /\ \A k \in K : \E i \in 1 .. Len(c) : c[i][1] = k
-----------------------------------------------------------------------------
(* Chains.                                                                 *)

(* An empty chain has no keys. *)
LEMMA EmptyChain == ASSUME NEW f PROVE Represents(<<>>, f, {})
BY DEF Represents

(* Only the values of the chain's own keys matter. *)
LEMMA ChainAgrees ==
  ASSUME NEW c, NEW f, NEW g, NEW K, Represents(c, f, K), \A k \in K : g[k] = f[k]
  PROVE  Represents(c, g, K)
BY DEF Represents

(* emplace_back of a key that is not there. *)
LEMMA ChainAppend ==
  ASSUME NEW c, NEW f, NEW K, Represents(c, f, K),
         NEW k \in Key, k \notin K, NEW v \in Value, f[k] = v
  PROVE  Represents(Append(c, <<k, v>>), f, K \cup {k})
<1> DEFINE e == <<k, v>>
           d == Append(c, e)
           n == Len(c)
<1>0. c \in Seq(Entry) /\ n \in Nat
  BY DEF Represents
<1>1. e \in Entry /\ e[1] = k /\ e[2] = v
  BY DEF Entry
<1> HIDE DEF e
<1>2. /\ d \in Seq(Entry) /\ Len(d) = n + 1 /\ d[n + 1] = e
      /\ \A i \in 1 .. n : d[i] = c[i]
  BY <1>0, <1>1, AppendProperties
<1> HIDE DEF d
<1>3. \A i \in 1 .. n + 1 : i \in 1 .. n \/ i = n + 1
  BY <1>0
<1>4. \A i \in 1 .. n : i \in 1 .. n + 1 /\ n + 1 \in 1 .. n + 1
  BY <1>0
<1>4a. n + 1 \in 1 .. n + 1
  BY <1>0
<1>5. \A i \in 1 .. n : c[i][1] \in K /\ c[i][2] = f[c[i][1]]
  BY DEF Represents
<1>6. \A i, j \in 1 .. n : c[i][1] = c[j][1] => i = j
  BY DEF Represents
<1>7. \A l \in K : \E i \in 1 .. n : c[i][1] = l
  BY DEF Represents
<1> HIDE DEF n
<1>8. \A i \in 1 .. n + 1 : d[i][1] \in K \cup {k} /\ d[i][2] = f[d[i][1]]
  BY <1>1, <1>2, <1>3, <1>5
<1>9. \A i, j \in 1 .. n + 1 : d[i][1] = d[j][1] => i = j
  BY <1>1, <1>2, <1>3, <1>5, <1>6
<1>10. \A l \in K \cup {k} : \E i \in 1 .. n + 1 : d[i][1] = l
  BY <1>1, <1>2, <1>4, <1>4a, <1>7
<1>11. Represents(d, f, K \cup {k})
  BY <1>2, <1>8, <1>9, <1>10 DEF Represents
<1> QED
  BY <1>11 DEF d, e

(* A part of a chain. *)
LEMMA ChainPart ==
  ASSUME NEW c \in Seq(Entry), NEW l \in Int, NEW r \in Int, 1 <= l, l <= r + 1, r <= Len(c)
  PROVE  /\ SubSeq(c, l, r) \in Seq(Entry) /\ Len(SubSeq(c, l, r)) = (r - l) + 1
         /\ \A i \in 1 .. (r - l) + 1 : SubSeq(c, l, r)[i] = c[l + i - 1]
<1>1. \A i \in l .. r : c[i] \in Entry
  OBVIOUS
<1> QED
  BY <1>1, SubSeqProperties

(* bucket.erase: the entry at p goes, the ones after it move up. *)
LEMMA RemovedAt ==
  ASSUME NEW c \in Seq(Entry), NEW p \in 1 .. Len(c)
  PROVE  LET d == SE!RemoveAt(c, p) IN
         /\ d \in Seq(Entry) /\ Len(d) = Len(c) - 1
         /\ \A i \in 1 .. Len(c) - 1 : d[i] = IF i < p THEN c[i] ELSE c[i + 1]
<1> DEFINE n == Len(c)
           a == SubSeq(c, 1, p - 1)
           b == SubSeq(c, p + 1, n)
           d == a \o b
<1>0. n \in Nat /\ p \in Nat /\ 1 <= p /\ p <= n
  OBVIOUS
<1>1. a \in Seq(Entry) /\ Len(a) = p - 1
  <2>1. p - 1 \in Int /\ 1 <= (p - 1) + 1 /\ p - 1 <= n /\ 1 \in Int /\ 1 <= 1
    BY <1>0
  <2> QED
    BY <2>1, ChainPart
<1>1a. \A i \in 1 .. p - 1 : a[i] = c[i]
  <2>1. p - 1 \in Int /\ 1 <= (p - 1) + 1 /\ p - 1 <= n /\ 1 \in Int /\ 1 <= 1
    BY <1>0
  <2> QED
    BY <2>1, ChainPart
<1>2. b \in Seq(Entry) /\ Len(b) = n - p
  <2>1. p + 1 \in Int /\ 1 <= p + 1 /\ p + 1 <= n + 1 /\ n \in Int /\ n <= n
    BY <1>0
  <2> QED
    BY <2>1, <1>0, ChainPart
<1>2a. \A i \in 1 .. n - p : b[i] = c[p + i]
  <2>1. p + 1 \in Int /\ 1 <= p + 1 /\ p + 1 <= n + 1 /\ n \in Int /\ n <= n
    BY <1>0
  <2> QED
    BY <2>1, <1>0, ChainPart
<1>3. d = SE!RemoveAt(c, p)
  BY Zenon DEF SE!RemoveAt
<1> HIDE DEF a, b
<1>4. /\ d \in Seq(Entry) /\ Len(d) = Len(a) + Len(b)
      /\ \A i \in 1 .. Len(a) + Len(b) : d[i] = IF i <= Len(a) THEN a[i] ELSE b[i - Len(a)]
  BY <1>1, <1>2, ConcatProperties
<1> HIDE DEF d, n
<1>5. \A i \in 1 .. n - 1 : d[i] = IF i < p THEN c[i] ELSE c[i + 1]
  <2> SUFFICES ASSUME NEW i \in 1 .. n - 1 PROVE d[i] = IF i < p THEN c[i] ELSE c[i + 1]
    OBVIOUS
  <2>1. d[i] = IF i <= p - 1 THEN a[i] ELSE b[i - (p - 1)]
    BY <1>0, <1>1, <1>2, <1>4
  <2>2. CASE i < p
    BY <2>1, <2>2, <1>0, <1>1a
  <2>3. CASE ~(i < p)
    <3>1. i - (p - 1) \in 1 .. n - p /\ p + (i - (p - 1)) = i + 1 /\ ~(i <= p - 1)
      BY <2>3, <1>0
    <3> QED
      BY <2>1, <2>3, <3>1, <1>2a
  <2> QED
    BY <2>2, <2>3
<1>6. Len(d) = n - 1
  BY <1>0, <1>1, <1>2, <1>4
<1> QED
  BY <1>3, <1>4, <1>5, <1>6 DEF n

(* An erased key is not represented any more, the others are. *)
LEMMA ChainRemove ==
  ASSUME NEW c, NEW f, NEW K, Represents(c, f, K), NEW p \in 1 .. Len(c)
  PROVE  Represents(SE!RemoveAt(c, p), f, K \ {c[p][1]})
<1> DEFINE n == Len(c)
           d == SE!RemoveAt(c, p)
           k == c[p][1]
           from(i) == IF i < p THEN i ELSE i + 1
<1>0. c \in Seq(Entry) /\ n \in Nat /\ p \in 1 .. n
  BY DEF Represents
<1>4. /\ d \in Seq(Entry) /\ Len(d) = n - 1
      /\ \A i \in 1 .. n - 1 : d[i] = IF i < p THEN c[i] ELSE c[i + 1]
  BY <1>0, RemovedAt
<1>7. \A i \in 1 .. n : c[i][1] \in K /\ c[i][2] = f[c[i][1]]
  BY DEF Represents
<1>8. \A i, j \in 1 .. n : c[i][1] = c[j][1] => i = j
  BY DEF Represents
<1>9. \A l \in K : \E i \in 1 .. n : c[i][1] = l
  BY DEF Represents
<1> HIDE DEF d, n
<1>5. \A i \in 1 .. n - 1 : from(i) \in 1 .. n /\ from(i) # p /\ d[i] = c[from(i)]
  BY <1>0, <1>4
<1>5a. \A i, j \in 1 .. n - 1 : from(i) = from(j) => i = j
  BY <1>0
<1>6. \A j \in 1 .. n : j # p => \E i \in 1 .. n - 1 : d[i] = c[j]
  <2> SUFFICES ASSUME NEW j \in 1 .. n, j # p PROVE \E i \in 1 .. n - 1 : d[i] = c[j]
    OBVIOUS
  <2>1. CASE j < p
    BY <1>0, <1>4, <2>1
  <2>2. CASE j > p
    <3>1. j - 1 \in 1 .. n - 1 /\ d[j - 1] = c[(j - 1) + 1] /\ (j - 1) + 1 = j
      BY <1>0, <1>4, <2>2
    <3> QED
      BY <3>1
  <2> QED
    BY <1>0, <2>1, <2>2
<1> HIDE DEF from
<1>10. \A i \in 1 .. n - 1 : d[i][1] \in K \ {k} /\ d[i][2] = f[d[i][1]]
  BY <1>0, <1>5, <1>7, <1>8
<1>11. \A i, j \in 1 .. n - 1 : d[i][1] = d[j][1] => i = j
  BY <1>5, <1>5a, <1>8
<1>12. \A l \in K \ {k} : \E i \in 1 .. n - 1 : d[i][1] = l
  BY <1>6, <1>9
<1>13. Represents(d, f, K \ {k})
  BY <1>4, <1>10, <1>11, <1>12 DEF Represents
<1> QED
  BY <1>13 DEF d

(* replace: the entry of k at p gets another value. *)
LEMMA ChainReplace ==
  ASSUME NEW c, NEW f, NEW g, NEW K, Represents(c, f, K), NEW p \in 1 .. Len(c),
         NEW k \in Key, c[p][1] = k, NEW v \in Value, g[k] = v,
         \A l \in K \ {k} : g[l] = f[l]
  PROVE  Represents([c EXCEPT ![p] = <<k, v>>], g, K)
<1> DEFINE e == <<k, v>>
           d == [c EXCEPT ![p] = e]
           n == Len(c)
<1>0. c \in Seq(Entry) /\ n \in Nat
  BY DEF Represents
<1>1. e \in Entry /\ e[1] = k /\ e[2] = v
  BY DEF Entry
<1> HIDE DEF e
<1>2. /\ d \in Seq(Entry) /\ Len(d) = n
      /\ \A i \in 1 .. n : d[i] = IF i = p THEN e ELSE c[i]
  BY <1>0, <1>1, ExceptSeq
<1> HIDE DEF d
<1>3. \A i \in 1 .. n : d[i][1] = c[i][1]
  BY <1>1, <1>2
<1>4. \A i \in 1 .. n : d[i][1] \in K /\ d[i][2] = g[d[i][1]]
  <2> SUFFICES ASSUME NEW i \in 1 .. n PROVE d[i][1] \in K /\ d[i][2] = g[d[i][1]]
    OBVIOUS
  <2>1. c[i][1] \in K /\ c[i][2] = f[c[i][1]] /\ (c[i][1] = k => i = p)
    BY DEF Represents
  <2>2. CASE i = p
    BY <1>1, <1>2, <2>1, <2>2
  <2>3. CASE i # p
    BY <1>2, <2>1, <2>3
  <2> QED
    BY <2>2, <2>3
<1>5. \A i, j \in 1 .. n : d[i][1] = d[j][1] => i = j
  BY <1>3 DEF Represents
<1>6. \A l \in K : \E i \in 1 .. n : d[i][1] = l
  BY <1>3 DEF Represents
<1>7. Represents(d, g, K)
  BY <1>2, <1>4, <1>5, <1>6 DEF Represents
<1> QED
  BY <1>7 DEF d, e

(* A chain followed by another one that has none of its keys. *)
LEMMA ChainConcat ==
  ASSUME NEW c, NEW d, NEW f, NEW K, NEW L, Represents(c, f, K), Represents(d, f, L),
         K \cap L = {}
  PROVE  Represents(Cat(c, d), f, K \cup L)
<1> DEFINE n == Len(c)
           m == Len(d)
           e == Cat(c, d)
<1>0. c \in Seq(Entry) /\ d \in Seq(Entry) /\ n \in Nat /\ m \in Nat
  BY DEF Represents
<1>1. /\ e \in Seq(Entry) /\ Len(e) = n + m
      /\ \A i \in 1 .. n + m : e[i] = IF i <= n THEN c[i] ELSE d[i - n]
  BY <1>0, ConcatProperties DEF Cat
<1>2. /\ \A i \in 1 .. n : c[i][1] \in K /\ c[i][2] = f[c[i][1]]
      /\ \A i, j \in 1 .. n : c[i][1] = c[j][1] => i = j
      /\ \A k \in K : \E i \in 1 .. n : c[i][1] = k
  BY DEF Represents
<1>3. /\ \A i \in 1 .. m : d[i][1] \in L /\ d[i][2] = f[d[i][1]]
      /\ \A i, j \in 1 .. m : d[i][1] = d[j][1] => i = j
      /\ \A k \in L : \E i \in 1 .. m : d[i][1] = k
  BY DEF Represents
<1> HIDE DEF n, m, e
<1>4. \A i \in 1 .. n : i \in 1 .. n + m /\ e[i] = c[i]
  BY <1>0, <1>1
<1>5. \A i \in 1 .. m : n + i \in 1 .. n + m /\ e[n + i] = d[i]
  <2> SUFFICES ASSUME NEW i \in 1 .. m PROVE n + i \in 1 .. n + m /\ e[n + i] = d[i]
    OBVIOUS
  <2>1. n + i \in 1 .. n + m /\ ~(n + i <= n) /\ (n + i) - n = i
    BY <1>0
  <2> QED
    BY <1>1, <2>1
<1>6. \A i \in 1 .. n + m : i \in 1 .. n \/ (i - n \in 1 .. m /\ n + (i - n) = i)
  BY <1>0
<1>7. ASSUME NEW i \in 1 .. n + m PROVE e[i][1] \in K \cup L /\ e[i][2] = f[e[i][1]]
  <2>1. CASE i \in 1 .. n
    BY <2>1, <1>2, <1>4
  <2>2. CASE i - n \in 1 .. m /\ n + (i - n) = i
    BY <2>2, <1>3, <1>5
  <2> QED
    BY <2>1, <2>2, <1>6
<1>8. ASSUME NEW i \in 1 .. n + m, NEW j \in 1 .. n + m, e[i][1] = e[j][1] PROVE i = j
  <2>1. CASE i \in 1 .. n /\ j \in 1 .. n
    BY <2>1, <1>2, <1>4, <1>8
  <2>2. CASE i - n \in 1 .. m /\ n + (i - n) = i /\ j - n \in 1 .. m /\ n + (j - n) = j
    <3>1. e[i] = d[i - n] /\ e[j] = d[j - n]
      BY <2>2, <1>5
    <3>2. i - n = j - n
      BY <2>2, <3>1, <1>3, <1>8
    <3> QED
      BY <2>2, <3>2
  <2>3. CASE i \in 1 .. n /\ j - n \in 1 .. m /\ n + (j - n) = j
    BY <2>3, <1>2, <1>3, <1>4, <1>5, <1>8
  <2>4. CASE j \in 1 .. n /\ i - n \in 1 .. m /\ n + (i - n) = i
    BY <2>4, <1>2, <1>3, <1>4, <1>5, <1>8
  <2> QED
    BY <2>1, <2>2, <2>3, <2>4, <1>6
<1>9. \A k \in K \cup L : \E i \in 1 .. n + m : e[i][1] = k
  BY <1>2, <1>3, <1>4, <1>5
<1>10. Represents(e, f, K \cup L)
  BY <1>1, <1>7, <1>8, <1>9 DEF Represents
<1> QED
  BY <1>10 DEF e

(* A chain has as many entries as keys. *)
LEMMA ChainLength ==
  ASSUME NEW c, NEW f, NEW K, Represents(c, f, K)
  PROVE  IsFiniteSet(K) /\ Cardinality(K) = Len(c)
<1> DEFINE n == Len(c)
           b == [i \in 1 .. n |-> c[i][1]]
<1>0. n \in Nat
  BY DEF Represents
<1>1. /\ \A i \in 1 .. n : b[i] \in K
      /\ \A i, j \in 1 .. n : b[i] = b[j] => i = j
      /\ \A k \in K : \E i \in 1 .. n : b[i] = k
  BY DEF Represents
<1>2. b \in [1 .. n -> K]
  BY <1>1
<1> HIDE DEF b, n
<1>3. b \in Bijection(1 .. n, K)
  BY <1>1, <1>2 DEF Bijection, Injection, Surjection, IsInjective
<1>4. ExistsBijection(1 .. n, K)
  BY <1>3 DEF ExistsBijection
<1>5. IsFiniteSet(1 .. n) /\ Cardinality(1 .. n) = n
  BY <1>0, FS_Interval
<1> QED
  BY <1>4, <1>5, FS_Bijection DEF n

(* find_entry goes along a chain up to the entry of the key. *)
Position(c, k) == SE!SelectInSeq(c, LAMBDA e : e[1] = k)

(* It is there if and only if the key is represented. *)
LEMMA ChainFind ==
  ASSUME NEW c, NEW f, NEW K, Represents(c, f, K), NEW k
  PROVE  LET p == Position(c, k) IN
         /\ k \notin K => p = 0
         /\ k \in K => p \in 1 .. Len(c) /\ p # 0 /\ c[p][1] = k /\ c[p][2] = f[k]
<1> DEFINE I == {i \in 1 .. Len(c) : c[i][1] = k}
           p == Position(c, k)
<1>1. p = IF I # {} THEN SE!Min(I) ELSE 0
  BY Zenon DEF SE!SelectInSeq, Position
<1>2. \A i \in 1 .. Len(c) : c[i][1] \in K /\ c[i][2] = f[c[i][1]]
  BY DEF Represents
<1>3. CASE k \notin K
  BY <1>1, <1>2, <1>3
<1>4. CASE k \in K
  <2>1. PICK q \in 1 .. Len(c) : c[q][1] = k
    BY <1>4 DEF Represents
  <2>2. I = {q}
    BY <2>1 DEF Represents
  <2>3. q <= q /\ q # 0
    OBVIOUS
  <2>4. SE!Min(I) = q
    BY <2>2, <2>3, Zenon DEF SE!Min
  <2>5. p = q
    BY <1>1, <2>2, <2>4
  <2> QED
    BY <1>2, <1>4, <2>1, <2>3, <2>5
<1> QED
  BY <1>3, <1>4

-----------------------------------------------------------------------------
(* Bucket vectors.                                                         *)

(* get_index for the hash function h, and the keys of K it sends to j. *)
Index(h, k, n) == 1 + (h[k] % n)
Hashed(h, K, n, j) == {k \in K : Index(h, k, n) = j}

IsHash(h) == h \in [Key -> Nat]

(* The n buckets b hold the keys K of the table f. *)
Holds(h, b, n, f, K) ==
  /\ n \in Nat \ {0} /\ K \subseteq Key
  /\ IsLists(b, Entry) /\ Len(b) = n
  /\ \A j \in 1 .. n : Represents(b[j], f, Hashed(h, K, n, j))

(* An index is one of a bucket. *)
LEMMA IndexRange ==
  ASSUME NEW h, IsHash(h), NEW k \in Key, NEW n \in Nat \ {0}
  PROVE  Index(h, k, n) \in 1 .. n
<1>1. h[k] \in Nat
  BY DEF IsHash
<1>2. h[k] % n \in 0 .. n - 1
  BY <1>1
<1> QED
  BY <1>2 DEF Index

(* One bucket of a vector is changed. *)
IsChanged(d, b, j, c) == d = [b EXCEPT ![j] = c]

(* The vector is one still, with the new chain in that bucket. *)
LEMMA ListsExcept ==
  ASSUME NEW A, NEW b, IsLists(b, A), NEW j \in 1 .. Len(b), NEW c, c \in Seq(A),
         NEW d, IsChanged(d, b, j, c)
  PROVE  /\ IsLists(d, A) /\ Len(d) = Len(b)
         /\ \A i \in 1 .. Len(b) : d[i] = IF i = j THEN c ELSE b[i]
<1> DEFINE L == Seq(A)
<1>1. b \in Seq(L) /\ c \in L
  BY DEF IsLists
<1> HIDE DEF L
<1>2. /\ d \in Seq(L) /\ Len(d) = Len(b)
      /\ \A i \in 1 .. Len(b) : d[i] = IF i = j THEN c ELSE b[i]
  BY <1>1, ExceptSeq DEF IsChanged
<1> QED
  BY <1>2 DEF IsLists, L

(* A vector of n empty buckets. *)
LEMMA HoldsNothing ==
  ASSUME NEW h, NEW f, NEW n \in Nat \ {0}
  PROVE  Holds(h, [i \in 1 .. n |-> <<>>], n, f, {})
<1> DEFINE e == <<>>
           b == [i \in 1 .. n |-> e]
<1>1. e \in Seq(Entry)
  OBVIOUS
<1>2. \A j \in 1 .. n : Represents(e, f, Hashed(h, {}, n, j))
  BY EmptyChain DEF Hashed
<1>3. IsLists(b, Entry) /\ Len(b) = n
  <2> DEFINE L == Seq(Entry)
  <2>1. e \in L
    BY <1>1
  <2> HIDE DEF L, e
  <2>2. b \in Seq(L) /\ Len(b) = n
    BY <2>1
  <2> QED
    BY <2>2 DEF IsLists, L
<1> HIDE DEF e
<1>4. \A j \in 1 .. n : b[j] = e
  OBVIOUS
<1> HIDE DEF b
<1>5. Holds(h, b, n, f, {})
  BY <1>2, <1>3, <1>4 DEF Holds
<1> QED
  BY <1>5 DEF b, e

(* Only the values of the keys that are held matter. *)
LEMMA HoldsAgrees ==
  ASSUME NEW h, NEW b, NEW n, NEW f, NEW g, NEW K, Holds(h, b, n, f, K),
         \A k \in K : g[k] = f[k]
  PROVE  Holds(h, b, n, g, K)
<1>1. ASSUME NEW j \in 1 .. n PROVE Represents(b[j], g, Hashed(h, K, n, j))
  <2>1. Represents(b[j], f, Hashed(h, K, n, j))
    BY DEF Holds
  <2>2. \A k \in Hashed(h, K, n, j) : g[k] = f[k]
    BY DEF Hashed
  <2> QED
    BY <2>1, <2>2, ChainAgrees
<1> QED
  BY <1>1 DEF Holds

(* The bucket of a key, and its keys. *)
LEMMA HoldsBucket ==
  ASSUME NEW h, IsHash(h), NEW b, NEW n, NEW f, NEW K, Holds(h, b, n, f, K), NEW k \in Key
  PROVE  LET j == Index(h, k, n) IN
         /\ n \in Nat \ {0} /\ Len(b) = n /\ j \in 1 .. n
         /\ Represents(b[j], f, Hashed(h, K, n, j)) /\ b[j] \in Seq(Entry)
         /\ k \in Hashed(h, K, n, j) <=> k \in K
<1>1. n \in Nat \ {0} /\ Len(b) = n
  BY DEF Holds
<1>2. Index(h, k, n) \in 1 .. n
  BY <1>1, IndexRange
<1>3. Represents(b[Index(h, k, n)], f, Hashed(h, K, n, Index(h, k, n)))
  BY <1>2 DEF Holds
<1> QED
  BY <1>1, <1>2, <1>3 DEF Hashed, Represents

(* One bucket is changed, and the keys of the others are not. *)
LEMMA HoldsChange ==
  ASSUME NEW h, NEW b, NEW n, NEW f, NEW g, NEW K, NEW L, Holds(h, b, n, f, K),
         NEW j \in 1 .. n, NEW c, Represents(c, g, Hashed(h, L, n, j)), L \subseteq Key,
         \A i \in 1 .. n : i # j => /\ Hashed(h, L, n, i) = Hashed(h, K, n, i)
                                    /\ \A k \in Hashed(h, K, n, i) : g[k] = f[k]
  PROVE  Holds(h, [b EXCEPT ![j] = c], n, g, L)
<1> DEFINE d == [b EXCEPT ![j] = c]
<1>1. n \in Nat \ {0} /\ IsLists(b, Entry) /\ Len(b) = n
  BY DEF Holds
<1>2. c \in Seq(Entry)
  BY DEF Represents
<1>3. IsLists(d, Entry) /\ Len(d) = n /\ \A i \in 1 .. n : d[i] = IF i = j THEN c ELSE b[i]
  <2>1. j \in 1 .. Len(b) /\ IsChanged(d, b, j, c)
    BY <1>1 DEF IsChanged
  <2> HIDE DEF d
  <2>2. /\ IsLists(d, Entry) /\ Len(d) = Len(b)
        /\ \A i \in 1 .. Len(b) : d[i] = IF i = j THEN c ELSE b[i]
    BY <1>1, <1>2, <2>1, ListsExcept
  <2> QED
    BY <1>1, <2>2
<1> HIDE DEF d
<1>4. ASSUME NEW i \in 1 .. n PROVE Represents(d[i], g, Hashed(h, L, n, i))
  <2>1. CASE i = j
    BY <1>3, <2>1
  <2>2. CASE i # j
    <3>1. Represents(b[i], f, Hashed(h, K, n, i))
      BY DEF Holds
    <3>2. Represents(b[i], g, Hashed(h, K, n, i))
      BY <2>2, <3>1, ChainAgrees
    <3> QED
      BY <1>3, <2>2, <3>2
  <2> QED
    BY <2>1, <2>2
<1>5. Holds(h, d, n, g, L)
  BY <1>1, <1>3, <1>4 DEF Holds
<1> QED
  BY <1>5 DEF d

(* emplace_back to the bucket of a key that is not there. *)
LEMMA HoldsAdd ==
  ASSUME NEW h, IsHash(h), NEW b, NEW n, NEW f, NEW K, Holds(h, b, n, f, K),
         NEW k \in Key, k \notin K, NEW v \in Value, f[k] = v
  PROVE  LET j == Index(h, k, n) IN
         Holds(h, [b EXCEPT ![j] = Append(b[j], <<k, v>>)], n, f, K \cup {k})
<1> DEFINE j == Index(h, k, n)
           L == K \cup {k}
           c == Append(b[j], <<k, v>>)
<1>1. /\ j \in 1 .. n /\ k \notin Hashed(h, K, n, j)
      /\ Represents(b[j], f, Hashed(h, K, n, j))
  BY HoldsBucket
<1>2. Represents(c, f, Hashed(h, K, n, j) \cup {k})
  BY <1>1, ChainAppend
<1>3. Hashed(h, L, n, j) = Hashed(h, K, n, j) \cup {k}
  BY DEF Hashed
<1>4. \A i \in 1 .. n : i # j => Hashed(h, L, n, i) = Hashed(h, K, n, i)
  BY DEF Hashed
<1>5. L \subseteq Key
  BY DEF Holds
<1>6. Represents(c, f, Hashed(h, L, n, j))
  BY <1>2, <1>3
<1> HIDE DEF c, L, j
<1>7. Holds(h, [b EXCEPT ![j] = c], n, f, L)
  BY <1>1, <1>4, <1>5, <1>6, HoldsChange
<1> QED
  BY <1>7 DEF c, L, j

(* find_entry in the bucket of a key. *)
LEMMA HoldsFind ==
  ASSUME NEW h, IsHash(h), NEW b, NEW n, NEW f, NEW K, Holds(h, b, n, f, K), NEW k \in Key
  PROVE  LET c == b[Index(h, k, n)]
             p == Position(c, k)
         IN  /\ k \notin K => p = 0
             /\ k \in K => p \in 1 .. Len(c) /\ p # 0 /\ c[p][1] = k /\ c[p][2] = f[k]
<1> DEFINE j == Index(h, k, n)
           c == b[j]
<1>1. Represents(c, f, Hashed(h, K, n, j)) /\ (k \in Hashed(h, K, n, j) <=> k \in K)
  BY HoldsBucket
<1> HIDE DEF c, j
<1>2. LET p == Position(c, k)
      IN  /\ k \notin K => p = 0
          /\ k \in K => p \in 1 .. Len(c) /\ p # 0 /\ c[p][1] = k /\ c[p][2] = f[k]
  BY <1>1, ChainFind
<1> QED
  BY <1>2 DEF c, j

(* erase of a key that is there. *)
LEMMA HoldsErase ==
  ASSUME NEW h, IsHash(h), NEW b, NEW n, NEW f, NEW g, NEW K, Holds(h, b, n, f, K),
         NEW k \in K, NEW p \in 1 .. Len(b[Index(h, k, n)]), b[Index(h, k, n)][p][1] = k,
         \A l \in K \ {k} : g[l] = f[l]
  PROVE  LET j == Index(h, k, n) IN
         Holds(h, [b EXCEPT ![j] = SE!RemoveAt(b[j], p)], n, g, K \ {k})
<1> DEFINE j == Index(h, k, n)
           L == K \ {k}
           c == SE!RemoveAt(b[j], p)
<1>0. k \in Key /\ L \subseteq Key
  BY DEF Holds
<1>1. j \in 1 .. n /\ Represents(b[j], f, Hashed(h, K, n, j))
  BY <1>0, HoldsBucket
<1>2. Represents(c, f, Hashed(h, K, n, j) \ {k})
  BY <1>1, ChainRemove
<1>3. Hashed(h, L, n, j) = Hashed(h, K, n, j) \ {k}
  BY DEF Hashed
<1>4. \A i \in 1 .. n : i # j => /\ Hashed(h, L, n, i) = Hashed(h, K, n, i)
                                 /\ \A l \in Hashed(h, K, n, i) : g[l] = f[l]
  BY DEF Hashed
<1>5. \A l \in Hashed(h, L, n, j) : g[l] = f[l]
  BY DEF Hashed
<1> HIDE DEF c, L, j
<1>6. Represents(c, g, Hashed(h, L, n, j))
  BY <1>2, <1>3, <1>5, ChainAgrees
<1>7. Holds(h, [b EXCEPT ![j] = c], n, g, L)
  BY <1>0, <1>1, <1>4, <1>6, HoldsChange
<1> QED
  BY <1>7 DEF c, L, j

(* replace of the value of a key that is there. *)
LEMMA HoldsReplace ==
  ASSUME NEW h, IsHash(h), NEW b, NEW n, NEW f, NEW g, NEW K, Holds(h, b, n, f, K),
         NEW k \in K, NEW p \in 1 .. Len(b[Index(h, k, n)]), b[Index(h, k, n)][p][1] = k,
         NEW v \in Value, g[k] = v, \A l \in K \ {k} : g[l] = f[l]
  PROVE  LET j == Index(h, k, n) IN
         Holds(h, [b EXCEPT ![j] = [b[j] EXCEPT ![p] = <<k, v>>]], n, g, K)
<1> DEFINE j == Index(h, k, n)
           c == [b[j] EXCEPT ![p] = <<k, v>>]
<1>0. k \in Key /\ K \subseteq Key
  BY DEF Holds
<1>1. j \in 1 .. n /\ Represents(b[j], f, Hashed(h, K, n, j))
  BY <1>0, HoldsBucket
<1>2. \A l \in Hashed(h, K, n, j) \ {k} : g[l] = f[l]
  BY DEF Hashed
<1>3. Represents(c, g, Hashed(h, K, n, j))
  BY <1>0, <1>1, <1>2, ChainReplace
<1>4. \A i \in 1 .. n : i # j => /\ Hashed(h, K, n, i) = Hashed(h, K, n, i)
                                 /\ \A l \in Hashed(h, K, n, i) : g[l] = f[l]
  BY DEF Hashed
<1> HIDE DEF c, j
<1>5. Holds(h, [b EXCEPT ![j] = c], n, g, K)
  BY <1>0, <1>1, <1>3, <1>4, HoldsChange
<1> QED
  BY <1>5 DEF c, j

(* The buckets one after the other are a chain with all keys: what a       *)
(* rehash and an iterator go through.                                      *)
LEMMA HoldsEntries ==
  ASSUME NEW h, IsHash(h), NEW b, NEW n, NEW f, NEW K, Holds(h, b, n, f, K)
  PROVE  Represents(Flatten(b), f, K)
<1> DEFINE Below(i) == {k \in K : Index(h, k, n) <= i}
<1>0. n \in Nat \ {0} /\ K \subseteq Key /\ IsLists(b, Entry) /\ Len(b) = n
  BY DEF Holds
<1>1. PICK u : IsUpto(u, b, Entry) /\ Flatten(b) = u[n]
  BY <1>0, FlattenDef
<1>2. u[0] = <<>> /\ \A i \in 0 .. n - 1 : u[i + 1] = Cat(u[i], b[i + 1])
  BY <1>0, <1>1, UptoStep
<1>3. \A k \in K : Index(h, k, n) \in 1 .. n
  BY <1>0, IndexRange
<1> DEFINE S == {i \in 0 .. n : Represents(u[i], f, Below(i))}
<1>4. 0 \in S
  <2>1. Below(0) = {}
    BY <1>3
  <2>2. Represents(u[0], f, {})
    BY <1>2, EmptyChain
  <2> HIDE DEF Below
  <2> QED
    BY <1>0, <2>1, <2>2
<1>5. ASSUME NEW i \in 0 .. n - 1, i \in S PROVE i + 1 \in S
  <2> DEFINE L == Hashed(h, K, n, i + 1)
  <2>1. i + 1 \in 1 .. n /\ i + 1 \in 0 .. n
    BY <1>0
  <2>2. Represents(b[i + 1], f, L)
    BY <2>1 DEF Holds
  <2>3. Below(i) \cap L = {} /\ Below(i + 1) = Below(i) \cup L
    BY <1>0, <1>3, <2>1 DEF Hashed
  <2>4. Represents(u[i], f, Below(i))
    BY <1>5
  <2>5. u[i + 1] = Cat(u[i], b[i + 1])
    BY <1>2
  <2> HIDE DEF Below, L
  <2>6. Represents(Cat(u[i], b[i + 1]), f, Below(i) \cup L)
    BY <2>2, <2>3, <2>4, ChainConcat
  <2>7. Represents(u[i + 1], f, Below(i + 1))
    BY <2>3, <2>5, <2>6
  <2> QED
    BY <2>1, <2>7
<1>6. n \in S
  <2> HIDE DEF S
  <2> QED
    BY <1>0, <1>4, <1>5, LoopInduction, Zenon
<1>7. Below(n) = K
  BY <1>0, <1>3
<1> QED
  BY <1>1, <1>6, <1>7

(* A rehash puts the entries one after the other into n buckets: in the    *)
(* end these hold what the entries represent, whatever they did before.    *)
LEMMA Rehashed ==
  ASSUME IsHash(hasher_), NEW es, NEW f, NEW K, Represents(es, f, K), K \subseteq Key,
         \A k \in K : f[k] \in Value, NEW n \in Nat \ {0}
  PROVE  Holds(hasher_, new_buckets(es, n), n, f, K)
<1> DEFINE N == Len(es)
           J(i) == Index(hasher_, es[i][1], n)
           Added(b, i) == [b EXCEPT ![J(i)] = Append(b[J(i)], es[i])]
           x0 == Empty(n).buckets_
           X == {b \in Seq(Seq(Entry)) : Len(b) = n}
           step == [q \in (1 .. N) \X X |-> Added(q[2], q[1])]
           Eq(g) == g = [i \in 0 .. N |-> IF i = 0 THEN x0 ELSE Added(g[i - 1], i)]
           r == CHOOSE g : Eq(g)
           L(i) == {es[j][1] : j \in 1 .. i}
<1>0. N \in Nat /\ \A i \in 1 .. N : es[i] \in Entry /\ es[i][1] \in K
  BY DEF Represents
<1>1. \A i \in 1 .. N : /\ es[i] = <<es[i][1], es[i][2]>> /\ es[i][1] \in Key
                        /\ es[i][2] \in Value /\ es[i][2] = f[es[i][1]]
  BY <1>0 DEF Represents, Entry
<1>2. Holds(hasher_, x0, n, f, {})
  BY HoldsNothing DEF Empty
<1>3. new_buckets(es, n) = r[N]
  BY Zenon DEF new_buckets, get_index, Index
<1>4. \A b : b \in X <=> IsLists(b, Entry) /\ Len(b) = n
  BY DEF IsLists
<1>5. ASSUME NEW b, b \in X, NEW i \in 1 .. N PROVE Added(b, i) \in X
  <2> DEFINE d == Added(b, i)
             c == Append(b[J(i)], es[i])
  <2>1. IsLists(b, Entry) /\ Len(b) = n
    BY <1>4, <1>5
  <2>2. J(i) \in 1 .. Len(b)
    BY <1>1, <2>1, IndexRange
  <2>3. b[J(i)] \in Seq(Entry)
    BY <2>1, <2>2, ListsFacts
  <2>4. c \in Seq(Entry)
    BY <1>0, <2>3, AppendProperties
  <2>5. IsChanged(d, b, J(i), c)
    BY DEF IsChanged
  <2> HIDE DEF d, c, J, X
  <2>6. IsLists(d, Entry) /\ Len(d) = Len(b)
    BY <2>1, <2>2, <2>4, <2>5, ListsExcept
  <2>7. d \in X
    BY <1>4, <2>1, <2>6
  <2> QED
    BY <2>7 DEF d
<1>6. x0 \in X
  BY <1>2, <1>4 DEF Holds
<1>7. IsStep(step, N, X)
  <2> HIDE DEF X, Added
  <2> QED
    BY <1>5 DEF IsStep
<1>8. PICK p : IsHistory(p, step, x0, N, X)
  <2> HIDE DEF X, N, step, x0
  <2> QED
    BY <1>0, <1>6, <1>7, RecursionExists
<1>9. p \in [0 .. N -> X] /\ p[0] = x0
  BY <1>8 DEF IsHistory
<1>10. \A i \in 1 .. N : p[i] = Added(p[i - 1], i)
  <2> SUFFICES ASSUME NEW i \in 1 .. N PROVE p[i] = Added(p[i - 1], i)
    OBVIOUS
  <2> HIDE DEF X, Added, x0
  <2>1. i - 1 \in 0 .. N
    BY <1>0
  <2>2. p[i - 1] \in X
    BY <1>9, <2>1
  <2>3. p[i] = step[<<i, p[i - 1]>>]
    BY <1>8 DEF IsHistory
  <2> QED
    BY <2>2, <2>3
<1>11. Eq(p)
  <2> HIDE DEF X, Added, x0
  <2> QED
    BY <1>0, <1>9, <1>10
<1>12. Eq(r)
  <2> HIDE DEF Eq
  <2> QED
    BY <1>11, Zenon
<1> HIDE DEF r
<1>13. r[0] = x0 /\ \A i \in 1 .. N : r[i] = Added(r[i - 1], i)
  <2> HIDE DEF X, Added, x0
  <2> QED
    BY <1>0, <1>12
<1> DEFINE S == {i \in 0 .. N : Holds(hasher_, r[i], n, f, L(i))}
<1>14. 0 \in S
  <2>1. L(0) = {}
    OBVIOUS
  <2> HIDE DEF L, x0, Added
  <2>2. Holds(hasher_, r[0], n, f, L(0))
    BY <1>2, <1>13, <2>1, Zenon
  <2>3. 0 \in 0 .. N
    BY <1>0
  <2> QED
    BY <2>2, <2>3
<1>15. ASSUME NEW i \in 0 .. N - 1, i \in S PROVE i + 1 \in S
  <2> DEFINE k == es[i + 1][1]
             v == es[i + 1][2]
  <2>1. i + 1 \in 1 .. N /\ i + 1 \in 0 .. N /\ (i + 1) - 1 = i
    BY <1>0
  <2>2. k \in Key /\ v \in Value /\ v = f[k] /\ es[i + 1] = <<k, v>>
    BY <1>1, <2>1
  <2>3. L(i + 1) = L(i) \cup {k}
    BY <1>0
  <2>4. k \notin L(i)
    <3>1. \A j \in 1 .. i : j \in 1 .. N /\ j # i + 1
      BY <1>0
    <3> QED
      BY <2>1, <3>1 DEF Represents
  <2>5. Holds(hasher_, r[i], n, f, L(i))
    BY <1>15
  <2>6. r[i + 1] = [r[i] EXCEPT ![J(i + 1)] = Append(r[i][J(i + 1)], <<k, v>>)]
    <3>1. r[i + 1] = Added(r[i], i + 1)
      BY <1>13, <2>1
    <3> QED
      BY <2>2, <3>1
  <2> HIDE DEF L, k, v
  <2>7. LET j == Index(hasher_, k, n)
        IN  Holds(hasher_, [r[i] EXCEPT ![j] = Append(r[i][j], <<k, v>>)], n, f, L(i) \cup {k})
    BY <2>2, <2>4, <2>5, HoldsAdd
  <2>8. Holds(hasher_, r[i + 1], n, f, L(i + 1))
    BY <2>3, <2>6, <2>7 DEF k
  <2> QED
    BY <2>1, <2>8
<1>16. N \in S
  <2> HIDE DEF S, N
  <2> QED
    BY <1>0, <1>14, <1>15, LoopInduction, Zenon
<1>17. L(N) = K
  BY <1>0 DEF Represents
<1> QED
  BY <1>3, <1>16, <1>17

-----------------------------------------------------------------------------
(* Maps.                                                                   *)

IsTable(f) == DOMAIN f \subseteq Key /\ f \in [DOMAIN f -> Value]
IsRecord(m) == m \in [buckets_ : Seq(Seq(Entry)), num_elements_ : Nat]

(* num elements in n buckets do not exceed max_load_factor_. *)
Light(num, n) == num * LoadDen <= LoadNum * n

(* The map m stands for the table f. *)
StandsFor(h, m, f) ==
  /\ IsRecord(m) /\ IsTable(f)
  /\ Holds(h, m.buckets_, Len(m.buckets_), f, DOMAIN f)
  /\ m.num_elements_ = Cardinality(DOMAIN f)
  /\ Light(m.num_elements_, Len(m.buckets_))

(* The assignments to the fields of a map. *)
WithBuckets(m, b) == [m EXCEPT !.buckets_ = b]
WithBoth(m, b, num) == [m EXCEPT !.buckets_ = b, !.num_elements_ = num]

(* The fields of a map after an assignment to them. *)
LEMMA RecordSet ==
  ASSUME NEW m, IsRecord(m), NEW b, IsLists(b, Entry)
  PROVE  LET d == WithBuckets(m, b) IN
         IsRecord(d) /\ d.buckets_ = b /\ d.num_elements_ = m.num_elements_
<1> DEFINE L == Seq(Seq(Entry))
<1>1. m \in [buckets_ : L, num_elements_ : Nat] /\ b \in L
  BY DEF IsRecord, IsLists
<1> HIDE DEF L
<1>2. LET d == [m EXCEPT !.buckets_ = b]
      IN  /\ d \in [buckets_ : L, num_elements_ : Nat]
          /\ d.buckets_ = b /\ d.num_elements_ = m.num_elements_
  BY <1>1
<1> QED
  BY <1>2 DEF IsRecord, L, WithBuckets

(* The same for both fields. *)
LEMMA RecordSetBoth ==
  ASSUME NEW m, IsRecord(m), NEW b, IsLists(b, Entry), NEW num, num \in Nat
  PROVE  LET d == WithBoth(m, b, num) IN
         IsRecord(d) /\ d.buckets_ = b /\ d.num_elements_ = num
<1> DEFINE L == Seq(Seq(Entry))
<1>1. m \in [buckets_ : L, num_elements_ : Nat] /\ b \in L
  BY DEF IsRecord, IsLists
<1> HIDE DEF L
<1>2. LET d == [m EXCEPT !.buckets_ = b, !.num_elements_ = num]
      IN  /\ d \in [buckets_ : L, num_elements_ : Nat]
          /\ d.buckets_ = b /\ d.num_elements_ = num
  BY <1>1
<1> QED
  BY <1>2 DEF IsRecord, L, WithBoth

(* Entries is the concatenation that HoldsEntries is about. *)
LEMMA EntriesFlatten == ASSUME NEW m PROVE Entries(m) = Flatten(m.buckets_)
BY Zenon DEF Entries, SE!FlattenSeq, Flatten

(* The size of a map, and what its parts are. *)
LEMMA StandsFacts ==
  ASSUME NEW h, IsHash(h), NEW m, NEW f, StandsFor(h, m, f)
  PROVE  /\ IsLists(m.buckets_, Entry) /\ Len(m.buckets_) \in Nat \ {0}
         /\ m.num_elements_ \in Nat
         /\ IsFiniteSet(DOMAIN f)
         /\ Represents(Entries(m), f, DOMAIN f)
         /\ m.num_elements_ = Len(Entries(m))
<1> DEFINE es == Entries(m)
<1>1. Holds(h, m.buckets_, Len(m.buckets_), f, DOMAIN f)
  BY DEF StandsFor
<1>2. IsLists(m.buckets_, Entry) /\ Len(m.buckets_) \in Nat \ {0}
  BY <1>1 DEF Holds
<1>3. m.num_elements_ \in Nat
  BY DEF StandsFor, IsRecord
<1>4. Represents(es, f, DOMAIN f)
  BY <1>1, HoldsEntries, EntriesFlatten
<1> HIDE DEF es
<1>5. IsFiniteSet(DOMAIN f) /\ Cardinality(DOMAIN f) = Len(es)
  BY <1>4, ChainLength
<1>6. m.num_elements_ = Len(es)
  BY <1>5 DEF StandsFor
<1> QED
  BY <1>2, <1>3, <1>4, <1>5, <1>6 DEF es

(* A new map, a cleared one and one that was moved from. *)
LEMMA StandsEmpty ==
  ASSUME NEW h, NEW n \in Nat \ {0}
  PROVE  StandsFor(h, Empty(n), EmptyTable) /\ Len(Empty(n).buckets_) = n
<1> DEFINE b == [i \in 1 .. n |-> <<>>]
           m == [buckets_ |-> b, num_elements_ |-> 0]
<1>1. Holds(h, b, n, EmptyTable, {})
  BY HoldsNothing
<1> HIDE DEF b
<1>2. b \in Seq(Seq(Entry)) /\ Len(b) = n
  BY <1>1 DEF Holds, IsLists
<1>3. IsRecord(m) /\ m.buckets_ = b /\ m.num_elements_ = 0
  BY <1>2 DEF IsRecord
<1> HIDE DEF m
<1>4. DOMAIN EmptyTable = {} /\ IsTable(EmptyTable)
  BY DEF EmptyTable, IsTable
<1>5. Cardinality({}) = 0
  BY FS_EmptySet
<1>6. Light(0, n)
  BY HashMapAssumption DEF Light
<1>7. StandsFor(h, m, EmptyTable)
  BY <1>1, <1>2, <1>3, <1>4, <1>5, <1>6 DEF StandsFor
<1>8. Empty(n) = m
  BY Zenon DEF Empty, m, b
<1> QED
  BY <1>2, <1>3, <1>7, <1>8

(* find_entry and find are exact. *)
LEMMA StandsFind ==
  ASSUME IsHash(hasher_), NEW m, NEW f, StandsFor(hasher_, m, f), NEW k \in Key
  PROVE  LET c == m.buckets_[get_index(k, Len(m.buckets_))]
             p == find_entry(m, k)
         IN  /\ k \notin DOMAIN f => p = 0 /\ find(m, k) = Nil
             /\ k \in DOMAIN f => /\ p \in 1 .. Len(c) /\ p # 0 /\ c[p][1] = k
                                  /\ find(m, k) = f[k]
<1> DEFINE b == m.buckets_
           n == Len(m.buckets_)
           c == b[Index(hasher_, k, n)]
           p == Position(c, k)
<1>1. Holds(hasher_, b, n, f, DOMAIN f)
  BY DEF StandsFor
<1>2. c = Chain(m, k) /\ c = m.buckets_[get_index(k, Len(m.buckets_))]
  BY DEF Chain, get_index, Index, bucket_count
<1>3. p = find_entry(m, k)
  BY <1>2, Zenon DEF find_entry, Position
<1>4. /\ k \notin DOMAIN f => p = 0
      /\ k \in DOMAIN f => p \in 1 .. Len(c) /\ p # 0 /\ c[p][1] = k /\ c[p][2] = f[k]
  <2> HIDE DEF b, n
  <2> QED
    BY <1>1, HoldsFind
<1>5. find(m, k) = IF p = 0 THEN Nil ELSE c[p][2]
  BY <1>2, <1>3, Zenon DEF find
<1> HIDE DEF p, c
<1> QED
  BY <1>2, <1>3, <1>4, <1>5

(* A rehash keeps the table. *)
LEMMA StandsRehash ==
  ASSUME IsHash(hasher_), NEW m, NEW f, StandsFor(hasher_, m, f), NEW n \in Nat \ {0},
         Light(m.num_elements_, n)
  PROVE  LET d == rehash(m, n) IN
         StandsFor(hasher_, d, f) /\ Len(d.buckets_) = n /\ d.num_elements_ = m.num_elements_
<1> DEFINE b == new_buckets(Entries(m), n)
           d == rehash(m, n)
           K == DOMAIN f
<1>1. Represents(Entries(m), f, K) /\ m.num_elements_ \in Nat
  BY StandsFacts
<1>2. K \subseteq Key /\ \A k \in K : f[k] \in Value
  BY DEF StandsFor, IsTable
<1>3. Holds(hasher_, b, n, f, K)
  <2> HIDE DEF K
  <2> QED
    BY <1>1, <1>2, Rehashed
<1>4. IsLists(b, Entry) /\ Len(b) = n /\ IsRecord(m)
  BY <1>3 DEF Holds, StandsFor
<1>5. d = WithBuckets(m, b)
  BY DEF rehash, WithBuckets
<1> HIDE DEF b, d
<1>6. IsRecord(d) /\ d.buckets_ = b /\ d.num_elements_ = m.num_elements_
  BY <1>1, <1>4, <1>5, RecordSet
<1>7. StandsFor(hasher_, d, f)
  BY <1>3, <1>4, <1>6 DEF StandsFor
<1> QED
  BY <1>4, <1>6, <1>7 DEF d

(* One doubling makes room for one more element. *)
LEMMA DoublingSuffices ==
  ASSUME NEW num \in Nat, NEW n \in Nat \ {0}, Light(num, n)
  PROVE  Light(num + 1, 2 * n)
<1> DEFINE a == num * LoadDen
           c == LoadNum * n
<1>0. LoadNum \in Nat \ {0} /\ LoadDen \in Nat \ {0} /\ 2 * LoadNum >= LoadDen
  BY HashMapAssumption
<1>1. a \in Nat /\ c \in Nat /\ (num + 1) * LoadDen = a + LoadDen /\ LoadNum * (2 * n) = 2 * c
  BY <1>0
<1>2. a <= c
  BY DEF Light
<1>3. n > 1 => c >= 2 * LoadNum
  BY <1>0
<1>4. n = 1 => c = LoadNum
  BY <1>0
<1>5. num > 0 => a >= LoadDen
  BY <1>0
<1>6. num = 0 => a = 0
  BY <1>0
<1> HIDE DEF a, c
<1>7. a + LoadDen <= 2 * c
  <2>1. CASE n > 1
    BY <1>0, <1>1, <1>2, <1>3, <2>1
  <2>2. CASE n = 1 /\ num > 0
    BY <1>0, <1>1, <1>2, <1>4, <1>5, <2>2
  <2>3. CASE n = 1 /\ num = 0
    BY <1>0, <1>1, <1>2, <1>4, <1>6, <2>3
  <2> QED
    BY <2>1, <2>2, <2>3
<1> QED
  BY <1>1, <1>7 DEF Light

(* The map before an insertion, grown if it has to. *)
LEMMA StandsGrown ==
  ASSUME IsHash(hasher_), NEW m, NEW f, StandsFor(hasher_, m, f)
  PROVE  LET d == Grown(m) IN
         /\ StandsFor(hasher_, d, f) /\ d.num_elements_ = m.num_elements_
         /\ Light(d.num_elements_ + 1, Len(d.buckets_))
<1> DEFINE n == Len(m.buckets_)
           num == m.num_elements_
           d == Grown(m)
<1>1. n \in Nat \ {0} /\ num \in Nat /\ Light(num, n)
  BY StandsFacts DEF StandsFor
<1>2. CASE Overloaded(m)
  <2>1. d = rehash(m, 2 * n)
    BY <1>2 DEF Grown, bucket_count
  <2>2. Light(num + 1, 2 * n) /\ 2 * n \in Nat \ {0}
    <3> HIDE DEF n, num
    <3> QED
      BY <1>1, DoublingSuffices
  <2>3. Light(num, 2 * n)
    <3> DEFINE a == num * LoadDen
               c == LoadNum * n
    <3>0. LoadNum \in Nat \ {0} /\ LoadDen \in Nat \ {0}
      BY HashMapAssumption
    <3>1. a \in Nat /\ c \in Nat /\ LoadNum * (2 * n) = 2 * c
      BY <1>1, <3>0
    <3>2. a <= c
      BY <1>1 DEF Light
    <3> HIDE DEF a, c
    <3>3. a <= 2 * c
      BY <3>1, <3>2
    <3> QED
      BY <3>1, <3>3 DEF Light, a
  <2> QED
    BY <2>1, <2>2, <2>3, StandsRehash
<1>3. CASE ~Overloaded(m)
  <2>1. d = m
    BY <1>3 DEF Grown
  <2>2. Light(num + 1, n)
    <3> DEFINE a == (num + 1) * LoadDen
               c == LoadNum * n
    <3>0. LoadNum \in Nat \ {0} /\ LoadDen \in Nat \ {0}
      BY HashMapAssumption
    <3>1. a \in Nat /\ c \in Nat
      BY <1>1, <3>0
    <3>2. ~(a > c)
      BY <1>3 DEF Overloaded, bucket_count
    <3> HIDE DEF a, c
    <3>3. a <= c
      BY <3>1, <3>2
    <3> QED
      BY <3>3 DEF Light, a, c
  <2> QED
    BY <2>1, <2>2
<1> QED
  BY <1>2, <1>3

(* emplace_back of a new key in its bucket, when there is room. *)
LEMMA StandsEmplaced ==
  ASSUME IsHash(hasher_), NEW m, NEW f, StandsFor(hasher_, m, f),
         NEW k \in Key, k \notin DOMAIN f, NEW v \in Value,
         Light(m.num_elements_ + 1, Len(m.buckets_))
  PROVE  StandsFor(hasher_, Emplaced(m, get_index(k, bucket_count(m)), k, v), Put(f, k, v))
<1> DEFINE b == m.buckets_
           n == Len(m.buckets_)
           num == m.num_elements_
           j == Index(hasher_, k, n)
           c == [b EXCEPT ![j] = Append(b[j], <<k, v>>)]
           d == Emplaced(m, get_index(k, bucket_count(m)), k, v)
           K == DOMAIN f
           g == Put(f, k, v)
<1>0. /\ IsRecord(m) /\ IsLists(b, Entry) /\ n \in Nat \ {0} /\ num \in Nat
      /\ IsFiniteSet(K) /\ IsTable(f) /\ num = Cardinality(K)
      /\ Holds(hasher_, b, n, f, K)
  BY StandsFacts DEF StandsFor
<1>1. /\ DOMAIN g = K \cup {k} /\ IsTable(g) /\ g[k] = v
      /\ \A l \in K : g[l] = f[l]
  <2>1. DOMAIN g = K \cup {k} /\ g[k] = v /\ \A l \in K : g[l] = f[l]
    BY DEF Put
  <2>2. g \in [K \cup {k} -> Value]
    BY <1>0 DEF Put, IsTable
  <2> HIDE DEF g
  <2> QED
    BY <1>0, <2>1, <2>2 DEF IsTable
<1> HIDE DEF K, g, n, num, j
<1>2. Holds(hasher_, b, n, g, K)
  BY <1>0, <1>1, HoldsAgrees
<1>3. Holds(hasher_, c, n, g, K \cup {k})
  <2>0. k \notin K
    BY DEF K
  <2> HIDE DEF b
  <2>1. LET i == Index(hasher_, k, n)
        IN  Holds(hasher_, [b EXCEPT ![i] = Append(b[i], <<k, v>>)], n, g, K \cup {k})
    BY <1>1, <1>2, <2>0, HoldsAdd
  <2> QED
    BY <2>1 DEF j
<1>4. d = WithBoth(m, c, num + 1)
  <2>1. get_index(k, bucket_count(m)) = j
    BY DEF get_index, bucket_count, j, Index, n
  <2>2. d = [m EXCEPT !.buckets_[j] = Append(@, <<k, v>>), !.num_elements_ = @ + 1]
    BY <2>1 DEF Emplaced
  <2> QED
    BY <2>2, <1>0 DEF IsRecord, num, WithBoth
<1>5. IsLists(c, Entry) /\ Len(c) = n /\ num + 1 \in Nat
  BY <1>0, <1>3 DEF Holds
<1> HIDE DEF b, c, d
<1>6. IsRecord(d) /\ d.buckets_ = c /\ d.num_elements_ = num + 1
  BY <1>0, <1>4, <1>5, RecordSetBoth
<1>7. Cardinality(DOMAIN g) = num + 1
  BY <1>0, <1>1, FS_AddElement DEF K
<1>8. Light(num + 1, n)
  BY DEF num, n
<1>9. StandsFor(hasher_, d, g)
  BY <1>1, <1>3, <1>5, <1>6, <1>7, <1>8 DEF StandsFor
<1> QED
  BY <1>9 DEF d, g

(* safe_insert of a new key; operator[] does the same with Value{}. *)
LEMMA StandsNew ==
  ASSUME IsHash(hasher_), NEW m, NEW f, StandsFor(hasher_, m, f),
         NEW k \in Key, k \notin DOMAIN f, NEW v \in Value
  PROVE  StandsFor(hasher_, Emplaced(Grown(m), get_index(k, bucket_count(Grown(m))), k, v),
                   Put(f, k, v))
<1> DEFINE d == Grown(m)
<1>1. StandsFor(hasher_, d, f) /\ Light(d.num_elements_ + 1, Len(d.buckets_))
  BY StandsGrown
<1> HIDE DEF d
<1>2. StandsFor(hasher_, Emplaced(d, get_index(k, bucket_count(d)), k, v), Put(f, k, v))
  BY <1>1, StandsEmplaced
<1> QED
  BY <1>2 DEF d

(* insert. *)
LEMMA StandsInsert ==
  ASSUME IsHash(hasher_), NEW m, NEW f, StandsFor(hasher_, m, f), NEW k \in Key, NEW v \in Value
  PROVE  StandsFor(hasher_, insert(m, k, v), PutNew(f, k, v))
<1>1. CASE k \in DOMAIN f
  BY <1>1, StandsFind DEF insert, PutNew
<1>2. CASE k \notin DOMAIN f
  <2>1. insert(m, k, v) = Emplaced(Grown(m), get_index(k, bucket_count(Grown(m))), k, v)
    BY <1>2, StandsFind DEF insert, safe_insert
  <2>2. PutNew(f, k, v) = Put(f, k, v)
    BY <1>2 DEF PutNew
  <2> QED
    BY <1>2, <2>1, <2>2, StandsNew
<1> QED
  BY <1>1, <1>2

(* operator[]. *)
LEMMA StandsSubscript ==
  ASSUME IsHash(hasher_), NEW m, NEW f, StandsFor(hasher_, m, f), NEW k \in Key
  PROVE  StandsFor(hasher_, subscript(m, k), PutNew(f, k, Default))
<1>0. Default \in Value
  BY HashMapAssumption
<1>1. CASE k \in DOMAIN f
  BY <1>1, StandsFind DEF subscript, PutNew
<1>2. CASE k \notin DOMAIN f
  <2>1. subscript(m, k)
          = Emplaced(Grown(m), get_index(k, bucket_count(Grown(m))), k, Default)
    BY <1>2, StandsFind DEF subscript
  <2>2. PutNew(f, k, Default) = Put(f, k, Default)
    BY <1>2 DEF PutNew
  <2> QED
    BY <1>0, <1>2, <2>1, <2>2, StandsNew
<1> QED
  BY <1>1, <1>2

(* replace as an assignment to one bucket. *)
LEMMA ReplaceBucket ==
  ASSUME IsHash(hasher_), NEW m, NEW f, StandsFor(hasher_, m, f), NEW k \in DOMAIN f, NEW v \in Value
  PROVE  LET b == m.buckets_
             j == Index(hasher_, k, Len(b))
             p == find_entry(m, k)
         IN  /\ replace(m, k, v) = WithBuckets(m, [b EXCEPT ![j] = [b[j] EXCEPT ![p] = <<k, v>>]])
             /\ k \in Key /\ p \in 1 .. Len(b[j]) /\ p # 0 /\ b[j][p][1] = k /\ j \in 1 .. Len(b)
<1> DEFINE b == m.buckets_
           n == Len(m.buckets_)
           j == Index(hasher_, k, n)
           p == find_entry(m, k)
<1>0. k \in Key /\ Holds(hasher_, b, n, f, DOMAIN f) /\ IsRecord(m)
  BY DEF StandsFor, IsTable
<1>1. get_index(k, bucket_count(m)) = j /\ get_index(k, Len(m.buckets_)) = j
  BY DEF get_index, bucket_count, Index
<1>2. p \in 1 .. Len(b[j]) /\ p # 0 /\ b[j][p][1] = k
  BY <1>0, <1>1, StandsFind
<1>3. j \in 1 .. n
  <2> HIDE DEF b, n
  <2> QED
    BY <1>0, HoldsBucket
<1>4. replace(m, k, v) = [m EXCEPT !.buckets_[j][p] = <<k, v>>]
  BY <1>1 DEF replace
<1>5. replace(m, k, v) = WithBuckets(m, [b EXCEPT ![j] = [b[j] EXCEPT ![p] = <<k, v>>]])
  BY <1>0, <1>4 DEF IsRecord, WithBuckets
<1> QED
  BY <1>0, <1>2, <1>3, <1>5

(* replace, of a key that is there. *)
LEMMA StandsReplace ==
  ASSUME IsHash(hasher_), NEW m, NEW f, StandsFor(hasher_, m, f), NEW k \in DOMAIN f, NEW v \in Value
  PROVE  StandsFor(hasher_, replace(m, k, v), Put(f, k, v))
<1> DEFINE b == m.buckets_
           n == Len(m.buckets_)
           num == m.num_elements_
           j == Index(hasher_, k, n)
           p == find_entry(m, k)
           c == [b EXCEPT ![j] = [b[j] EXCEPT ![p] = <<k, v>>]]
           d == replace(m, k, v)
           K == DOMAIN f
           g == Put(f, k, v)
<1>0. /\ IsRecord(m) /\ n \in Nat \ {0} /\ num \in Nat /\ IsTable(f) /\ num = Cardinality(K)
      /\ Holds(hasher_, b, n, f, K) /\ Light(num, n)
  BY StandsFacts DEF StandsFor
<1>1. DOMAIN g = K /\ IsTable(g) /\ g[k] = v /\ \A l \in K \ {k} : g[l] = f[l]
  <2>1. DOMAIN g = K /\ g[k] = v /\ \A l \in K \ {k} : g[l] = f[l]
    BY DEF Put
  <2>2. g \in [K -> Value]
    BY <1>0 DEF Put, IsTable
  <2> HIDE DEF g
  <2> QED
    BY <1>0, <2>1, <2>2 DEF IsTable
<1>2. d = WithBuckets(m, c) /\ p \in 1 .. Len(b[j]) /\ b[j][p][1] = k
  BY ReplaceBucket
<1>2a. k \in K
  OBVIOUS
<1> HIDE DEF K, g, n, num, p, d, b
<1>3. Holds(hasher_, c, n, g, K)
  BY <1>0, <1>1, <1>2, <1>2a, HoldsReplace
<1>4. IsLists(c, Entry) /\ Len(c) = n
  BY <1>3 DEF Holds
<1> HIDE DEF c
<1>5. IsRecord(d) /\ d.buckets_ = c /\ d.num_elements_ = num
  BY <1>0, <1>2, <1>4, RecordSet DEF num
<1>6. StandsFor(hasher_, d, g)
  BY <1>0, <1>1, <1>3, <1>4, <1>5 DEF StandsFor
<1> QED
  BY <1>6 DEF d, g

(* insert_or_assign. *)
LEMMA StandsAssign ==
  ASSUME IsHash(hasher_), NEW m, NEW f, StandsFor(hasher_, m, f), NEW k \in Key, NEW v \in Value
  PROVE  StandsFor(hasher_, insert_or_assign(m, k, v), Put(f, k, v))
<1>1. CASE k \in DOMAIN f
  <2>1. insert_or_assign(m, k, v) = replace(m, k, v)
    BY <1>1, StandsFind DEF insert_or_assign
  <2> QED
    BY <1>1, <2>1, StandsReplace
<1>2. CASE k \notin DOMAIN f
  <2>1. insert_or_assign(m, k, v)
          = Emplaced(Grown(m), get_index(k, bucket_count(Grown(m))), k, v)
    BY <1>2, StandsFind DEF insert_or_assign, safe_insert
  <2> QED
    BY <1>2, <2>1, StandsNew
<1> QED
  BY <1>1, <1>2

(* erase. *)
LEMMA StandsErase ==
  ASSUME IsHash(hasher_), NEW m, NEW f, StandsFor(hasher_, m, f), NEW k \in Key
  PROVE  StandsFor(hasher_, erase(m, k), [l \in DOMAIN f \ {k} |-> f[l]])
<1> DEFINE b == m.buckets_
           n == Len(m.buckets_)
           num == m.num_elements_
           j == Index(hasher_, k, n)
           p == find_entry(m, k)
           c == [b EXCEPT ![j] = SE!RemoveAt(b[j], p)]
           d == erase(m, k)
           K == DOMAIN f
           g == [l \in DOMAIN f \ {k} |-> f[l]]
<1>0. /\ IsRecord(m) /\ IsLists(b, Entry) /\ n \in Nat \ {0} /\ num \in Nat
      /\ IsFiniteSet(K) /\ IsTable(f) /\ num = Cardinality(K)
      /\ Holds(hasher_, b, n, f, K) /\ Light(num, n)
  BY StandsFacts DEF StandsFor
<1>1. CASE k \notin K
  <2>1. d = m
    BY <1>1, StandsFind DEF erase
  <2>2. g = f
    BY <1>0, <1>1 DEF IsTable
  <2> QED
    BY <2>1, <2>2
<1>2. CASE k \in K
  <2>0. get_index(k, bucket_count(m)) = j /\ get_index(k, Len(m.buckets_)) = j
    BY DEF get_index, bucket_count, Index
  <2>1. p \in 1 .. Len(b[j]) /\ p # 0 /\ b[j][p][1] = k
    BY <1>2, <2>0, StandsFind
  <2>2. d = WithBoth(m, c, num - 1)
    <3>1. d = [m EXCEPT !.buckets_[j] = SE!RemoveAt(@, p), !.num_elements_ = @ - 1]
      BY <2>0, <2>1 DEF erase
    <3> QED
      BY <1>0, <3>1 DEF IsRecord, WithBoth
  <2>3. DOMAIN g = K \ {k} /\ IsTable(g) /\ \A l \in K \ {k} : g[l] = f[l]
    <3>1. DOMAIN g = K \ {k} /\ \A l \in K \ {k} : g[l] = f[l]
      OBVIOUS
    <3>2. g \in [K \ {k} -> Value]
      BY <1>0 DEF IsTable
    <3> HIDE DEF g
    <3> QED
      BY <1>0, <3>1, <3>2 DEF IsTable
  <2> HIDE DEF K, g, n, num, p, d, b
  <2>4. Holds(hasher_, c, n, g, K \ {k})
    BY <1>0, <1>2, <2>1, <2>3, HoldsErase
  <2>5. Cardinality(K \ {k}) = num - 1 /\ Cardinality(K \ {k}) \in Nat
    BY <1>0, <1>2, FS_RemoveElement, FS_CardinalityType
  <2>6. IsLists(c, Entry) /\ Len(c) = n /\ num - 1 \in Nat
    BY <2>4, <2>5 DEF Holds
  <2> HIDE DEF c
  <2>7. IsRecord(d) /\ d.buckets_ = c /\ d.num_elements_ = num - 1
    BY <1>0, <2>2, <2>6, RecordSetBoth
  <2>8. Light(num - 1, n)
    <3>0. LoadNum \in Nat \ {0} /\ LoadDen \in Nat \ {0}
      BY HashMapAssumption
    <3>1. (num - 1) * LoadDen = (num * LoadDen) - LoadDen /\ num * LoadDen \in Nat
      BY <1>0, <3>0
    <3>2. LoadNum * n \in Nat
      BY <1>0, <3>0
    <3>3. num * LoadDen <= LoadNum * n
      BY <1>0 DEF Light
    <3> DEFINE a == num * LoadDen
               e == LoadNum * n
    <3> HIDE DEF a, e
    <3>4. a - LoadDen <= e
      BY <3>0, <3>1, <3>2, <3>3 DEF a, e
    <3> QED
      BY <3>1, <3>4 DEF Light, a, e
  <2>9. StandsFor(hasher_, d, g)
    BY <2>3, <2>4, <2>5, <2>6, <2>7, <2>8 DEF StandsFor
  <2> QED
    BY <2>9 DEF d, g
<1> QED
  BY <1>1, <1>2

(* reserve. *)
LEMMA StandsReserve ==
  ASSUME IsHash(hasher_), NEW m, NEW f, StandsFor(hasher_, m, f), NEW count \in Nat
  PROVE  StandsFor(hasher_, reserve(m, count), f)
<1> DEFINE n == Len(m.buckets_)
           num == m.num_elements_
           r == RequiredBuckets(count)
<1>0. n \in Nat \ {0} /\ num \in Nat /\ Light(num, n)
  BY StandsFacts DEF StandsFor
<1>1. LoadNum \in Nat \ {0} /\ LoadDen \in Nat \ {0}
  BY HashMapAssumption
<1>2. r \in Int
  BY <1>1 DEF RequiredBuckets
<1>3. CASE r > n
  <2>0. reserve(m, count) = rehash(m, r)
    BY <1>3 DEF reserve, bucket_count
  <2> HIDE DEF r, n, num
  <2>1. r \in Nat \ {0}
    BY <1>0, <1>2, <1>3
  <2>2. LoadNum * n <= LoadNum * r /\ LoadNum * n \in Nat /\ LoadNum * r \in Nat
    BY <1>0, <1>1, <1>3, <2>1
  <2>3. num * LoadDen \in Nat
    BY <1>0, <1>1
  <2>4. Light(num, r)
    <3> DEFINE a == num * LoadDen
               b == LoadNum * n
               c == LoadNum * r
    <3>1. a <= b /\ b <= c /\ a \in Nat /\ b \in Nat /\ c \in Nat
      BY <1>0, <2>2, <2>3 DEF Light
    <3> HIDE DEF a, b, c
    <3>2. a <= c
      BY <3>1
    <3> QED
      BY <3>2 DEF a, c, Light
  <2> QED
    BY <2>0, <2>1, <2>4, StandsRehash DEF num
<1>4. CASE ~(r > n)
  BY <1>4 DEF reserve, bucket_count
<1> QED
  BY <1>3, <1>4

-----------------------------------------------------------------------------
(* Lists of entries.                                                       *)

IsList(list) == list \in Seq(Key \X Value)

(* An entry of a list has a key and a value. *)
LEMMA ListFacts ==
  ASSUME NEW list, IsList(list)
  PROVE  /\ Len(list) \in Nat
         /\ \A i \in 1 .. Len(list) : list[i][1] \in Key /\ list[i][2] \in Value
<1>1. Len(list) \in Nat /\ \A i \in 1 .. Len(list) : list[i] \in Key \X Value
  BY DEF IsList
<1> QED
  BY <1>1

(* What the tables go through when a list is put into them. *)
PutTurns(t, f, list) ==
  /\ t[0] = f
  /\ \A i \in 1 .. Len(list) : t[i] = PutNew(t[i - 1], list[i][1], list[i][2])

(* PutList is what its recursion says. *)
LEMMA PutListDef ==
  ASSUME NEW f, IsTable(f), NEW list, IsList(list)
  PROVE  \E t : PutTurns(t, f, list) /\ PutList(f, list) = t[Len(list)]
<1> DEFINE N == Len(list)
           Turn(g, i) == PutNew(g, list[i][1], list[i][2])
           X == {g \in UNION {[D -> Value] : D \in SUBSET Key} : IsTable(g)}
           step == [q \in (1 .. N) \X X |-> Turn(q[2], q[1])]
           Eq(g) == g = [i \in 0 .. N |-> IF i = 0 THEN f ELSE Turn(g[i - 1], i)]
           r == CHOOSE g : Eq(g)
<1>0. N \in Nat /\ \A i \in 1 .. N : list[i][1] \in Key /\ list[i][2] \in Value
  BY ListFacts
<1>1. PutList(f, list) = r[N]
  BY Zenon DEF PutList
<1>2. \A g : g \in X <=> IsTable(g)
  BY DEF IsTable
<1>3. ASSUME NEW g, g \in X, NEW i \in 1 .. N PROVE Turn(g, i) \in X
  <2> DEFINE k == list[i][1]
             v == list[i][2]
  <2>1. k \in Key /\ v \in Value /\ IsTable(g)
    BY <1>0, <1>2, <1>3
  <2> HIDE DEF k, v
  <2>2. IsTable(PutNew(g, k, v))
    <3>1. CASE k \in DOMAIN g
      BY <2>1, <3>1 DEF PutNew
    <3>2. CASE k \notin DOMAIN g
      <4> DEFINE p == Put(g, k, v)
                 K == DOMAIN g \cup {k}
      <4>1. DOMAIN p = K /\ K \subseteq Key /\ p \in [K -> Value]
        BY <2>1 DEF Put, IsTable
      <4> HIDE DEF p, K
      <4>2. IsTable(p)
        BY <4>1 DEF IsTable
      <4> QED
        BY <3>2, <4>2 DEF PutNew, p
    <3> QED
      BY <3>1, <3>2
  <2> HIDE DEF X
  <2> QED
    BY <1>2, <2>2 DEF k, v
<1>4. IsStep(step, N, X)
  <2> HIDE DEF X, Turn
  <2> QED
    BY <1>3 DEF IsStep
<1>5. PICK p : IsHistory(p, step, f, N, X)
  <2>1. f \in X
    BY <1>2
  <2> HIDE DEF X, N, step
  <2> QED
    BY <1>0, <1>4, <2>1, RecursionExists
<1> HIDE DEF X, Turn
<1>6. p \in [0 .. N -> X] /\ p[0] = f
  BY <1>5 DEF IsHistory
<1>7. \A i \in 1 .. N : p[i] = Turn(p[i - 1], i)
  <2> SUFFICES ASSUME NEW i \in 1 .. N PROVE p[i] = Turn(p[i - 1], i)
    OBVIOUS
  <2>1. i - 1 \in 0 .. N
    BY <1>0
  <2>2. p[i - 1] \in X
    BY <1>6, <2>1
  <2>3. p[i] = step[<<i, p[i - 1]>>]
    BY <1>5 DEF IsHistory
  <2> QED
    BY <2>2, <2>3
<1>8. Eq(p)
  BY <1>0, <1>6, <1>7
<1>9. Eq(r)
  <2> HIDE DEF Eq
  <2> QED
    BY <1>8, Zenon
<1> HIDE DEF r
<1>10. r[0] = f /\ \A i \in 1 .. N : r[i] = Turn(r[i - 1], i)
  BY <1>0, <1>9
<1>11. PutTurns(r, f, list)
  BY <1>10 DEF PutTurns, Turn
<1> QED
  BY <1>1, <1>11

(* What the map goes through when a list is inserted. *)
InsertTurns(t, m, list) ==
  /\ t[0] = reserve(m, m.num_elements_ + Len(list))
  /\ \A i \in 1 .. Len(list) : t[i] = insert(t[i - 1], list[i][1], list[i][2])

IsSound(h, m) == \E f : StandsFor(h, m, f)

(* insert of a list is what its recursion says. *)
LEMMA InsertListDef ==
  ASSUME IsHash(hasher_), NEW m, IsSound(hasher_, m), NEW list, IsList(list)
  PROVE  \E t : InsertTurns(t, m, list) /\ insert_list(m, list) = t[Len(list)]
<1> DEFINE N == Len(list)
           Turn(d, i) == insert(d, list[i][1], list[i][2])
           x0 == reserve(m, m.num_elements_ + N)
           X == {d \in [buckets_ : Seq(Seq(Entry)), num_elements_ : Nat] : IsSound(hasher_, d)}
           step == [q \in (1 .. N) \X X |-> Turn(q[2], q[1])]
           Eq(g) == g = [i \in 0 .. N |-> IF i = 0 THEN x0 ELSE Turn(g[i - 1], i)]
           r == CHOOSE g : Eq(g)
<1>0. N \in Nat /\ \A i \in 1 .. N : list[i][1] \in Key /\ list[i][2] \in Value
  BY ListFacts
<1>1. insert_list(m, list) = r[N]
  BY Zenon DEF insert_list
<1>2. \A d : d \in X <=> IsSound(hasher_, d)
  BY DEF IsSound, StandsFor, IsRecord
<1>3. ASSUME NEW d, d \in X, NEW i \in 1 .. N PROVE Turn(d, i) \in X
  <2> DEFINE k == list[i][1]
             v == list[i][2]
  <2>1. k \in Key /\ v \in Value /\ IsSound(hasher_, d)
    BY <1>0, <1>2, <1>3
  <2> HIDE DEF k, v, X
  <2>2. PICK f : StandsFor(hasher_, d, f)
    BY <2>1 DEF IsSound
  <2>3. StandsFor(hasher_, insert(d, k, v), PutNew(f, k, v))
    BY <2>1, <2>2, StandsInsert
  <2>4. IsSound(hasher_, insert(d, k, v))
    BY <2>3 DEF IsSound
  <2> QED
    BY <1>2, <2>4 DEF k, v
<1>4. IsStep(step, N, X)
  <2> HIDE DEF X, Turn
  <2> QED
    BY <1>3 DEF IsStep
<1>5. x0 \in X
  <2>1. PICK f : StandsFor(hasher_, m, f)
    BY DEF IsSound
  <2>2. m.num_elements_ + N \in Nat
    BY <1>0, <2>1, StandsFacts
  <2>3. StandsFor(hasher_, x0, f)
    BY <2>1, <2>2, StandsReserve
  <2>4. IsSound(hasher_, x0)
    BY <2>3 DEF IsSound
  <2> HIDE DEF X, x0
  <2> QED
    BY <1>2, <2>4
<1>6. PICK p : IsHistory(p, step, x0, N, X)
  <2> HIDE DEF X, N, step, x0
  <2> QED
    BY <1>0, <1>4, <1>5, RecursionExists
<1> HIDE DEF X, Turn, x0
<1>7. p \in [0 .. N -> X] /\ p[0] = x0
  BY <1>6 DEF IsHistory
<1>8. \A i \in 1 .. N : p[i] = Turn(p[i - 1], i)
  <2> SUFFICES ASSUME NEW i \in 1 .. N PROVE p[i] = Turn(p[i - 1], i)
    OBVIOUS
  <2>1. i - 1 \in 0 .. N
    BY <1>0
  <2>2. p[i - 1] \in X
    BY <1>7, <2>1
  <2>3. p[i] = step[<<i, p[i - 1]>>]
    BY <1>6 DEF IsHistory
  <2> QED
    BY <2>2, <2>3
<1>9. Eq(p)
  BY <1>0, <1>7, <1>8
<1>10. Eq(r)
  <2> HIDE DEF Eq
  <2> QED
    BY <1>9, Zenon
<1> HIDE DEF r
<1>11. r[0] = x0 /\ \A i \in 1 .. N : r[i] = Turn(r[i - 1], i)
  BY <1>0, <1>10
<1>12. InsertTurns(r, m, list)
  BY <1>11 DEF InsertTurns, Turn, x0
<1> QED
  BY <1>1, <1>12

(* Turn by turn the map stands for the table. *)
LEMMA StandsInsertList ==
  ASSUME IsHash(hasher_), NEW m, NEW f, StandsFor(hasher_, m, f), NEW list, IsList(list)
  PROVE  StandsFor(hasher_, insert_list(m, list), PutList(f, list))
<1> DEFINE N == Len(list)
<1>0. N \in Nat /\ \A i \in 1 .. N : list[i][1] \in Key /\ list[i][2] \in Value
  BY ListFacts
<1>1. IsSound(hasher_, m) /\ IsTable(f)
  BY DEF IsSound, StandsFor
<1>2. PICK r : InsertTurns(r, m, list) /\ insert_list(m, list) = r[N]
  BY <1>1, InsertListDef
<1>3. PICK t : PutTurns(t, f, list) /\ PutList(f, list) = t[N]
  BY <1>1, PutListDef
<1> DEFINE S == {i \in 0 .. N : StandsFor(hasher_, r[i], t[i])}
<1>4. 0 \in S
  <2>1. m.num_elements_ + N \in Nat
    BY <1>0, StandsFacts
  <2>2. StandsFor(hasher_, reserve(m, m.num_elements_ + N), f)
    BY <2>1, StandsReserve
  <2>3. StandsFor(hasher_, r[0], t[0])
    BY <1>2, <1>3, <2>2 DEF InsertTurns, PutTurns
  <2>4. 0 \in 0 .. N
    BY <1>0
  <2> QED
    BY <2>3, <2>4
<1>5. ASSUME NEW i \in 0 .. N - 1, i \in S PROVE i + 1 \in S
  <2> DEFINE k == list[i + 1][1]
             v == list[i + 1][2]
  <2>1. i + 1 \in 1 .. N /\ i + 1 \in 0 .. N /\ (i + 1) - 1 = i
    BY <1>0
  <2>2. k \in Key /\ v \in Value
    BY <1>0, <2>1
  <2>3. r[i + 1] = insert(r[i], k, v) /\ t[i + 1] = PutNew(t[i], k, v)
    BY <1>2, <1>3, <2>1 DEF InsertTurns, PutTurns
  <2>4. StandsFor(hasher_, r[i], t[i])
    BY <1>5
  <2> HIDE DEF k, v
  <2>5. StandsFor(hasher_, r[i + 1], t[i + 1])
    BY <2>2, <2>3, <2>4, StandsInsert
  <2> QED
    BY <2>1, <2>5
<1>6. N \in S
  <2> HIDE DEF S, N
  <2> QED
    BY <1>0, <1>4, <1>5, LoopInduction, Zenon
<1> QED
  BY <1>2, <1>3, <1>6

(* The constructor from a list. *)
LEMMA StandsConstruct ==
  ASSUME IsHash(hasher_), NEW list, IsList(list)
  PROVE  StandsFor(hasher_, construct(list), PutList(EmptyTable, list))
<1> DEFINE capacity == RequiredBuckets(Len(list))
           n == IF capacity > InitialCapacity THEN capacity ELSE InitialCapacity
<1>0. LoadNum \in Nat \ {0} /\ LoadDen \in Nat /\ InitialCapacity \in Nat \ {0} /\ Len(list) \in Nat
  BY HashMapAssumption, ListFacts
<1>1. capacity \in Int
  BY <1>0 DEF RequiredBuckets
<1>2. n \in Nat \ {0}
  <2> HIDE DEF capacity
  <2> QED
    BY <1>0, <1>1
<1>3. construct(list) = insert_list(Empty(n), list)
  BY DEF construct
<1> HIDE DEF n
<1>4. StandsFor(hasher_, Empty(n), EmptyTable)
  BY <1>2, StandsEmpty
<1> QED
  BY <1>3, <1>4, StandsInsertList

-----------------------------------------------------------------------------
(* Loops.                                                                  *)

(* The keys in the buckets b before position l of bucket j. *)
Before(b, j, l) ==
  {k \in Key : \E i \in 1 .. Len(b) : \E q \in 1 .. Len(b[i]) :
     b[i][q][1] = k /\ (i < j \/ (i = j /\ q < l))}

(* Position l of bucket j is that of an entry, or end(). *)
IsPosition(b, j, l) ==
  /\ j \in 1 .. Len(b) + 1 /\ l \in Nat \ {0}
  /\ j <= Len(b) => l <= Len(b[j])
  /\ j = Len(b) + 1 => l = 1

(* A loop that has got as far as the iterator i: it has been given the     *)
(* keys before it, each once.                                              *)
Tour(i, b, vis) ==
  /\ i \in [map : Maps, list_it_ : Nat, bucket_idx_ : Nat]
  /\ IsPosition(b, i.bucket_idx_, i.list_it_)
  /\ vis \in Seq(Key)
  /\ \A p, q \in DOMAIN vis : p # q => vis[p] # vis[q]
  /\ SE!ToSet(vis) = Before(b, i.bucket_idx_, i.list_it_)

(* The buckets have the same keys in the same places. *)
SameKeys(b, d) ==
  /\ Len(b) = Len(d)
  /\ \A i \in 1 .. Len(b) :
       Len(b[i]) = Len(d[i]) /\ \A q \in 1 .. Len(b[i]) : b[i][q][1] = d[i][q][1]

(* An assignment of values does not disturb a loop. *)
LEMMA TourSameKeys ==
  ASSUME NEW i, NEW b, NEW d, NEW vis, IsLists(b, Entry), Tour(i, b, vis), SameKeys(b, d)
  PROVE  Tour(i, d, vis)
<1>1. Len(b) \in Nat
  BY ListsFacts
<1>2. \A j, l : Before(b, j, l) = Before(d, j, l)
  BY DEF Before, SameKeys
<1>3. \A j, l : IsPosition(b, j, l) => IsPosition(d, j, l)
  BY <1>1 DEF IsPosition, SameKeys
<1> QED
  BY <1>2, <1>3 DEF Tour

(* The keys of b are the keys that b holds, each in one place. *)
LEMMA HeldPlaces ==
  ASSUME NEW h, IsHash(h), NEW b, NEW n, NEW f, NEW K, Holds(h, b, n, f, K)
  PROVE  /\ \A i \in 1 .. n : \A q \in 1 .. Len(b[i]) : b[i][q][1] \in K
         /\ \A i, j \in 1 .. n : \A q \in 1 .. Len(b[i]), l \in 1 .. Len(b[j]) :
              b[i][q][1] = b[j][l][1] => i = j /\ q = l
         /\ \A k \in K : \E i \in 1 .. n : \E q \in 1 .. Len(b[i]) : b[i][q][1] = k
<1>1. \A i \in 1 .. n : Represents(b[i], f, Hashed(h, K, n, i))
  BY DEF Holds
<1>2. \A i \in 1 .. n : \A q \in 1 .. Len(b[i]) : b[i][q][1] \in Hashed(h, K, n, i)
  BY <1>1 DEF Represents
<1>3. \A i \in 1 .. n : \A q, l \in 1 .. Len(b[i]) : b[i][q][1] = b[i][l][1] => q = l
  BY <1>1 DEF Represents
<1>4. \A i \in 1 .. n : \A q \in 1 .. Len(b[i]) :
        b[i][q][1] \in K /\ Index(h, b[i][q][1], n) = i
  BY <1>2 DEF Hashed
<1>5. ASSUME NEW i \in 1 .. n, NEW j \in 1 .. n, NEW q \in 1 .. Len(b[i]), NEW l \in 1 .. Len(b[j]),
             b[i][q][1] = b[j][l][1]
      PROVE  i = j /\ q = l
  <2>1. i = j
    BY <1>4, <1>5
  <2> QED
    BY <1>3, <1>5, <2>1
<1>6. ASSUME NEW k \in K PROVE \E i \in 1 .. n : \E q \in 1 .. Len(b[i]) : b[i][q][1] = k
  <2> DEFINE i == Index(h, k, n)
  <2>1. k \in Key
    BY DEF Holds
  <2>2. i \in 1 .. n /\ k \in Hashed(h, K, n, i)
    BY <2>1, HoldsBucket
  <2> HIDE DEF i
  <2>3. \E q \in 1 .. Len(b[i]) : b[i][q][1] = k
    BY <1>1, <2>2 DEF Represents
  <2> QED
    BY <2>2, <2>3
<1> QED
  BY <1>4, <1>5, <1>6

(* Before the first bucket there is nothing, before end() everything. *)
LEMMA BeforeEnds ==
  ASSUME NEW h, IsHash(h), NEW b, NEW n, NEW f, NEW K, Holds(h, b, n, f, K)
  PROVE  /\ Before(b, 1, 1) = {} /\ Before(b, n + 1, 1) = K
         /\ \A j, l : Before(b, j, l) \subseteq K
<1>0. n \in Nat \ {0} /\ Len(b) = n /\ K \subseteq Key /\ IsLists(b, Entry)
  BY DEF Holds
<1>1. /\ \A i \in 1 .. n : \A q \in 1 .. Len(b[i]) : b[i][q][1] \in K
      /\ \A k \in K : \E i \in 1 .. n : \E q \in 1 .. Len(b[i]) : b[i][q][1] = k
  BY HeldPlaces
<1>2. \A i \in 1 .. n : Len(b[i]) \in Nat
  BY <1>0, ListsFacts
<1>3. Before(b, 1, 1) = {}
  BY <1>0, <1>2 DEF Before
<1>4. \A j, l : Before(b, j, l) \subseteq K
  BY <1>0, <1>1 DEF Before
<1>5. ASSUME NEW k \in K PROVE k \in Before(b, n + 1, 1)
  <2>1. PICK i \in 1 .. n : \E q \in 1 .. Len(b[i]) : b[i][q][1] = k
    BY <1>1
  <2>2. i < n + 1
    BY <1>0
  <2> QED
    BY <1>0, <2>1, <2>2 DEF Before
<1> QED
  BY <1>3, <1>4, <1>5

(* The entry at a position comes after the ones before it and before the   *)
(* ones after it.                                                          *)
LEMMA BeforeNext ==
  ASSUME NEW h, IsHash(h), NEW b, NEW n, NEW f, NEW K, Holds(h, b, n, f, K),
         NEW j \in 1 .. n, NEW l \in 1 .. Len(b[j])
  PROVE  /\ b[j][l][1] \notin Before(b, j, l) /\ b[j][l][1] \in Key
         /\ Before(b, j, l + 1) = Before(b, j, l) \cup {b[j][l][1]}
         /\ l = Len(b[j]) => Before(b, j + 1, 1) = Before(b, j, l + 1)
<1>0. n \in Nat \ {0} /\ Len(b) = n /\ K \subseteq Key /\ IsLists(b, Entry)
  BY DEF Holds
<1>1. /\ \A i \in 1 .. n : \A q \in 1 .. Len(b[i]) : b[i][q][1] \in K
      /\ \A i \in 1 .. n : \A q \in 1 .. Len(b[i]) :
           b[i][q][1] = b[j][l][1] => i = j /\ q = l
  <2>1. /\ \A i \in 1 .. n : \A q \in 1 .. Len(b[i]) : b[i][q][1] \in K
        /\ \A i, i2 \in 1 .. n : \A q \in 1 .. Len(b[i]), q2 \in 1 .. Len(b[i2]) :
             b[i][q][1] = b[i2][q2][1] => i = i2 /\ q = q2
    BY HeldPlaces
  <2> QED
    BY <2>1
<1>2. \A i \in 1 .. n : Len(b[i]) \in Nat
  BY <1>0, ListsFacts
<1>3. b[j][l][1] \in Key
  BY <1>0, <1>1
<1>4. b[j][l][1] \notin Before(b, j, l)
  BY <1>0, <1>1, <1>2 DEF Before
<1>5. \A i \in 1 .. n : \A q \in 1 .. Len(b[i]) :
        (i < j \/ (i = j /\ q < l + 1)) <=> (i < j \/ (i = j /\ q < l) \/ (i = j /\ q = l))
  BY <1>2
<1>6. Before(b, j, l + 1) = Before(b, j, l) \cup {b[j][l][1]}
  <2>1. ASSUME NEW k \in Before(b, j, l + 1) PROVE k \in Before(b, j, l) \cup {b[j][l][1]}
    <3>1. PICK i \in 1 .. n : \E q \in 1 .. Len(b[i]) :
            k \in Key /\ b[i][q][1] = k /\ (i < j \/ (i = j /\ q < l + 1))
      BY <1>0, <2>1 DEF Before
    <3>2. PICK q \in 1 .. Len(b[i]) :
            k \in Key /\ b[i][q][1] = k /\ (i < j \/ (i = j /\ q < l + 1))
      BY <3>1
    <3>3. (i < j \/ (i = j /\ q < l)) \/ (i = j /\ q = l)
      BY <1>5, <3>2
    <3> QED
      BY <1>0, <3>2, <3>3 DEF Before
  <2>2. ASSUME NEW k \in Before(b, j, l) PROVE k \in Before(b, j, l + 1)
    <3>1. PICK i \in 1 .. n : \E q \in 1 .. Len(b[i]) :
            k \in Key /\ b[i][q][1] = k /\ (i < j \/ (i = j /\ q < l))
      BY <1>0, <2>2 DEF Before
    <3>2. PICK q \in 1 .. Len(b[i]) :
            k \in Key /\ b[i][q][1] = k /\ (i < j \/ (i = j /\ q < l))
      BY <3>1
    <3>3. i < j \/ (i = j /\ q < l + 1)
      BY <1>5, <3>2
    <3> QED
      BY <1>0, <3>2, <3>3 DEF Before
  <2>3. b[j][l][1] \in Before(b, j, l + 1)
    <3>1. j < j \/ (j = j /\ l < l + 1)
      BY <1>5
    <3> QED
      BY <1>0, <1>3, <3>1 DEF Before
  <2> QED
    BY <2>1, <2>2, <2>3
<1>7. ASSUME l = Len(b[j]) PROVE Before(b, j + 1, 1) = Before(b, j, l + 1)
  <2>1. \A i \in 1 .. n : \A q \in 1 .. Len(b[i]) :
          (i < j + 1 \/ (i = j + 1 /\ q < 1)) <=> (i < j \/ (i = j /\ q < l + 1))
    BY <1>2, <1>7
  <2> QED
    BY <1>0, <2>1 DEF Before
<1> QED
  BY <1>3, <1>4, <1>6, <1>7

(* advance_to_next_valid_bucket skips empty chains only. *)
LEMMA Advanced ==
  ASSUME NEW x \in Maps, IsLists(map[x].buckets_, Entry),
         NEW idx \in 1 .. Len(map[x].buckets_) + 1
  PROVE  LET b == map[x].buckets_
             r == advance_to_next_valid_bucket(x, idx)
         IN  /\ r \in [map : Maps, list_it_ : Nat, bucket_idx_ : Nat]
             /\ r.map = x /\ r.list_it_ = 1
             /\ IsPosition(b, r.bucket_idx_, 1)
             /\ Before(b, r.bucket_idx_, 1) = Before(b, idx, 1)
<1> DEFINE b == map[x].buckets_
           n == Len(b)
           valid == {i \in idx .. n : b[i] # <<>>}
           least == CHOOSE i \in valid : \A l \in valid : i <= l
           j == IF valid = {} THEN n + 1 ELSE least
           r == advance_to_next_valid_bucket(x, idx)
<1>0. n \in Nat /\ \A i \in 1 .. n : b[i] \in Seq(Entry)
  BY ListsFacts
<1>1. r = [map |-> x, list_it_ |-> 1, bucket_idx_ |-> j]
  BY Zenon DEF advance_to_next_valid_bucket
<1>2. \A i \in 1 .. n : Len(b[i]) \in Nat /\ (b[i] = <<>> <=> Len(b[i]) = 0)
  BY <1>0, EmptySeq
<1>3. valid # {} => least \in valid /\ \A l \in valid : least <= l
  <2>1. valid \subseteq Nat
    BY <1>0
  <2> HIDE DEF valid
  <2>2. valid # {} => \E i \in valid : \A l \in valid : i <= l
    BY <2>1, LeastNumber
  <2> QED
    BY <2>2, Zenon
<1> HIDE DEF least, b
<1>4. /\ j \in idx .. n + 1 /\ (j <= n => Len(b[j]) > 0)
      /\ \A i \in idx .. j - 1 : i \in 1 .. n /\ Len(b[i]) = 0
  <2>1. CASE valid = {}
    <3>1. j = n + 1 /\ idx \in 1 .. n + 1
      BY <2>1 DEF b
    <3>2. \A i \in idx .. n : i \in 1 .. n /\ i \notin valid
      BY <1>0, <2>1, <3>1
    <3>3. \A i \in idx .. n : i \in 1 .. n /\ Len(b[i]) = 0
      BY <1>2, <3>2
    <3> HIDE DEF j, n
    <3> QED
      BY <1>0, <3>1, <3>3
  <2>2. CASE valid # {}
    <3>1. least \in idx .. n /\ b[least] # <<>> /\ \A l \in valid : least <= l
      BY <1>3, <2>2
    <3>2. j = least
      BY <2>2
    <3>3. ASSUME NEW i \in idx .. j - 1 PROVE i \in 1 .. n /\ Len(b[i]) = 0
      <4>1. i \in idx .. n /\ i \in 1 .. n /\ ~(least <= i)
        BY <1>0, <3>1, <3>2
      <4>2. i \notin valid
        BY <3>1, <4>1
      <4> QED
        BY <1>2, <4>1, <4>2
    <3>4. j \in idx .. n + 1 /\ j \in 1 .. n
      BY <1>0, <3>1, <3>2
    <3>5. Len(b[j]) > 0
      BY <1>2, <3>1, <3>2, <3>4
    <3> QED
      BY <3>3, <3>4, <3>5
  <2> QED
    BY <2>1, <2>2
<1> HIDE DEF j
<1>5. j \in 1 .. n + 1 /\ j \in Nat
  BY <1>0, <1>4
<1>6. IsPosition(b, j, 1)
  <2>1. j <= n => 1 <= Len(b[j])
    BY <1>2, <1>4, <1>5
  <2> QED
    BY <1>5, <2>1 DEF IsPosition
<1>7. \A i \in 1 .. n : \A q \in 1 .. Len(b[i]) :
        (i < j \/ (i = j /\ q < 1)) <=> (i < idx \/ (i = idx /\ q < 1))
  <2> SUFFICES ASSUME NEW i \in 1 .. n, NEW q \in 1 .. Len(b[i])
               PROVE (i < j \/ (i = j /\ q < 1)) <=> (i < idx \/ (i = idx /\ q < 1))
    OBVIOUS
  <2>1. Len(b[i]) \in Nat /\ Len(b[i]) # 0 /\ ~(q < 1)
    BY <1>2
  <2>2. i \notin idx .. j - 1
    BY <1>4, <2>1
  <2>3. i < j <=> i < idx
    BY <1>0, <1>4, <1>5, <2>2
  <2> QED
    BY <2>1, <2>3
<1>8. Before(b, j, 1) = Before(b, idx, 1)
  BY <1>7 DEF Before
<1>9. /\ r \in [map : Maps, list_it_ : Nat, bucket_idx_ : Nat]
      /\ r.map = x /\ r.list_it_ = 1 /\ r.bucket_idx_ = j
  BY <1>1, <1>5
<1> QED
  BY <1>6, <1>8, <1>9 DEF b

(* One key more. *)
LEMMA Visited ==
  ASSUME NEW vis \in Seq(Key), NEW k \in Key, k \notin SE!ToSet(vis),
         \A p, q \in DOMAIN vis : p # q => vis[p] # vis[q]
  PROVE  LET w == Append(vis, k) IN
         /\ w \in Seq(Key) /\ \A p, q \in DOMAIN w : p # q => w[p] # w[q]
         /\ SE!ToSet(w) = SE!ToSet(vis) \cup {k}
<1> DEFINE w == Append(vis, k)
           n == Len(vis)
<1>1. /\ w \in Seq(Key) /\ Len(w) = n + 1 /\ n \in Nat
      /\ w[n + 1] = k /\ \A i \in 1 .. n : w[i] = vis[i]
  BY AppendProperties
<1>2. DOMAIN w = 1 .. n + 1 /\ DOMAIN vis = 1 .. n
  BY <1>1
<1> HIDE DEF w, n
<1>3. \A p \in 1 .. n : vis[p] # k
  BY <1>2 DEF SE!ToSet
<1>4. \A p, q \in DOMAIN w : p # q => w[p] # w[q]
  BY <1>1, <1>2, <1>3
<1>5. SE!ToSet(w) = SE!ToSet(vis) \cup {k}
  BY <1>1, <1>2 DEF SE!ToSet
<1>6. w \in Seq(Key) /\ \A p, q \in DOMAIN w : p # q => w[p] # w[q]
  BY <1>1, <1>4
<1> QED
  BY <1>5, <1>6 DEF w

(* replace leaves the keys where they are. *)
LEMMA ReplaceKeepsKeys ==
  ASSUME IsHash(hasher_), NEW m, NEW f, StandsFor(hasher_, m, f), NEW k \in DOMAIN f, NEW v \in Value
  PROVE  SameKeys(m.buckets_, replace(m, k, v).buckets_)
<1> DEFINE b == m.buckets_
           n == Len(m.buckets_)
           j == Index(hasher_, k, n)
           p == find_entry(m, k)
           e == <<k, v>>
           c == [b[j] EXCEPT ![p] = e]
           d == [b EXCEPT ![j] = c]
<1>1. /\ replace(m, k, v) = WithBuckets(m, d)
      /\ k \in Key /\ p \in 1 .. Len(b[j]) /\ b[j][p][1] = k /\ j \in 1 .. n
  BY ReplaceBucket
<1>2. IsRecord(m) /\ IsLists(b, Entry)
  BY StandsFacts DEF StandsFor
<1>3. b[j] \in Seq(Entry) /\ e \in Entry /\ e[1] = k
  BY <1>1, <1>2, ListsFacts DEF Entry
<1>4. IsChanged(d, b, j, c)
  BY DEF IsChanged
<1> HIDE DEF e, p, n, b, j
<1>5. /\ c \in Seq(Entry) /\ Len(c) = Len(b[j])
      /\ \A i \in 1 .. Len(b[j]) : c[i] = IF i = p THEN e ELSE b[j][i]
  BY <1>1, <1>3, ExceptSeq
<1>5a. j \in 1 .. Len(b)
  BY <1>1 DEF n, b
<1> HIDE DEF c, d
<1>6. /\ IsLists(d, Entry) /\ Len(d) = Len(b)
      /\ \A i \in 1 .. Len(b) : d[i] = IF i = j THEN c ELSE b[i]
  BY <1>2, <1>4, <1>5, <1>5a, ListsExcept
<1>7. replace(m, k, v).buckets_ = d
  BY <1>1, <1>2, <1>6, RecordSet
<1>8. \A i \in 1 .. Len(b[j]) : b[j][i][1] = c[i][1]
  BY <1>1, <1>3, <1>5
<1>9. SameKeys(b, d)
  BY <1>5, <1>6, <1>8 DEF SameKeys
<1> QED
  BY <1>7, <1>9 DEF b

-----------------------------------------------------------------------------
(* The invariant.                                                          *)

MapsStand == \A x \in Maps : StandsFor(hasher_, map[x], table[x])
LoopStands == it # Nil => Tour(it, map[it.map].buckets_, visited)

(* Every map stands for its table, and a loop has been given the keys      *)
(* before its iterator.                                                    *)
MapInv ==
  /\ hasher_ \in [Key -> 0 .. HashBound - 1]
  /\ DOMAIN map = Maps /\ DOMAIN table = Maps
  /\ MapsStand
  /\ visited \in Seq(Key)
  /\ LoopStands

(* A hash function has numbers for values. *)
LEMMA HasherFacts == ASSUME hasher_ \in [Key -> 0 .. HashBound - 1] PROVE IsHash(hasher_)
<1>1. HashBound \in Nat
  BY HashMapAssumption
<1> QED
  BY <1>1 DEF IsHash

(* What the invariant says of one map. *)
LEMMA InvFacts ==
  ASSUME MapInv, NEW x \in Maps
  PROVE  /\ IsHash(hasher_) /\ StandsFor(hasher_, map[x], table[x])
         /\ IsLists(map[x].buckets_, Entry)
         /\ Holds(hasher_, map[x].buckets_, Len(map[x].buckets_), table[x], DOMAIN table[x])
<1>1. IsHash(hasher_)
  BY HasherFacts DEF MapInv
<1>2. StandsFor(hasher_, map[x], table[x])
  BY DEF MapInv, MapsStand
<1>3. Holds(hasher_, map[x].buckets_, Len(map[x].buckets_), table[x], DOMAIN table[x])
  BY <1>2 DEF StandsFor
<1>4. IsLists(map[x].buckets_, Entry)
  BY <1>1, <1>2, StandsFacts
<1> QED
  BY <1>1, <1>2, <1>3, <1>4

(* Init. *)
LEMMA InitInv == Init => MapInv
<1> SUFFICES ASSUME Init PROVE MapInv
  OBVIOUS
<1>1. InitialCapacity \in Nat \ {0}
  BY HashMapAssumption
<1>2. hasher_ \in [Key -> 0 .. HashBound - 1] /\ DOMAIN map = Maps /\ DOMAIN table = Maps
  BY DEF Init
<1>3. \A x \in Maps : map[x] = Empty(InitialCapacity) /\ table[x] = EmptyTable
  BY DEF Init
<1>4. StandsFor(hasher_, Empty(InitialCapacity), EmptyTable)
  BY <1>1, StandsEmpty
<1>5. MapsStand
  BY <1>3, <1>4 DEF MapsStand
<1>6. visited \in Seq(Key) /\ LoopStands
  BY DEF Init, LoopStands
<1> QED
  BY <1>2, <1>5, <1>6 DEF MapInv

(* A map becomes m and its table f: the calls that change one map.  The    *)
(* keys of a map in a loop stay where they are.                            *)
LEMMA ChangeInv ==
  ASSUME MapInv, NEW x \in Maps, NEW m, NEW f, Change(x, m, f), StandsFor(hasher_, m, f),
         it # Nil /\ it.map = x => SameKeys(map[x].buckets_, m.buckets_)
  PROVE  MapInv'
<1>1. UNCHANGED <<hasher_, it, visited>> /\ DOMAIN map' = Maps /\ DOMAIN table' = Maps
  BY DEF Change, MapInv
<1>2. \A y \in Maps : /\ map'[y] = IF y = x THEN m ELSE map[y]
                      /\ table'[y] = IF y = x THEN f ELSE table[y]
  BY DEF Change, MapInv
<1>3. MapsStand'
  BY <1>1, <1>2 DEF MapInv, MapsStand
<1>4. LoopStands'
  <2> SUFFICES ASSUME it # Nil PROVE Tour(it, map'[it.map].buckets_, visited)
    BY <1>1 DEF LoopStands
  <2>1. Tour(it, map[it.map].buckets_, visited) /\ it.map \in Maps
    BY DEF MapInv, LoopStands, Tour
  <2>2. CASE it.map = x
    <3>1. IsLists(map[x].buckets_, Entry)
      BY InvFacts
    <3>2. Tour(it, m.buckets_, visited)
      BY <2>1, <2>2, <3>1, TourSameKeys
    <3> QED
      BY <1>2, <2>1, <2>2, <3>2
  <2>3. CASE it.map # x
    BY <1>2, <2>1, <2>3
  <2> QED
    BY <2>2, <2>3
<1> QED
  BY <1>1, <1>3, <1>4 DEF MapInv

(* No loop goes through the map. *)
LEMMA ChangeOther ==
  ASSUME MapInv, NEW x \in Maps, NEW m, NEW f, Change(x, m, f), StandsFor(hasher_, m, f),
         NotIterated(x)
  PROVE  MapInv'
BY ChangeInv DEF NotIterated

(* insert_or_assign, also in a loop. *)
LEMMA InsertOrAssignInv ==
  ASSUME MapInv, NEW x \in Maps, NEW k \in Key, NEW v \in Value, InsertOrAssign(x, k, v)
  PROVE  MapInv'
<1> DEFINE m == insert_or_assign(map[x], k, v)
           f == Put(table[x], k, v)
<1>1. IsHash(hasher_) /\ StandsFor(hasher_, map[x], table[x])
  BY InvFacts
<1>2. StandsFor(hasher_, m, f)
  BY <1>1, StandsAssign
<1>3. Change(x, m, f)
  BY DEF InsertOrAssign
<1>4. ASSUME it # Nil, it.map = x PROVE SameKeys(map[x].buckets_, m.buckets_)
  <2>1. find_entry(map[x], k) # 0
    BY <1>4 DEF InsertOrAssign, NotIterated
  <2>2. k \in DOMAIN table[x]
    BY <1>1, <2>1, StandsFind
  <2>3. m = replace(map[x], k, v)
    BY <2>1 DEF insert_or_assign
  <2> QED
    BY <1>1, <2>2, <2>3, ReplaceKeepsKeys
<1> HIDE DEF m, f
<1> QED
  BY <1>2, <1>3, <1>4, ChangeInv

(* Move construction and assignment. *)
LEMMA MoveInv ==
  ASSUME MapInv, NEW x \in Maps, NEW y \in Maps, Move(x, y)
  PROVE  MapInv'
<1>0. x # y /\ NotIterated(x) /\ NotIterated(y)
  BY DEF Move
<1>1. UNCHANGED <<hasher_, it, visited>> /\ DOMAIN map' = Maps /\ DOMAIN table' = Maps
  BY DEF Move, MapInv
<1>2. \A z \in Maps :
        /\ map'[z] = IF z = y THEN Empty(1) ELSE IF z = x THEN map[y] ELSE map[z]
        /\ table'[z] = IF z = y THEN EmptyTable ELSE IF z = x THEN table[y] ELSE table[z]
  BY <1>0 DEF Move, MapInv, moved_from
<1>3. StandsFor(hasher_, Empty(1), EmptyTable)
  BY StandsEmpty
<1>4. MapsStand'
  BY <1>1, <1>2, <1>3 DEF MapInv, MapsStand
<1>5. LoopStands'
  <2> SUFFICES ASSUME it # Nil PROVE Tour(it, map'[it.map].buckets_, visited)
    BY <1>1 DEF LoopStands
  <2>1. Tour(it, map[it.map].buckets_, visited) /\ it.map \in Maps
    BY DEF MapInv, LoopStands, Tour
  <2> QED
    BY <1>0, <1>2, <2>1 DEF NotIterated
<1> QED
  BY <1>1, <1>4, <1>5 DEF MapInv

(* begin(). *)
LEMMA beginInv ==
  ASSUME MapInv, NEW x \in Maps, begin(x)
  PROVE  MapInv'
<1> DEFINE b == map[x].buckets_
           n == Len(map[x].buckets_)
           r == advance_to_next_valid_bucket(x, 1)
<1>0. /\ IsHash(hasher_) /\ IsLists(b, Entry)
      /\ Holds(hasher_, b, n, table[x], DOMAIN table[x])
  BY InvFacts
<1>1. it' = r /\ visited' = <<>> /\ UNCHANGED <<hasher_, map, table>>
  BY DEF begin
<1>2. 1 \in 1 .. n + 1
  BY <1>0, ListsFacts
<1>3. /\ r \in [map : Maps, list_it_ : Nat, bucket_idx_ : Nat] /\ r.map = x /\ r.list_it_ = 1
      /\ IsPosition(b, r.bucket_idx_, 1) /\ Before(b, r.bucket_idx_, 1) = Before(b, 1, 1)
  BY <1>0, <1>2, Advanced
<1>4. Before(b, 1, 1) = {}
  <2> HIDE DEF b, n
  <2> QED
    BY <1>0, BeforeEnds
<1>5. <<>> \in Seq(Key) /\ DOMAIN <<>> = {}
  OBVIOUS
<1>6. SE!ToSet(<<>>) = {}
  BY <1>5 DEF SE!ToSet
<1> HIDE DEF r
<1>7. Tour(r, b, <<>>)
  BY <1>3, <1>4, <1>5, <1>6 DEF Tour
<1>8. LoopStands'
  BY <1>1, <1>3, <1>7 DEF LoopStands
<1>9. MapsStand' /\ hasher_' \in [Key -> 0 .. HashBound - 1] /\ DOMAIN map' = Maps
      /\ DOMAIN table' = Maps /\ visited' \in Seq(Key)
  BY <1>1, <1>5 DEF MapInv, MapsStand
<1> QED
  BY <1>8, <1>9 DEF MapInv

(* The body of a loop and operator++. *)
LEMMA iterateInv == ASSUME MapInv, iterate PROVE MapInv'
<1> DEFINE x == it.map
           b == map[x].buckets_
           n == Len(b)
           j == it.bucket_idx_
           l == it.list_it_
           k == b[j][l][1]
           w == Append(visited, k)
           r == Incremented
<1>0. Tour(it, b, visited) /\ it # Nil /\ x \in Maps
  BY DEF MapInv, LoopStands, iterate, Tour
<1>1. /\ IsHash(hasher_) /\ IsLists(b, Entry)
      /\ Holds(hasher_, b, n, table[x], DOMAIN table[x])
  BY <1>0, InvFacts
<1>2. it' = r /\ visited' = w /\ UNCHANGED <<hasher_, map, table>> /\ ~(j > n)
  BY DEF iterate, AtEnd, bucket_count
<1>3. n \in Nat /\ \A i \in 1 .. n : Len(b[i]) \in Nat
  BY <1>1, ListsFacts
<1>4. /\ it \in [map : Maps, list_it_ : Nat, bucket_idx_ : Nat]
      /\ IsPosition(b, j, l) /\ visited \in Seq(Key)
      /\ \A p, q \in DOMAIN visited : p # q => visited[p] # visited[q]
      /\ SE!ToSet(visited) = Before(b, j, l)
  BY <1>0 DEF Tour
<1>5. r = IF l < Len(b[j]) THEN [it EXCEPT !.list_it_ = @ + 1]
          ELSE advance_to_next_valid_bucket(x, j + 1)
  BY DEF Incremented
<1> HIDE DEF j, l, n, r, x
<1>6. j \in 1 .. n /\ l \in 1 .. Len(b[j])
  <2>1. j \in 1 .. n + 1 /\ l \in Nat \ {0} /\ (j <= n => l <= Len(b[j]))
    BY <1>4 DEF IsPosition, n
  <2>2. j \in 1 .. n
    BY <1>2, <1>3, <2>1
  <2> QED
    BY <1>3, <2>1, <2>2
<1>7. /\ k \notin Before(b, j, l) /\ k \in Key
      /\ Before(b, j, l + 1) = Before(b, j, l) \cup {k}
      /\ l = Len(b[j]) => Before(b, j + 1, 1) = Before(b, j, l + 1)
  <2> HIDE DEF b
  <2> QED
    BY <1>1, <1>6, BeforeNext
<1> HIDE DEF k
<1>8. /\ w \in Seq(Key) /\ \A p, q \in DOMAIN w : p # q => w[p] # w[q]
      /\ SE!ToSet(w) = SE!ToSet(visited) \cup {k}
  BY <1>4, <1>7, Visited
<1> HIDE DEF w
<1>9. SE!ToSet(w) = Before(b, j, l + 1)
  BY <1>4, <1>7, <1>8
<1>10. Tour(r, b, w) /\ r.map = x
  <2>1. CASE l < Len(b[j])
    <3>1. r = [it EXCEPT !.list_it_ = l + 1]
      BY <1>5, <2>1 DEF l
    <3>2. /\ r \in [map : Maps, list_it_ : Nat, bucket_idx_ : Nat]
          /\ r.map = x /\ r.list_it_ = l + 1 /\ r.bucket_idx_ = j
      BY <1>4, <1>6, <3>1 DEF x, j
    <3>3. IsPosition(b, j, l + 1)
      BY <1>3, <1>6, <2>1 DEF IsPosition, n
    <3> QED
      BY <1>8, <1>9, <3>2, <3>3 DEF Tour
  <2>2. CASE ~(l < Len(b[j]))
    <3>1. l = Len(b[j]) /\ j + 1 \in 1 .. n + 1
      BY <1>3, <1>6, <2>2
    <3>2. r = advance_to_next_valid_bucket(x, j + 1)
      BY <1>5, <2>2
    <3>3. /\ r \in [map : Maps, list_it_ : Nat, bucket_idx_ : Nat]
          /\ r.map = x /\ r.list_it_ = 1 /\ IsPosition(b, r.bucket_idx_, 1)
          /\ Before(b, r.bucket_idx_, 1) = Before(b, j + 1, 1)
      BY <1>0, <1>1, <3>1, <3>2, Advanced DEF n
    <3>4. Before(b, r.bucket_idx_, 1) = Before(b, j, l + 1)
      BY <1>7, <3>1, <3>3
    <3> QED
      BY <1>8, <1>9, <3>3, <3>4 DEF Tour
  <2> QED
    BY <2>1, <2>2
<1>11. LoopStands'
  BY <1>2, <1>10 DEF LoopStands
<1>12. MapsStand' /\ hasher_' \in [Key -> 0 .. HashBound - 1] /\ DOMAIN map' = Maps
       /\ DOMAIN table' = Maps /\ visited' \in Seq(Key)
  BY <1>2, <1>8 DEF MapInv, MapsStand
<1> QED
  BY <1>11, <1>12 DEF MapInv

(* The end of a loop. *)
LEMMA leave_loopInv == ASSUME MapInv, leave_loop PROVE MapInv'
BY DEF leave_loop, MapInv, MapsStand, LoopStands

(* Every step. *)
LEMMA NextInv == MapInv /\ [Next]_vars => MapInv'
<1> SUFFICES ASSUME MapInv, [Next]_vars PROVE MapInv'
  OBVIOUS
<1>0. \A x \in Maps : IsHash(hasher_) /\ StandsFor(hasher_, map[x], table[x])
  BY InvFacts
<1>1. ASSUME NEW x \in Maps, NEW k \in Key, NEW v \in Value, Insert(x, k, v) PROVE MapInv'
  <2>1. StandsFor(hasher_, insert(map[x], k, v), PutNew(table[x], k, v))
    BY <1>0, StandsInsert
  <2> QED
    BY <1>1, <2>1, ChangeOther DEF Insert
<1>2. ASSUME NEW x \in Maps, NEW k \in Key, NEW v \in Value, InsertOrAssign(x, k, v) PROVE MapInv'
  BY <1>2, InsertOrAssignInv
<1>3. ASSUME NEW x \in Maps, NEW k \in Key, Subscript(x, k) PROVE MapInv'
  <2>1. StandsFor(hasher_, subscript(map[x], k), PutNew(table[x], k, Default))
    BY <1>0, StandsSubscript
  <2> QED
    BY <1>3, <2>1, ChangeOther DEF Subscript
<1>4. ASSUME NEW x \in Maps, NEW k \in Key, Erase(x, k) PROVE MapInv'
  <2> DEFINE f == [j \in DOMAIN table[x] \ {k} |-> table[x][j]]
  <2>1. StandsFor(hasher_, erase(map[x], k), f)
    BY <1>0, StandsErase
  <2>2. NotIterated(x) /\ Change(x, erase(map[x], k), f)
    BY <1>4 DEF Erase
  <2> HIDE DEF f
  <2> QED
    BY <2>1, <2>2, ChangeOther
<1>5. ASSUME NEW x \in Maps, NEW list \in Lists, InsertList(x, list) PROVE MapInv'
  <2>0. IsList(list)
    BY HashMapAssumption DEF IsList
  <2>1. StandsFor(hasher_, insert_list(map[x], list), PutList(table[x], list))
    BY <1>0, <2>0, StandsInsertList
  <2> QED
    BY <1>5, <2>1, ChangeOther DEF InsertList
<1>6. ASSUME NEW x \in Maps, NEW list \in Lists, Construct(x, list) PROVE MapInv'
  <2>0. IsList(list)
    BY HashMapAssumption DEF IsList
  <2>1. StandsFor(hasher_, construct(list), PutList(EmptyTable, list))
    BY <1>0, <2>0, StandsConstruct
  <2> QED
    BY <1>6, <2>1, ChangeOther DEF Construct
<1>7. ASSUME NEW x \in Maps, NEW count \in 0 .. MaxBuckets, Reserve(x, count) PROVE MapInv'
  <2>0. count \in Nat
    BY HashMapAssumption
  <2>1. StandsFor(hasher_, reserve(map[x], count), table[x])
    BY <1>0, <2>0, StandsReserve
  <2> QED
    BY <1>7, <2>1, ChangeOther DEF Reserve
<1>8. ASSUME NEW x \in Maps, Clear(x) PROVE MapInv'
  <2>0. Len(map[x].buckets_) \in Nat \ {0}
    BY <1>0, StandsFacts
  <2>1. StandsFor(hasher_, clear(map[x]), EmptyTable)
    BY <2>0, StandsEmpty DEF clear, bucket_count
  <2> QED
    BY <1>8, <2>1, ChangeOther DEF Clear
<1>9. ASSUME NEW x \in Maps, begin(x) PROVE MapInv'
  BY <1>9, beginInv
<1>10. ASSUME NEW x \in Maps, NEW y \in Maps, Move(x, y) PROVE MapInv'
  BY <1>10, MoveInv
<1>11. ASSUME NEW x \in Maps, NEW y \in Maps, Copy(x, y) PROVE MapInv'
  BY <1>0, <1>11, ChangeOther DEF Copy
<1>12. CASE iterate
  BY <1>12, iterateInv
<1>13. CASE leave_loop
  BY <1>13, leave_loopInv
<1>14. CASE UNCHANGED vars
  BY <1>14 DEF vars, MapInv, MapsStand, LoopStands
<1> QED
  BY <1>1, <1>2, <1>3, <1>4, <1>5, <1>6, <1>7, <1>8, <1>9, <1>10, <1>11, <1>12, <1>13, <1>14
     DEF Next

(* Every map stands for its table in every reachable state. *)
THEOREM HashMapInvariant == Spec => []MapInv
BY InitInv, NextInv, PTL DEF Spec

(* TypeOK: buckets, sizes and iterators have their types throughout. *)
THEOREM HashMapTypes == Spec => []TypeOK
<1>1. MapInv => TypeOK
  <2> SUFFICES ASSUME MapInv PROVE TypeOK
    OBVIOUS
  <2>1. ASSUME NEW x \in Maps
        PROVE  /\ map[x].buckets_ \in Seq(Seq(Entry)) /\ Len(map[x].buckets_) > 0
               /\ map[x].num_elements_ \in Nat
               /\ DOMAIN table[x] \subseteq Key /\ table[x] \in [DOMAIN table[x] -> Value]
    <3>1. IsHash(hasher_) /\ StandsFor(hasher_, map[x], table[x])
      BY InvFacts
    <3>2. /\ IsLists(map[x].buckets_, Entry) /\ Len(map[x].buckets_) \in Nat \ {0}
          /\ map[x].num_elements_ \in Nat
      BY <3>1, StandsFacts
    <3>3. Len(map[x].buckets_) > 0
      BY <3>2
    <3>4. IsTable(table[x])
      BY <3>1 DEF StandsFor
    <3>5. map[x].buckets_ \in Seq(Seq(Entry))
      BY <3>2 DEF IsLists
    <3> QED
      BY <3>2, <3>3, <3>4, <3>5 DEF IsTable
  <2>2. it # Nil => it.map \in Maps /\ it.bucket_idx_ \in Nat /\ it.list_it_ \in Nat
    BY DEF MapInv, LoopStands, Tour
  <2>3. hasher_ \in [Key -> 0 .. HashBound - 1] /\ visited \in Seq(Key)
    BY DEF MapInv
  <2> QED
    BY <2>1, <2>2, <2>3 DEF TypeOK
<1> QED
  BY <1>1, HashMapInvariant, PTL

(* FindExact: find returns the value last stored under a key, and nullptr  *)
(* for the others, for every hash function and through every rehash.       *)
THEOREM HashMapFinds == Spec => []FindExact
<1>1. MapInv => FindExact
  <2> SUFFICES ASSUME MapInv, NEW x \in Maps, NEW k \in Key
               PROVE find(map[x], k) = IF k \in DOMAIN table[x] THEN table[x][k] ELSE Nil
    BY DEF FindExact
  <2>1. IsHash(hasher_) /\ StandsFor(hasher_, map[x], table[x])
    BY InvFacts
  <2> QED
    BY <2>1, StandsFind
<1> QED
  BY <1>1, HashMapInvariant, PTL

(* SizeExact: size() is the number of keys and of entries. *)
THEOREM HashMapCounts == Spec => []SizeExact
<1>1. MapInv => SizeExact
  <2> SUFFICES ASSUME MapInv, NEW x \in Maps
               PROVE /\ map[x].num_elements_ = Cardinality(DOMAIN table[x])
                     /\ map[x].num_elements_ = Len(Entries(map[x]))
    BY DEF SizeExact
  <2>1. IsHash(hasher_) /\ StandsFor(hasher_, map[x], table[x])
    BY InvFacts
  <2>2. map[x].num_elements_ = Len(Entries(map[x]))
    BY <2>1, StandsFacts
  <2> QED
    BY <2>1, <2>2 DEF StandsFor
<1> QED
  BY <1>1, HashMapInvariant, PTL

(* LoadBounded: the load factor never exceeds its maximum, whatever the    *)
(* capacity: one doubling is enough, from a factor of one half on.         *)
THEOREM HashMapLoad == Spec => []LoadBounded
<1>1. MapInv => LoadBounded
  <2> SUFFICES ASSUME MapInv, NEW x \in Maps
               PROVE map[x].num_elements_ * LoadDen <= LoadNum * bucket_count(map[x])
    BY DEF LoadBounded
  <2>1. StandsFor(hasher_, map[x], table[x])
    BY InvFacts
  <2> QED
    BY <2>1 DEF StandsFor, Light, bucket_count
<1> QED
  BY <1>1, HashMapInvariant, PTL

(* LoopCoversMap: a range-for loop is given every key once and, when it    *)
(* ends, all of them, although its body assigns values.                    *)
THEOREM HashMapLoops == Spec => []LoopCoversMap
<1>1. MapInv => LoopCoversMap
  <2> SUFFICES ASSUME MapInv, it # Nil
               PROVE /\ \A i, j \in DOMAIN visited : i # j => visited[i] # visited[j]
                     /\ SE!ToSet(visited) \subseteq DOMAIN table[it.map]
                     /\ AtEnd => SE!ToSet(visited) = DOMAIN table[it.map]
    BY DEF LoopCoversMap
  <2> DEFINE b == map[it.map].buckets_
             n == Len(map[it.map].buckets_)
             K == DOMAIN table[it.map]
             j == it.bucket_idx_
             l == it.list_it_
  <2>1. /\ it.map \in Maps /\ IsPosition(b, j, l)
        /\ \A p, q \in DOMAIN visited : p # q => visited[p] # visited[q]
        /\ SE!ToSet(visited) = Before(b, j, l)
    BY DEF MapInv, LoopStands, Tour
  <2>2. IsHash(hasher_) /\ Holds(hasher_, b, n, table[it.map], K) /\ IsLists(b, Entry)
    BY <2>1, InvFacts
  <2>3. Before(b, n + 1, 1) = K /\ \A i, q : Before(b, i, q) \subseteq K
    <3> HIDE DEF b, n, K
    <3> QED
      BY <2>2, BeforeEnds
  <2>4. AtEnd => j = n + 1 /\ l = 1
    <3>1. n \in Nat
      BY <2>2, ListsFacts
    <3>2. j \in 1 .. n + 1 /\ (j = n + 1 => l = 1)
      BY <2>1 DEF IsPosition
    <3>3. AtEnd <=> j > n
      BY DEF AtEnd, bucket_count
    <3> HIDE DEF j, n, l
    <3> QED
      BY <3>1, <3>2, <3>3
  <2> QED
    BY <2>1, <2>3, <2>4
<1> QED
  BY <1>1, HashMapInvariant, PTL
=============================================================================
