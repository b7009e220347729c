-------------------------- MODULE PrefixTreeProofs --------------------------
(***************************************************************************)
(* What TLAPS proves about PrefixTree: for all clients, prefixes, keys and *)
(* tries.                                                                  *)
(*                                                                         *)
(* The argument is about one trie.  Its nodes are closed towards the root; *)
(* the list of a node holds every client as often as it is registered      *)
(* under the path of the node; and every node but the root is over one     *)
(* that has subscribers.  While remove() climbs, the last holds beside the *)
(* branch it climbs along.                                                 *)
(***************************************************************************)
EXTENDS PrefixTree, DataInduction, FiniteSetTheorems

(* Prefixes and keys. *)
Text == Seq(STRING)

(* A path is over another if the second begins with it. *)
Over(p, q) == SE!IsPrefix(p, q)
-----------------------------------------------------------------------------
(* Paths.                                                                  *)

(* The first k characters of a path. *)
Up(q, k) == SubSeq(q, 1, k)

(* The first k characters of a path are a path of k characters, its own.   *)
LEMMA UpFacts ==
  ASSUME NEW q, q \in Text, NEW k, k \in 0 .. Len(q)
  PROVE  /\ Up(q, k) \in Text /\ Len(Up(q, k)) = k
         /\ \A i \in 1 .. k : Up(q, k)[i] = q[i]
<1>1. q \in Seq(STRING)
  BY DEF Text
<1>2. Len(q) \in Nat /\ k \in Int /\ k <= Len(q) /\ 0 <= k
  BY <1>1
<1>3. /\ SubSeq(q, 1, k) \in Seq(STRING)
      /\ Len(SubSeq(q, 1, k)) = IF 1 <= k THEN k - 1 + 1 ELSE 0
      /\ \A i \in 1 .. k - 1 + 1 : SubSeq(q, 1, k)[i] = q[1 + i - 1]
  <2>1. 1 \in Int /\ k \in Int
    BY <1>2
  <2> QED
    BY <1>1, <1>2, <2>1, SubSeqProperties
<1>4. \A i \in 1 .. k : 1 + i - 1 = i
  OBVIOUS
<1> QED
  BY <1>2, <1>3, <1>4 DEF Up, Text

(* A path that has the length and the characters of another is the other. *)
LEMMA SamePath ==
  ASSUME NEW p, p \in Text, NEW q, q \in Text, Len(p) = Len(q),
         \A i \in 1 .. Len(p) : p[i] = q[i]
  PROVE  p = q
<1>1. p \in Seq(STRING) /\ q \in Seq(STRING)
  BY DEF Text
<1> QED
  BY <1>1, SeqEqual

(* What the first k characters of the first m are. *)
LEMMA UpUp ==
  ASSUME NEW q, q \in Text, NEW m, m \in 0 .. Len(q), NEW k, k \in 0 .. m
  PROVE  Up(Up(q, m), k) = Up(q, k)
<1>0. Len(q) \in Nat
  BY DEF Text
<1>1. Up(q, m) \in Text /\ Len(Up(q, m)) = m /\ \A i \in 1 .. m : Up(q, m)[i] = q[i]
  BY UpFacts
<1>2. k \in 0 .. Len(Up(q, m)) /\ k \in 0 .. Len(q)
  BY <1>0, <1>1
<1> DEFINE u == Up(q, m)
           v == Up(u, k)
           w == Up(q, k)
<1>3. v \in Text /\ Len(v) = k /\ \A i \in 1 .. k : v[i] = u[i]
  BY <1>1, <1>2, UpFacts
<1>4. w \in Text /\ Len(w) = k /\ \A i \in 1 .. k : w[i] = q[i]
  BY <1>2, UpFacts
<1>5. \A i \in 1 .. m : u[i] = q[i]
  BY <1>1
<1> HIDE DEF u, v, w
<1>6. \A i \in 1 .. k : v[i] = w[i]
  <2>1. \A i \in 1 .. k : i \in 1 .. m
    BY <1>0
  <2> QED
    BY <1>3, <1>4, <1>5, <2>1
<1>7. v = w
  BY <1>3, <1>4, <1>6, SamePath
<1> QED
  BY <1>7 DEF u, v, w

(* All of a path, and nothing of it. *)
LEMMA UpEnds == ASSUME NEW q, q \in Text PROVE Up(q, Len(q)) = q /\ Up(q, 0) = <<>>
<1>0. Len(q) \in Nat /\ <<>> \in Text /\ Len(<<>>) = 0
  BY DEF Text
<1>1. Len(q) \in 0 .. Len(q) /\ 0 \in 0 .. Len(q)
  BY <1>0
<1> DEFINE n == Len(q)
           u == Up(q, n)
           v == Up(q, 0)
<1>2. u \in Text /\ Len(u) = n /\ \A i \in 1 .. n : u[i] = q[i]
  BY <1>1, UpFacts
<1>3. v \in Text /\ Len(v) = 0
  BY <1>1, UpFacts
<1>4. u = q
  BY <1>2, SamePath
<1>5. v = <<>>
  BY <1>3 DEF Text
<1> QED
  BY <1>4, <1>5

(* A path is over those that begin with its characters. *)
LEMMA OverUp ==
  ASSUME NEW p, p \in Text, NEW q, q \in Text
  PROVE  Over(p, q) <=> Len(p) <= Len(q) /\ p = Up(q, Len(p))
BY UpEnds DEF Over, SE!IsPrefix, Up

(* The order of paths. *)
LEMMA OverOrder ==
  /\ \A p \in Text : Over(p, p) /\ Over(<<>>, p)
  /\ \A p, q \in Text : Over(p, q) => Len(p) <= Len(q)
  /\ \A p, q \in Text : Over(p, q) /\ Len(q) <= Len(p) => p = q
  /\ \A p, q, r \in Text : Over(p, q) /\ Over(q, r) => Over(p, r)
  /\ \A p, q, r \in Text : Over(p, r) /\ Over(q, r) /\ Len(p) <= Len(q) => Over(p, q)
<1>0. <<>> \in Text /\ Len(<<>>) = 0 /\ \A p \in Text : Len(p) \in Nat
  BY DEF Text
<1>1. ASSUME NEW p \in Text PROVE Over(p, p) /\ Over(<<>>, p)
  <2>1. Up(p, Len(p)) = p /\ Up(p, 0) = <<>> /\ Len(p) \in Nat
    BY <1>0, UpEnds
  <2>2. Over(p, p)
    BY <2>1, OverUp
  <2>3. Over(<<>>, p)
    BY <1>0, <2>1, OverUp
  <2> QED
    BY <2>2, <2>3
<1>2. ASSUME NEW p \in Text, NEW q \in Text, Over(p, q) PROVE Len(p) <= Len(q)
  BY <1>2, OverUp
<1>3. ASSUME NEW p \in Text, NEW q \in Text, Over(p, q), Len(q) <= Len(p) PROVE p = q
  <2>1. p = Up(q, Len(p)) /\ Len(p) <= Len(q)
    BY <1>3, OverUp
  <2>2. Len(p) = Len(q)
    BY <1>0, <1>3, <2>1
  <2> QED
    BY <2>1, <2>2, UpEnds
<1>4. ASSUME NEW p \in Text, NEW q \in Text, NEW r \in Text, Over(p, q), Over(q, r)
      PROVE  Over(p, r)
  <2>1. p = Up(q, Len(p)) /\ Len(p) <= Len(q) /\ q = Up(r, Len(q)) /\ Len(q) <= Len(r)
    BY <1>4, OverUp
  <2>2. Len(p) \in 0 .. Len(q) /\ Len(q) \in 0 .. Len(r) /\ Len(p) <= Len(r)
    BY <1>0, <2>1
  <2>3. Up(Up(r, Len(q)), Len(p)) = Up(r, Len(p))
    BY <2>2, UpUp
  <2>4. p = Up(r, Len(p))
    BY <2>1, <2>3
  <2> QED
    BY <2>2, <2>4, OverUp
<1>5. ASSUME NEW p \in Text, NEW q \in Text, NEW r \in Text, Over(p, r), Over(q, r),
             Len(p) <= Len(q)
      PROVE  Over(p, q)
  <2>1. p = Up(r, Len(p)) /\ q = Up(r, Len(q)) /\ Len(q) <= Len(r)
    BY <1>5, OverUp
  <2>2. Len(p) \in 0 .. Len(q) /\ Len(q) \in 0 .. Len(r)
    BY <1>0, <1>5, <2>1
  <2>3. Up(Up(r, Len(q)), Len(p)) = Up(r, Len(p))
    BY <2>2, UpUp
  <2>4. p = Up(q, Len(p))
    BY <2>1, <2>3
  <2> QED
    BY <1>5, <2>4, OverUp
<1> QED
  BY <1>1, <1>2, <1>3, <1>4, <1>5

(* The first k characters are over the path; one more is one step down. *)
LEMMA UpOver ==
  ASSUME NEW q, q \in Text, NEW k, k \in 0 .. Len(q)
  PROVE  Up(q, k) \in Text /\ Len(Up(q, k)) = k /\ Over(Up(q, k), q)
<1>1. Up(q, k) \in Text /\ Len(Up(q, k)) = k
  BY UpFacts
<1>2. k <= Len(q)
  BY DEF Text
<1> QED
  BY <1>1, <1>2, OverUp

(* Between a path and a longer one under it there is the next character. *)
LEMMA OverNext ==
  ASSUME NEW p, p \in Text, NEW q, q \in Text, Over(p, q), p # q
  PROVE  \E r \in Text : Over(p, r) /\ Over(r, q) /\ Len(r) = Len(p) + 1
<1>0. Len(p) \in Nat /\ Len(q) \in Nat
  BY DEF Text
<1>1. ~(Len(q) <= Len(p))
  BY OverOrder
<1> DEFINE k == Len(p) + 1
           r == Up(q, k)
<1>2. k \in 0 .. Len(q) /\ Len(p) <= k
  BY <1>0, <1>1
<1>3. r \in Text /\ Len(r) = k /\ Over(r, q)
  BY <1>2, UpOver
<1> HIDE DEF r
<1>4. Over(p, r)
  BY <1>2, <1>3, OverOrder
<1> QED
  BY <1>3, <1>4

(* Branch: the nodes insert() passes are those over the prefix. *)
LEMMA BranchOver ==
  ASSUME NEW q, q \in Text
  PROVE  Branch(q) \subseteq Text /\ \A p \in Text : p \in Branch(q) <=> Over(p, q)
<1>0. Branch(q) = {Up(q, k) : k \in 0 .. Len(q)}
  BY DEF Branch, Up
<1>1. ASSUME NEW p, p \in Branch(q) PROVE p \in Text /\ Over(p, q)
  BY <1>0, <1>1, UpOver
<1>2. ASSUME NEW p \in Text, Over(p, q) PROVE p \in Branch(q)
  <2>1. p = Up(q, Len(p)) /\ Len(p) <= Len(q)
    BY <1>2, OverUp
  <2>2. Len(p) \in 0 .. Len(q)
    BY <2>1 DEF Text
  <2> QED
    BY <1>0, <2>1, <2>2
<1> QED
  BY <1>1, <1>2

(* All nodes a trie can have are paths. *)
LEMMA PathsAreText ==
  /\ PrefixSet \subseteq Text /\ Keys \subseteq Text /\ Paths \subseteq Text
  /\ \A pre \in PrefixSet : Branch(pre) \subseteq Paths
<1>1. PrefixSet \subseteq Text /\ Keys \subseteq Text
  BY PrefixTreeAssumption DEF Text
<1>2. \A pre \in PrefixSet : Branch(pre) \subseteq Text
  BY <1>1, BranchOver
<1>3. <<>> \in Text
  BY DEF Text
<1> QED
  BY <1>1, <1>2, <1>3 DEF Paths
-----------------------------------------------------------------------------
(* Tries.                                                                  *)

(* Nodes that a root_ can hold: every node has its parent. *)
IsTrie(n) ==
  /\ DOMAIN n \subseteq Paths /\ <<>> \in DOMAIN n
  /\ n \in [DOMAIN n -> Seq(Clients)]
  /\ \A q \in DOMAIN n, p \in Text : Over(p, q) => p \in DOMAIN n

Tries == {n \in UNION {[D -> Seq(Clients)] : D \in SUBSET Paths} : IsTrie(n)}

(* The tries over the paths there can be nodes for are just the functions   *)
(* that are tries.                                                         *)
LEMMA TriesAre == \A n : n \in Tries <=> IsTrie(n)
<1>1. ASSUME NEW n, IsTrie(n) PROVE n \in Tries
  <2>1. DOMAIN n \in SUBSET Paths /\ n \in [DOMAIN n -> Seq(Clients)]
    BY <1>1 DEF IsTrie
  <2> QED
    BY <1>1, <2>1, Zenon DEF Tries
<1> QED
  BY <1>1 DEF Tries

(* Without what is at a path and below it, a trie is a trie. *)
LEMMA EraseDeadTrie ==
  ASSUME NEW n, IsTrie(n), NEW q, q \in Text
  PROVE  IsTrie(EraseDead(n, q))
<1>1. CASE ~Dead(n, q)
  BY <1>1 DEF EraseDead
<1>2. CASE Dead(n, q)
  <2> DEFINE m == EraseDead(n, q)
             D == {s \in DOMAIN n : ~Over(q, s)}
  <2>1. m = [r \in D |-> n[r]]
    BY <1>2, Zenon DEF EraseDead, Over
  <2>2. DOMAIN m = D
    BY <2>1
  <2>3. D \subseteq Paths
    BY DEF IsTrie
  <2>4. \A r \in D : n[r] \in Seq(Clients)
    BY DEF IsTrie
  <2>5. m \in [D -> Seq(Clients)]
    BY <2>1, <2>4
  <2>6. <<>> \in D
    <3>1. q # <<>>
      BY <1>2 DEF Dead
    <3>2. ~Over(q, <<>>)
      <4>0. <<>> \in Text /\ Len(<<>>) = 0 /\ Len(q) \in Nat
        BY DEF Text
      <4>1. Len(<<>>) <= Len(q)
        BY <4>0
      <4> QED
        BY <3>1, <4>0, <4>1, OverOrder
    <3> QED
      BY <3>2 DEF IsTrie
  <2>7. ASSUME NEW s \in D, NEW p \in Text, Over(p, s) PROVE p \in D
    <3>1. p \in DOMAIN n /\ s \in Text /\ ~Over(q, s)
      BY <2>3, <2>7, PathsAreText DEF IsTrie
    <3>2. ~Over(q, p)
      BY <2>7, <3>1, OverOrder
    <3> QED
      BY <3>1, <3>2
  <2> QED
    <3> HIDE DEF m, D
    <3>1. IsTrie(m)
      BY <2>2, <2>3, <2>5, <2>6, <2>7 DEF IsTrie
    <3> QED
      BY <3>1 DEF m
<1> QED
  BY <1>1, <1>2

(* The nodes after each turn of the climb: f[k] after k of them. *)
IsClimb(f, n, prefix) ==
  /\ f \in [0 .. Len(prefix) -> Tries] /\ f[0] = n
  /\ \A k \in 1 .. Len(prefix) : f[k] = EraseDead(f[k - 1], Up(prefix, Len(prefix) + 1 - k))

(* Prune is what its loop makes of the nodes. *)
LEMMA PruneDef ==
  ASSUME NEW n, IsTrie(n), NEW prefix, prefix \in Text
  PROVE  \E f : IsClimb(f, n, prefix) /\ Prune(n, prefix) = f[Len(prefix)]
<1> DEFINE N == Len(prefix)
           node(k) == Up(prefix, N + 1 - k)
           step == [p \in (1 .. N) \X Tries |-> EraseDead(p[2], node(p[1]))]
           Eq(g) == g = [k \in 0 .. N |-> IF k = 0 THEN n ELSE EraseDead(g[k - 1], node(k))]
           h == CHOOSE g : Eq(g)
<1>0. N \in Nat
  BY DEF Text
<1>1. ASSUME NEW k \in 1 .. N PROVE node(k) \in Text
  <2>1. N + 1 - k \in 0 .. N
    BY <1>0
  <2> QED
    BY <2>1, UpFacts
<1>2. ASSUME NEW k \in 1 .. N, NEW t \in Tries PROVE EraseDead(t, node(k)) \in Tries
  <2> HIDE DEF node
  <2>1. IsTrie(EraseDead(t, node(k)))
    BY <1>1, TriesAre, EraseDeadTrie
  <2> QED
    BY <2>1, TriesAre
<1>3. IsStep(step, N, Tries)
  <2> HIDE DEF node
  <2> QED
    BY <1>2 DEF IsStep
<1>4. n \in Tries
  BY TriesAre
<1>5. PICK f : IsHistory(f, step, n, N, Tries)
  <2> HIDE DEF step, N
  <2> QED
    BY <1>0, <1>3, <1>4, RecursionExists
<1>6. f \in [0 .. N -> Tries] /\ f[0] = n
  BY <1>5 DEF IsHistory
<1>7. \A k \in 1 .. N : f[k] = EraseDead(f[k - 1], node(k))
  <2> SUFFICES ASSUME NEW k \in 1 .. N PROVE f[k] = EraseDead(f[k - 1], node(k))
    OBVIOUS
  <2> HIDE DEF node
  <2>1. k - 1 \in 0 .. N
    BY <1>0
  <2>2. f[k - 1] \in Tries
    BY <1>6, <2>1
  <2>3. f[k] = step[<<k, f[k - 1]>>]
    BY <1>5 DEF IsHistory
  <2> QED
    BY <2>2, <2>3
<1>8. IsClimb(f, n, prefix)
  BY <1>6, <1>7 DEF IsClimb
<1>9. Eq(f)
  <2> HIDE DEF node
  <2> QED
    BY <1>0, <1>6, <1>7
<1>10. Eq(h)
  <2> HIDE DEF Eq
  <2> QED
    BY <1>9, Zenon
<1>11. Prune(n, prefix) = h[N]
  BY Zenon DEF Prune, Up
<1> DEFINE S == {k \in 0 .. N : h[k] = f[k]}
<1>12. N \in S
  <2> HIDE DEF h, node
  <2>1. h[0] = n
    BY <1>0, <1>10
  <2>2. \A k \in 1 .. N : h[k] = EraseDead(h[k - 1], node(k))
    BY <1>0, <1>10
  <2>3. 0 \in S
    BY <1>0, <1>6, <2>1
  <2>4. ASSUME NEW k \in 0 .. N - 1, k \in S PROVE k + 1 \in S
    <3>1. k + 1 \in 1 .. N /\ (k + 1) - 1 = k /\ k + 1 \in 0 .. N
      BY <1>0
    <3>2. h[k + 1] = EraseDead(h[k], node(k + 1)) /\ f[k + 1] = EraseDead(f[k], node(k + 1))
      BY <1>7, <2>2, <3>1
    <3> QED
      BY <2>4, <3>1, <3>2
  <2> HIDE DEF S, N
  <2> QED
    BY <1>0, <2>3, <2>4, LoopInduction, Zenon
<1> QED
  BY <1>8, <1>11, <1>12

(* A node that leads to subscribers. *)
Alive(n, q) == \E r \in DOMAIN n : Over(q, r) /\ n[r] # <<>>

(* The nodes m when the climb is at t: the lists are those of n, and only  *)
(* the nodes over t can lead nowhere.                                      *)
Climbed(m, n, t) ==
  /\ IsTrie(m) /\ t \in DOMAIN m
  /\ \A q \in Text : At(m, q) = At(n, q)
  /\ \A q \in DOMAIN m \ {<<>>} : Alive(m, q) \/ Over(q, t)

(* A node without children has nothing below it. *)
LEMMA NothingBelow ==
  ASSUME NEW n, IsTrie(n), NEW q, q \in DOMAIN n, ~HasChildren(n, q)
  PROVE  {s \in DOMAIN n : ~Over(q, s)} = DOMAIN n \ {q}
<1>1. DOMAIN n \subseteq Text /\ q \in Text
  BY PathsAreText DEF IsTrie
<1>2. Over(q, q)
  BY <1>1, OverOrder
<1>3. ASSUME NEW s \in DOMAIN n, Over(q, s), s # q PROVE FALSE
  <2>1. PICK r \in Text : Over(q, r) /\ Over(r, s) /\ Len(r) = Len(q) + 1
    BY <1>1, <1>3, OverNext
  <2>2. r \in DOMAIN n
    BY <2>1, <1>3 DEF IsTrie
  <2> QED
    BY <2>1, <2>2 DEF HasChildren, Over
<1> QED
  BY <1>2, <1>3

(* One turn of the climb, from t to its parent. *)
LEMMA ClimbStep ==
  ASSUME NEW m, NEW n, NEW t, Climbed(m, n, t), t # <<>>
  PROVE  Climbed(EraseDead(m, t), n, Up(t, Len(t) - 1))
<1> DEFINE u == Up(t, Len(t) - 1)
           d == EraseDead(m, t)
<1>0. /\ IsTrie(m) /\ t \in DOMAIN m /\ DOMAIN m \subseteq Text /\ t \in Text
      /\ \A q \in Text : At(m, q) = At(n, q)
      /\ \A q \in DOMAIN m \ {<<>>} : Alive(m, q) \/ Over(q, t)
  BY PathsAreText DEF Climbed, IsTrie
<1>1. \A q \in Text : Len(q) \in Nat /\ (Len(q) = 0 <=> q = <<>>)
  BY DEF Text
<1>2. u \in Text /\ Len(u) = Len(t) - 1 /\ Over(u, t)
  <2>1. Len(t) - 1 \in 0 .. Len(t)
    BY <1>0, <1>1
  <2> QED
    BY <1>0, <2>1, UpOver
<1> HIDE DEF u
<1>3. u \in DOMAIN m /\ u # t
  BY <1>0, <1>1, <1>2 DEF IsTrie
<1>4. ASSUME NEW q \in Text, Over(q, t), q # t PROVE Over(q, u)
  <2>1. ~(Len(t) <= Len(q))
    BY <1>0, <1>4, OverOrder
  <2>2. Len(q) <= Len(u)
    BY <1>0, <1>1, <1>2, <2>1
  <2> QED
    BY <1>0, <1>2, <1>4, <2>2, OverOrder
<1>5. IsTrie(d)
  BY <1>0, EraseDeadTrie
<1>6. CASE Dead(m, t)
  <2>1. m[t] = <<>> /\ ~HasChildren(m, t)
    BY <1>6 DEF Dead
  <2>2. {s \in DOMAIN m : ~Over(t, s)} = DOMAIN m \ {t}
    BY <1>0, <2>1, NothingBelow
  <2>3. d = [r \in {s \in DOMAIN m : ~Over(t, s)} |-> m[r]]
    BY <1>6, Zenon DEF EraseDead, Over
  <2>4. d = [r \in DOMAIN m \ {t} |-> m[r]]
    BY <2>2, <2>3
  <2>5. DOMAIN d = DOMAIN m \ {t} /\ \A r \in DOMAIN m \ {t} : d[r] = m[r]
    BY <2>4
  <2> HIDE DEF d
  <2>6. ASSUME NEW q \in Text PROVE At(d, q) = At(n, q)
    BY <1>0, <2>1, <2>5 DEF At
  <2>7. ASSUME NEW q \in DOMAIN d \ {<<>>} PROVE Alive(d, q) \/ Over(q, u)
    <3>1. q \in DOMAIN m \ {<<>>} /\ q # t /\ q \in Text
      BY <1>0, <2>5
    <3>2. CASE Alive(m, q)
      BY <2>1, <2>5, <3>2 DEF Alive
    <3>3. CASE Over(q, t)
      BY <1>4, <3>1, <3>3
    <3> QED
      BY <1>0, <3>1, <3>2, <3>3
  <2>8. u \in DOMAIN d
    BY <1>3, <2>5
  <2>9. Climbed(d, n, u)
    BY <1>5, <2>6, <2>7, <2>8 DEF Climbed
  <2> QED
    BY <2>9 DEF d, u
<1>7. CASE ~Dead(m, t)
  <2>1. d = m
    BY <1>7 DEF EraseDead
  <2>2. Alive(m, t)
    <3>1. m[t] # <<>> \/ HasChildren(m, t)
      BY <1>7 DEF Dead
    <3>2. CASE m[t] # <<>>
      BY <1>0, <3>2, OverOrder DEF Alive
    <3>3. CASE HasChildren(m, t)
      <4>1. PICK r \in DOMAIN m : Len(r) = Len(t) + 1 /\ Over(t, r)
        BY <3>3 DEF HasChildren, Over
      <4>2. r \in Text /\ r # <<>> /\ ~(Len(r) <= Len(t))
        BY <1>0, <1>1, <4>1
      <4>3. ~Over(r, t)
        BY <1>0, <4>2, OverOrder
      <4>4. Alive(m, r)
        BY <1>0, <4>2, <4>3
      <4>5. PICK s \in DOMAIN m : Over(r, s) /\ m[s] # <<>>
        BY <4>4 DEF Alive
      <4>6. Over(t, s)
        <5>1. s \in Text
          BY <1>0
        <5> QED
          BY <1>0, <4>1, <4>2, <4>5, <5>1, OverOrder
      <4> QED
        BY <4>5, <4>6 DEF Alive
    <3> QED
      BY <3>1, <3>2, <3>3
  <2>3. ASSUME NEW q \in DOMAIN m \ {<<>>} PROVE Alive(m, q) \/ Over(q, u)
    BY <1>0, <1>4, <2>2
  <2>4. Climbed(m, n, u)
    BY <1>0, <1>3, <2>3 DEF Climbed
  <2> QED
    BY <2>1, <2>4 DEF u
<1> QED
  BY <1>6, <1>7

(* remove() prunes: what is left has the same lists and leads to           *)
(* subscribers everywhere, if that was so beside the branch.               *)
LEMMA PruneFacts ==
  ASSUME NEW n, NEW prefix, Climbed(n, n, prefix)
  PROVE  Climbed(Prune(n, prefix), n, <<>>)
<1> DEFINE N == Len(prefix)
<1>0. IsTrie(n) /\ prefix \in Text /\ N \in Nat
  BY PathsAreText DEF Climbed, IsTrie, Text
<1>1. PICK f : IsClimb(f, n, prefix) /\ Prune(n, prefix) = f[N]
  BY <1>0, PruneDef
<1> DEFINE T == {k \in 0 .. N : Climbed(f[k], n, Up(prefix, N - k))}
<1>2. 0 \in T
  <2>1. f[0] = n /\ N - 0 = N /\ Up(prefix, N) = prefix
    BY <1>0, <1>1, UpEnds DEF IsClimb
  <2> QED
    BY <1>0, <2>1
<1>3. ASSUME NEW k \in 0 .. N - 1, k \in T PROVE k + 1 \in T
  <2> DEFINE t == Up(prefix, N - k)
  <2>1. k + 1 \in 1 .. N /\ (k + 1) - 1 = k /\ N + 1 - (k + 1) = N - k /\ k + 1 \in 0 .. N
    BY <1>0
  <2>2. f[k + 1] = EraseDead(f[k], t)
    BY <1>1, <2>1 DEF IsClimb
  <2>3. N - k \in 0 .. N /\ N - k # 0 /\ N - (k + 1) = (N - k) - 1 /\ N - (k + 1) \in 0 .. N - k
    BY <1>0
  <2>4. t \in Text /\ Len(t) = N - k
    BY <1>0, <2>3, UpFacts
  <2>5. Up(t, Len(t) - 1) = Up(prefix, N - (k + 1))
    <3>1. Up(Up(prefix, N - k), N - (k + 1)) = Up(prefix, N - (k + 1))
      BY <1>0, <2>3, UpUp
    <3> QED
      BY <2>3, <2>4, <3>1
  <2>6. t # <<>>
    BY <2>3, <2>4
  <2>7. Climbed(f[k], n, t)
    BY <1>3
  <2> HIDE DEF t, N
  <2>8. Climbed(EraseDead(f[k], t), n, Up(t, Len(t) - 1))
    BY <2>6, <2>7, ClimbStep
  <2> QED
    BY <2>1, <2>2, <2>5, <2>8
<1>4. N \in T
  <2> HIDE DEF T, N
  <2> QED
    BY <1>0, <1>2, <1>3, LoopInduction, Zenon
<1>5. N - N = 0 /\ Up(prefix, 0) = <<>>
  BY <1>0, UpEnds
<1> QED
  BY <1>1, <1>4, <1>5

-----------------------------------------------------------------------------
(* Lists of subscribers.                                                   *)

(* Where a client is in a list. *)
Places(s, c) == {i \in 1 .. Len(s) : s[i] = c}

(* The occurrences of a value are the size of the finite set of its places; *)
(* there are none where the sequence does not contain it.                  *)
LEMMA OccurrencesAre ==
  ASSUME NEW A, NEW s, s \in Seq(A), NEW c
  PROVE  /\ Occurrences(s, c) = Cardinality(Places(s, c)) /\ IsFiniteSet(Places(s, c))
         /\ Occurrences(s, c) \in Nat
         /\ Occurrences(s, c) = 0 <=> ~SE!Contains(s, c)
<1>1. Len(s) \in Nat /\ DOMAIN s = 1 .. Len(s)
  OBVIOUS
<1>2. Occurrences(s, c) = Cardinality(Places(s, c))
  BY <1>1 DEF Occurrences, Places
<1>3. IsFiniteSet(Places(s, c))
  <2>1. IsFiniteSet(1 .. Len(s))
    BY <1>1, FS_Interval
  <2> QED
    BY <2>1, FS_Subset DEF Places
<1>4. Cardinality(Places(s, c)) \in Nat /\ (Cardinality(Places(s, c)) = 0 <=> Places(s, c) = {})
  BY <1>3, FS_CardinalityType, FS_EmptySet
<1>5. Places(s, c) = {} <=> ~SE!Contains(s, c)
  BY DEF Places, SE!Contains
<1> QED
  BY <1>2, <1>3, <1>4, <1>5

(* A set of numbers moved by m has as many elements. *)
LEMMA Shifted ==
  ASSUME NEW S, S \subseteq Nat, IsFiniteSet(S), NEW m \in Nat
  PROVE  LET T == {m + i : i \in S} IN IsFiniteSet(T) /\ Cardinality(T) = Cardinality(S)
<1> DEFINE T == {m + i : i \in S}
           f == [i \in S |-> m + i]
<1>1. f \in Bijection(S, T)
  <2>1. f \in [S -> T] /\ \A t \in T : \E i \in S : f[i] = t
    OBVIOUS
  <2>2. \A i, j \in S : f[i] = f[j] => i = j
    OBVIOUS
  <2> HIDE DEF f, T
  <2> QED
    BY <2>1, <2>2 DEF Bijection, Injection, Surjection, IsInjective
<1>2. ExistsBijection(S, T)
  BY <1>1 DEF ExistsBijection
<1> QED
  BY <1>2, FS_Bijection

(* A client occurs in a concatenation as often as in both lists together. *)
LEMMA OccurrencesCat ==
  ASSUME NEW A, NEW a, a \in Seq(A), NEW b, b \in Seq(A), NEW c
  PROVE  Occurrences(Cat(a, b), c) = Occurrences(a, c) + Occurrences(b, c)
<1> DEFINE m == Len(a)
           d == Cat(a, b)
           P == Places(a, c)
           Q == {m + i : i \in Places(b, c)}
<1>1. d \in Seq(A) /\ IsCat(d, a, b)
  BY CatElements
<1>2. /\ m \in Nat /\ Len(b) \in Nat /\ Len(d) = m + Len(b)
      /\ \A i \in 1 .. m : d[i] = a[i]
      /\ \A i \in 1 .. Len(b) : d[m + i] = b[i]
  BY <1>1 DEF IsCat
<1> HIDE DEF d, m
<1>3. Places(d, c) = P \cup Q
  <2>1. ASSUME NEW i \in 1 .. Len(d), d[i] = c PROVE i \in P \cup Q
    <3>1. CASE i \in 1 .. m
      BY <1>2, <2>1, <3>1 DEF Places, m
    <3>2. CASE i \notin 1 .. m
      <4>1. i - m \in 1 .. Len(b) /\ m + (i - m) = i
        BY <1>2, <3>2
      <4>2. i - m \in Places(b, c)
        BY <1>2, <2>1, <4>1 DEF Places
      <4> QED
        BY <4>1, <4>2
    <3> QED
      BY <3>1, <3>2
  <2>2. ASSUME NEW i \in P PROVE i \in 1 .. Len(d) /\ d[i] = c
    <3>1. i \in 1 .. m /\ a[i] = c
      BY DEF Places, m
    <3> QED
      BY <1>2, <3>1
  <2>3. ASSUME NEW i \in Places(b, c) PROVE m + i \in 1 .. Len(d) /\ d[m + i] = c
    <3>1. i \in 1 .. Len(b) /\ b[i] = c
      BY DEF Places
    <3> QED
      BY <1>2, <3>1
  <2> QED
    BY <2>1, <2>2, <2>3 DEF Places
<1>4. P \cap Q = {}
  <2>1. \A i \in P : i \in 1 .. m
    BY DEF Places, m
  <2>2. \A i \in Places(b, c) : i \in 1 .. Len(b)
    BY DEF Places
  <2> QED
    BY <1>2, <2>1, <2>2
<1>5. Places(b, c) \subseteq Nat
  BY <1>2 DEF Places
<1>6. /\ IsFiniteSet(P) /\ Occurrences(a, c) = Cardinality(P)
      /\ IsFiniteSet(Places(b, c)) /\ Occurrences(b, c) = Cardinality(Places(b, c))
  BY OccurrencesAre
<1>7. IsFiniteSet(Q) /\ Cardinality(Q) = Cardinality(Places(b, c))
  BY <1>2, <1>5, <1>6, Shifted
<1>8. Occurrences(d, c) = Cardinality(Places(d, c))
  BY <1>1, OccurrencesAre
<1> HIDE DEF P, Q
<1>9. Cardinality(P \cup Q) = Cardinality(P) + Cardinality(Q) - Cardinality(P \cap Q)
  BY <1>6, <1>7, FS_Union
<1>10. Cardinality(P) \in Nat /\ Cardinality(Q) \in Nat /\ Cardinality({}) = 0
  BY <1>6, <1>7, FS_CardinalityType, FS_EmptySet
<1>11. Occurrences(d, c) = Occurrences(a, c) + Occurrences(b, c)
  <2> DEFINE x == Cardinality(P)
             y == Cardinality(Q)
  <2>1. Cardinality(P \cup Q) = x + y - Cardinality({})
    BY <1>4, <1>9
  <2>2. Occurrences(d, c) = Cardinality(P \cup Q)
    BY <1>3, <1>8
  <2>3. Occurrences(a, c) = x /\ Occurrences(b, c) = y
    BY <1>6, <1>7
  <2>4. x \in Nat /\ y \in Nat /\ Cardinality({}) = 0
    BY <1>10
  <2> HIDE DEF x, y
  <2>5. Occurrences(d, c) = x + y
    BY <2>1, <2>2, <2>4
  <2> QED
    BY <2>3, <2>5
<1> QED
  BY <1>11 DEF d

(* A list of one client, and one of none. *)
LEMMA OccurrencesOne ==
  ASSUME NEW c, NEW d
  PROVE  /\ Occurrences(<<>>, d) = 0
         /\ Occurrences(<<c>>, d) = IF c = d THEN 1 ELSE 0
<1>1. {i \in DOMAIN <<>> : <<>>[i] = d} = {}
  OBVIOUS
<1>2. DOMAIN <<c>> = {1} /\ <<c>>[1] = c
  OBVIOUS
<1>3. {i \in DOMAIN <<c>> : <<c>>[i] = d} = IF c = d THEN {1} ELSE {}
  BY <1>2
<1>4. Cardinality({}) = 0 /\ Cardinality({1}) = 1
  BY FS_EmptySet, FS_Singleton
<1> QED
  BY <1>1, <1>3, <1>4 DEF Occurrences

(* push_back: one occurrence more. *)
LEMMA OccurrencesAppend ==
  ASSUME NEW A, NEW s, s \in Seq(A), NEW c, c \in A, NEW d
  PROVE  /\ Append(s, c) \in Seq(A) /\ Append(s, c) # <<>>
         /\ Occurrences(Append(s, c), d) = Occurrences(s, d) + IF c = d THEN 1 ELSE 0
<1> DEFINE e == <<c>>
<1>1. e \in Seq(A)
  OBVIOUS
<1>2. Append(s, c) = Cat(s, e)
  <2>1. Append(s, c) = s \o <<c>>
    OBVIOUS
  <2> QED
    BY <2>1 DEF Cat
<1>3. Occurrences(e, d) = IF c = d THEN 1 ELSE 0
  BY OccurrencesOne
<1> HIDE DEF e
<1>4. Occurrences(Cat(s, e), d) = Occurrences(s, d) + Occurrences(e, d)
  BY <1>1, OccurrencesCat
<1>5. Append(s, c) \in Seq(A) /\ Len(Append(s, c)) = Len(s) + 1 /\ Len(s) \in Nat
  BY AppendProperties
<1>6. Append(s, c) # <<>>
  <2>1. Len(<<>>) = 0
    OBVIOUS
  <2> QED
    BY <1>5, <2>1
<1> QED
  BY <1>2, <1>3, <1>4, <1>5, <1>6

(* A part of a list. *)
LEMMA Part ==
  ASSUME NEW A, NEW s, s \in Seq(A), NEW l, l \in Int, NEW r, r \in Int,
         1 <= l, l <= r + 1, r <= Len(s)
  PROVE  /\ SubSeq(s, l, r) \in Seq(A) /\ Len(SubSeq(s, l, r)) = (r - l) + 1
         /\ \A i \in 1 .. (r - l) + 1 : SubSeq(s, l, r)[i] = s[l + i - 1]
<1>1. \A i \in l .. r : s[i] \in A
  OBVIOUS
<1> QED
  BY <1>1, SubSeqProperties

(* A list is what is before one of its elements, the element and the rest. *)
LEMMA SplitAt ==
  ASSUME NEW A, NEW s, s \in Seq(A), NEW p, p \in 1 .. Len(s)
  PROVE  LET a == SubSeq(s, 1, p - 1)
             b == SubSeq(s, p + 1, Len(s))
         IN  a \in Seq(A) /\ b \in Seq(A) /\ s = Cat(a, Cat(<<s[p]>>, b))
<1> DEFINE n == Len(s)
           a == SubSeq(s, 1, p - 1)
           b == SubSeq(s, p + 1, n)
           e == <<s[p]>>
           c == Cat(e, b)
           d == Cat(a, c)
<1>0. n \in Nat /\ p \in Int /\ 1 <= p /\ p <= n /\ s[p] \in A
  OBVIOUS
<1>1. a \in Seq(A) /\ Len(a) = p - 1 /\ \A i \in 1 .. p - 1 : a[i] = s[i]
  <2>1. p - 1 \in Int /\ 1 <= (p - 1) + 1 /\ p - 1 <= n /\ 1 \in Int /\ 1 <= 1
    BY <1>0
  <2>2. /\ a \in Seq(A) /\ Len(a) = ((p - 1) - 1) + 1
        /\ \A i \in 1 .. ((p - 1) - 1) + 1 : a[i] = s[1 + i - 1]
    BY <2>1, Part
  <2> HIDE DEF a
  <2> QED
    BY <1>0, <2>2
<1>2. b \in Seq(A) /\ Len(b) = n - p /\ \A i \in 1 .. n - p : b[i] = s[p + i]
  <2>1. p + 1 \in Int /\ 1 <= p + 1 /\ p + 1 <= n + 1 /\ n \in Int /\ n <= n
    BY <1>0
  <2>2. /\ b \in Seq(A) /\ Len(b) = (n - (p + 1)) + 1
        /\ \A i \in 1 .. (n - (p + 1)) + 1 : b[i] = s[(p + 1) + i - 1]
    BY <2>1, Part
  <2> HIDE DEF b
  <2> QED
    BY <1>0, <2>2
<1>3. e \in Seq(A) /\ Len(e) = 1 /\ e[1] = s[p]
  BY <1>0
<1> HIDE DEF a, b, e
<1>4. c \in Seq(A) /\ IsCat(c, e, b)
  BY <1>2, <1>3, CatElements
<1> HIDE DEF c
<1>5. d \in Seq(A) /\ IsCat(d, a, c)
  BY <1>1, <1>4, CatElements
<1> HIDE DEF d, n
<1>6. Len(c) = 1 + (n - p) /\ Len(d) = n
  BY <1>0, <1>1, <1>2, <1>3, <1>4, <1>5 DEF IsCat
<1>7. \A i \in 1 .. n : d[i] = s[i]
  <2> SUFFICES ASSUME NEW i, i \in 1 .. n PROVE d[i] = s[i]
    OBVIOUS
  <2>1. CASE i < p
    <3>1. i \in 1 .. p - 1 /\ i \in 1 .. Len(a)
      BY <1>0, <1>1, <2>1
    <3> QED
      BY <1>1, <1>5, <3>1 DEF IsCat
  <2>2. CASE i = p
    <3>1. i = Len(a) + 1 /\ 1 \in 1 .. Len(c)
      BY <1>0, <1>1, <1>6, <2>2
    <3>2. d[i] = c[1]
      BY <1>5, <3>1 DEF IsCat
    <3>3. 1 \in 1 .. Len(e)
      BY <1>3
    <3> QED
      BY <1>3, <1>4, <2>2, <3>2, <3>3 DEF IsCat
  <2>3. CASE i > p
    <3> DEFINE j == i - p
    <3>1. i = Len(a) + (1 + j) /\ 1 + j \in 1 .. Len(c) /\ j \in 1 .. n - p /\ j \in 1 .. Len(b)
          /\ p + j = i
      BY <1>0, <1>1, <1>2, <1>6, <2>3
    <3> HIDE DEF j
    <3>2. d[i] = c[1 + j]
      BY <1>5, <3>1 DEF IsCat
    <3>3. c[1 + j] = b[j]
      BY <1>3, <1>4, <3>1 DEF IsCat
    <3> QED
      BY <1>2, <3>1, <3>2, <3>3
  <2> QED
    BY <1>0, <2>1, <2>2, <2>3
<1>8. d = s
  BY <1>5, <1>6, <1>7, SeqEqual DEF n
<1> QED
  BY <1>1, <1>2, <1>8 DEF a, b, c, d, e, n

(* subscribers.erase: the client that is found goes once, nobody else. *)
LEMMA OccurrencesRemove ==
  ASSUME NEW A, NEW s, s \in Seq(A), NEW c, SE!Contains(s, c), NEW d
  PROVE  /\ SE!RemoveFirst(s, c) \in Seq(A)
         /\ Occurrences(SE!RemoveFirst(s, c), d) = Occurrences(s, d) - IF c = d THEN 1 ELSE 0
<1> DEFINE I == {i \in 1 .. Len(s) : s[i] = c}
           p == SE!SelectInSeq(s, LAMBDA v : v = c)
           a == SubSeq(s, 1, p - 1)
           b == SubSeq(s, p + 1, Len(s))
           e == <<s[p]>>
<1>1. p \in I
  <2>1. I # {} /\ I \subseteq Nat
    BY DEF SE!Contains
  <2>2. p = SE!Min(I)
    BY <2>1, Zenon DEF SE!SelectInSeq
  <2>3. \E x \in I : \A y \in I : x <= y
    BY <2>1, LeastNumber
  <2>4. SE!Min(I) \in I
    <3> HIDE DEF I
    <3> QED
      BY <2>3, Zenon DEF SE!Min
  <2> QED
    BY <2>2, <2>4
<1>2. SE!RemoveFirst(s, c) = Cat(a, b)
  BY Zenon DEF SE!RemoveFirst, SE!RemoveAt, SE!Contains, Cat
<1> HIDE DEF p
<1>3. a \in Seq(A) /\ b \in Seq(A) /\ s = Cat(a, Cat(e, b))
  BY <1>1, SplitAt
<1>4. e \in Seq(A)
  BY <1>1
<1>4a. e = <<c>>
  BY <1>1
<1> HIDE DEF a, b, e
<1>5. Cat(e, b) \in Seq(A) /\ Cat(a, b) \in Seq(A)
  BY <1>3, <1>4, CatFacts
<1>6. Occurrences(s, d) = Occurrences(a, d) + Occurrences(Cat(e, b), d)
  BY <1>3, <1>5, OccurrencesCat
<1>7. Occurrences(Cat(e, b), d) = Occurrences(e, d) + Occurrences(b, d)
  BY <1>3, <1>4, OccurrencesCat
<1>8. Occurrences(Cat(a, b), d) = Occurrences(a, d) + Occurrences(b, d)
  BY <1>3, OccurrencesCat
<1>9. Occurrences(a, d) \in Nat /\ Occurrences(b, d) \in Nat
  BY <1>3, OccurrencesAre
<1>10. Occurrences(e, d) = IF c = d THEN 1 ELSE 0
  BY <1>4a, OccurrencesOne
<1>11. Occurrences(Cat(a, b), d) = Occurrences(s, d) - IF c = d THEN 1 ELSE 0
  BY <1>6, <1>7, <1>8, <1>9, <1>10
<1> QED
  BY <1>2, <1>5, <1>11

-----------------------------------------------------------------------------
(* Registrations.                                                          *)

(* The registrations of an index; Registrations are those of a trie's.     *)
RegistrationsOf(reg) ==
  UNION {{<<e, i>> : i \in 1 .. reg[e[1]][e[2]]} : e \in PrefixSet \X Clients}

(* What the members of RegistrationsOf look like.                          *)
LEMMA RegistrationsAre ==
  ASSUME NEW reg
  PROVE  /\ \A p \in PrefixSet, d \in Clients : \A i \in 1 .. reg[p][d] :
              <<<<p, d>>, i>> \in RegistrationsOf(reg)
         /\ \A r \in RegistrationsOf(reg) :
              /\ r[1][1] \in PrefixSet /\ r[1][2] \in Clients
              /\ r[2] \in 1 .. reg[r[1][1]][r[1][2]]
              /\ r = <<<<r[1][1], r[1][2]>>, r[2]>>
<1>1. ASSUME NEW p \in PrefixSet, NEW d \in Clients, NEW i \in 1 .. reg[p][d]
      PROVE  <<<<p, d>>, i>> \in RegistrationsOf(reg)
  <2> DEFINE e == <<p, d>>
  <2>1. e \in PrefixSet \X Clients /\ e[1] = p /\ e[2] = d
    OBVIOUS
  <2> HIDE DEF e
  <2>2. <<e, i>> \in RegistrationsOf(reg)
    BY <2>1 DEF RegistrationsOf
  <2> QED
    BY <2>2 DEF e
<1>2. ASSUME NEW r \in RegistrationsOf(reg)
      PROVE  /\ r[1][1] \in PrefixSet /\ r[1][2] \in Clients
             /\ r[2] \in 1 .. reg[r[1][1]][r[1][2]]
             /\ r = <<<<r[1][1], r[1][2]>>, r[2]>>
  <2>1. PICK e \in PrefixSet \X Clients : \E i \in 1 .. reg[e[1]][e[2]] : r = <<e, i>>
    BY DEF RegistrationsOf
  <2>2. e[1] \in PrefixSet /\ e[2] \in Clients /\ e = <<e[1], e[2]>>
    OBVIOUS
  <2>3. r[1] = e /\ r[2] \in 1 .. reg[e[1]][e[2]] /\ r = <<r[1], r[2]>>
    BY <2>1
  <2> QED
    BY <2>2, <2>3
<1> QED
  BY <1>1, <1>2

(* One registration more or less of one client under one prefix. *)
Counts(new, reg, pre, c, k) ==
  /\ new \in Index!Indexes
  /\ \A p \in PrefixSet, d \in Clients :
       new[p][d] = IF p = pre /\ d = c THEN k ELSE reg[p][d]

(* The reference index changes one count by one, and a removal of what is  *)
(* not registered changes nothing.                                         *)
LEMMA IndexFacts ==
  ASSUME NEW reg, reg \in Index!Indexes, NEW pre, pre \in PrefixSet, NEW c, c \in Clients
  PROVE  /\ reg[pre][c] \in Nat
         /\ Counts(Index!insert(reg, pre, c), reg, pre, c, reg[pre][c] + 1)
         /\ Counts(Index!remove(reg, pre, c), reg, pre, c,
                   IF reg[pre][c] > 0 THEN reg[pre][c] - 1 ELSE 0)
         /\ reg[pre][c] = 0 => Index!remove(reg, pre, c) = reg
<1>1. reg \in [PrefixSet -> [Clients -> Nat]]
  BY DEF Index!Indexes
<1>2. reg[pre][c] \in Nat
  BY <1>1
<1>3. ASSUME NEW k, k \in Nat PROVE Counts([reg EXCEPT ![pre][c] = k], reg, pre, c, k)
  <2> DEFINE new == [reg EXCEPT ![pre][c] = k]
  <2>1. new \in [PrefixSet -> [Clients -> Nat]]
    BY <1>1, <1>3
  <2>2. \A p \in PrefixSet, d \in Clients :
          new[p][d] = IF p = pre /\ d = c THEN k ELSE reg[p][d]
    BY <1>1
  <2> QED
    BY <2>1, <2>2 DEF Counts, Index!Indexes
<1>4. Index!insert(reg, pre, c) = [reg EXCEPT ![pre][c] = reg[pre][c] + 1]
  BY <1>1 DEF Index!insert
<1>5. Index!remove(reg, pre, c) =
        [reg EXCEPT ![pre][c] = IF reg[pre][c] > 0 THEN reg[pre][c] - 1 ELSE 0]
  BY <1>1 DEF Index!remove
<1>6. /\ reg[pre][c] + 1 \in Nat
      /\ (IF reg[pre][c] > 0 THEN reg[pre][c] - 1 ELSE 0) \in Nat
  BY <1>2
<1>7. ASSUME reg[pre][c] = 0 PROVE Index!remove(reg, pre, c) = reg
  <2>1. Index!remove(reg, pre, c) = [reg EXCEPT ![pre][c] = 0]
    BY <1>5, <1>7
  <2> QED
    BY <1>1, <1>7, <2>1
<1> QED
  BY <1>2, <1>3, <1>4, <1>5, <1>6, <1>7

(* The set of registrations gains the last of its kind, or loses it. *)
LEMMA OneMore ==
  ASSUME NEW reg, reg \in Index!Indexes, NEW new, NEW pre, pre \in PrefixSet,
         NEW c, c \in Clients, Counts(new, reg, pre, c, reg[pre][c] + 1)
  PROVE  /\ RegistrationsOf(new) = RegistrationsOf(reg) \cup {<<<<pre, c>>, reg[pre][c] + 1>>}
         /\ <<<<pre, c>>, reg[pre][c] + 1>> \notin RegistrationsOf(reg)
<1> DEFINE k == reg[pre][c]
           last == <<<<pre, c>>, k + 1>>
<1>0. \A p \in PrefixSet, d \in Clients : reg[p][d] \in Nat
  BY DEF Index!Indexes
<1>1. k \in Nat
  BY <1>0
<1>2. \A p \in PrefixSet, d \in Clients :
        new[p][d] = IF p = pre /\ d = c THEN k + 1 ELSE reg[p][d]
  BY DEF Counts
<1> HIDE DEF k
<1>3. last \notin RegistrationsOf(reg)
  <2> SUFFICES ASSUME last \in RegistrationsOf(reg) PROVE FALSE
    OBVIOUS
  <2>1. last[2] \in 1 .. reg[last[1][1]][last[1][2]]
    BY RegistrationsAre
  <2>2. k + 1 \in 1 .. k
    BY <2>1 DEF k
  <2> QED
    BY <1>1, <2>2
<1>4. ASSUME NEW r, r \in RegistrationsOf(new) PROVE r \in RegistrationsOf(reg) \cup {last}
  <2> DEFINE p == r[1][1]
             d == r[1][2]
             i == r[2]
  <2>1. p \in PrefixSet /\ d \in Clients /\ i \in 1 .. new[p][d] /\ r = <<<<p, d>>, i>>
    BY <1>4, RegistrationsAre
  <2> HIDE DEF p, d, i
  <2>2. CASE i \in 1 .. reg[p][d]
    BY <2>1, <2>2, RegistrationsAre
  <2>3. CASE i \notin 1 .. reg[p][d]
    <3>1. p = pre /\ d = c /\ i \in 1 .. k + 1 /\ i \notin 1 .. k
      BY <1>2, <2>1, <2>3 DEF k
    <3>2. i = k + 1
      BY <1>1, <3>1
    <3> QED
      BY <2>1, <3>1, <3>2
  <2> QED
    BY <2>2, <2>3
<1>5. ASSUME NEW r, r \in RegistrationsOf(reg) PROVE r \in RegistrationsOf(new)
  <2> DEFINE p == r[1][1]
             d == r[1][2]
             i == r[2]
  <2>1. p \in PrefixSet /\ d \in Clients /\ i \in 1 .. reg[p][d] /\ r = <<<<p, d>>, i>>
    BY <1>5, RegistrationsAre
  <2> HIDE DEF p, d, i
  <2>2. i \in 1 .. new[p][d]
    <3>1. CASE p = pre /\ d = c
      <4>1. new[p][d] = k + 1 /\ i \in 1 .. k
        BY <1>2, <2>1, <3>1 DEF k
      <4> QED
        BY <1>1, <4>1
    <3>2. CASE ~(p = pre /\ d = c)
      BY <1>2, <2>1, <3>2
    <3> QED
      BY <3>1, <3>2
  <2> QED
    BY <2>1, <2>2, RegistrationsAre
<1>6. last \in RegistrationsOf(new)
  <2>1. k + 1 \in 1 .. new[pre][c]
    BY <1>1, <1>2
  <2> QED
    BY <2>1, RegistrationsAre
<1>7. RegistrationsOf(new) = RegistrationsOf(reg) \cup {last}
  BY <1>4, <1>5, <1>6
<1> QED
  BY <1>3, <1>7 DEF k

(* A count that falls by one takes one registration away.                  *)
LEMMA OneLess ==
  ASSUME NEW reg, reg \in Index!Indexes, NEW new, NEW pre, pre \in PrefixSet,
         NEW c, c \in Clients, reg[pre][c] > 0, Counts(new, reg, pre, c, reg[pre][c] - 1)
  PROVE  /\ RegistrationsOf(reg) = RegistrationsOf(new) \cup {<<<<pre, c>>, reg[pre][c]>>}
         /\ <<<<pre, c>>, reg[pre][c]>> \notin RegistrationsOf(new)
<1>1. new \in Index!Indexes /\ new[pre][c] = reg[pre][c] - 1 /\ reg[pre][c] \in Nat
  BY DEF Counts, Index!Indexes
<1>2. new[pre][c] + 1 = reg[pre][c]
  BY <1>1
<1>3. Counts(reg, new, pre, c, new[pre][c] + 1)
  <2>1. ASSUME NEW p \in PrefixSet, NEW d \in Clients
        PROVE  reg[p][d] = IF p = pre /\ d = c THEN reg[pre][c] ELSE new[p][d]
    BY DEF Counts
  <2> QED
    BY <1>2, <2>1 DEF Counts
<1>4. /\ RegistrationsOf(reg) = RegistrationsOf(new) \cup {<<<<pre, c>>, new[pre][c] + 1>>}
      /\ <<<<pre, c>>, new[pre][c] + 1>> \notin RegistrationsOf(new)
  BY <1>1, <1>3, OneMore
<1> QED
  BY <1>2, <1>4
-----------------------------------------------------------------------------
(* One trie and what is registered in it.                                  *)

(* The lists of the nodes are the registrations; other nodes have none. *)
Holds(n, reg) ==
  /\ \A q \in DOMAIN n : q \notin PrefixSet => n[q] = <<>>
  /\ \A p \in PrefixSet, d \in Clients : Occurrences(At(n, p), d) = reg[p][d]

(* The nodes n and the counter k of a trie with the registrations reg. *)
StandsFor(n, k, reg) ==
  /\ IsTrie(n) /\ reg \in Index!Indexes /\ Holds(n, reg)
  /\ \A q \in DOMAIN n \ {<<>>} : Alive(n, q)
  /\ IsFiniteSet(RegistrationsOf(reg)) /\ k = Cardinality(RegistrationsOf(reg))

(* The list at any path is a list of clients. *)
LEMMA ListAt ==
  ASSUME NEW n, IsTrie(n), NEW q
  PROVE  At(n, q) \in Seq(Clients)
<1>1. \A p \in DOMAIN n : n[p] \in Seq(Clients)
  BY DEF IsTrie
<1>2. <<>> \in Seq(Clients)
  OBVIOUS
<1> QED
  BY <1>1, <1>2 DEF At

(* A new trie and one that was cleared or moved from. *)
LEMMA EmptyStands == StandsFor(EmptyNode, 0, Index!EmptyIndex)
<1>1. DOMAIN EmptyNode = {<<>>} /\ EmptyNode[<<>>] = <<>> /\ EmptyNode = [q \in {<<>>} |-> <<>>]
  BY DEF EmptyNode
<1>2. IsTrie(EmptyNode)
  <2>1. EmptyNode \in [DOMAIN EmptyNode -> Seq(Clients)]
    <3>1. <<>> \in Seq(Clients)
      OBVIOUS
    <3> QED
      BY <1>1, <3>1
  <2>2. ASSUME NEW p \in Text, Over(p, <<>>) PROVE p = <<>>
    <3>1. <<>> \in Text /\ Len(<<>>) = 0 /\ Len(p) \in Nat
      BY DEF Text
    <3>2. Len(<<>>) <= Len(p)
      BY <3>1
    <3> QED
      BY <2>2, <3>1, <3>2, OverOrder
  <2> QED
    BY <1>1, <2>1, <2>2 DEF IsTrie, Paths
<1>3. /\ Index!EmptyIndex \in Index!Indexes
      /\ \A p \in PrefixSet, d \in Clients : Index!EmptyIndex[p][d] = 0
  BY DEF Index!EmptyIndex, Index!Indexes
<1>4. \A q : At(EmptyNode, q) = <<>>
  BY <1>1 DEF At
<1>5. Holds(EmptyNode, Index!EmptyIndex)
  BY <1>1, <1>3, <1>4, OccurrencesOne DEF Holds
<1>6. RegistrationsOf(Index!EmptyIndex) = {}
  <2> SUFFICES ASSUME NEW r, r \in RegistrationsOf(Index!EmptyIndex) PROVE FALSE
    OBVIOUS
  <2>1. /\ r[1][1] \in PrefixSet /\ r[1][2] \in Clients
        /\ r[2] \in 1 .. Index!EmptyIndex[r[1][1]][r[1][2]]
    BY RegistrationsAre
  <2>2. r[2] \in 1 .. 0
    BY <1>3, <2>1
  <2> QED
    BY <2>2
<1>7. IsFiniteSet({}) /\ Cardinality({}) = 0
  BY FS_EmptySet
<1> QED
  BY <1>1, <1>2, <1>3, <1>5, <1>6, <1>7 DEF StandsFor

(* insert(): the branch is there and ends at a node with a subscriber.     *)
LEMMA InsertStands ==
  ASSUME NEW n, NEW k, NEW reg, StandsFor(n, k, reg),
         NEW pre, pre \in PrefixSet, NEW c, c \in Clients
  PROVE  StandsFor(Inserted(n, pre, c), k + 1, Index!insert(reg, pre, c))
<1> DEFINE m == Inserted(n, pre, c)
           new == Index!insert(reg, pre, c)
           s == Append(At(n, pre), c)
<1>0. /\ IsTrie(n) /\ reg \in Index!Indexes /\ Holds(n, reg)
      /\ \A q \in DOMAIN n \ {<<>>} : Alive(n, q)
      /\ IsFiniteSet(RegistrationsOf(reg)) /\ k = Cardinality(RegistrationsOf(reg))
  BY DEF StandsFor
<1>1. /\ DOMAIN n \subseteq Paths /\ DOMAIN n \subseteq Text /\ pre \in Text
      /\ Branch(pre) \subseteq Paths /\ Branch(pre) \subseteq Text
  BY <1>0, PathsAreText DEF IsTrie
<1>2. \A p \in Text : p \in Branch(pre) <=> Over(p, pre)
  BY <1>1, BranchOver
<1>3. pre \in Branch(pre)
  BY <1>1, <1>2, OverOrder
<1>4. At(n, pre) \in Seq(Clients)
  BY <1>0, ListAt
<1>5. s \in Seq(Clients) /\ s # <<>>
  BY <1>4, OccurrencesAppend
<1>5a. \A d : Occurrences(s, d) = Occurrences(At(n, pre), d) + IF c = d THEN 1 ELSE 0
  BY <1>4, OccurrencesAppend
<1>6. /\ DOMAIN m = DOMAIN n \cup Branch(pre)
      /\ \A q \in DOMAIN m : m[q] = IF q = pre THEN s ELSE At(n, q)
      /\ m = [q \in DOMAIN n \cup Branch(pre) |-> IF q = pre THEN s ELSE At(n, q)]
  BY DEF Inserted
<1>7. Counts(new, reg, pre, c, reg[pre][c] + 1) /\ reg[pre][c] \in Nat
  BY <1>0, IndexFacts
<1> HIDE DEF m, new, s
<1>8. IsTrie(m)
  <2>1. DOMAIN m \subseteq Paths /\ <<>> \in DOMAIN m
    BY <1>0, <1>1, <1>6 DEF IsTrie
  <2>2. \A q \in DOMAIN m : m[q] \in Seq(Clients)
    BY <1>0, <1>5, <1>6, ListAt
  <2>3. m \in [DOMAIN m -> Seq(Clients)]
    BY <1>6, <2>2
  <2>4. ASSUME NEW q \in DOMAIN m, NEW p \in Text, Over(p, q) PROVE p \in DOMAIN m
    <3>1. CASE q \in DOMAIN n
      BY <1>0, <1>6, <2>4, <3>1 DEF IsTrie
    <3>2. CASE q \in Branch(pre)
      <4>1. q \in Text /\ Over(q, pre)
        BY <1>1, <1>2, <3>2
      <4>2. Over(p, pre)
        BY <1>1, <2>4, <4>1, OverOrder
      <4> QED
        BY <1>2, <1>6, <4>2
    <3> QED
      BY <1>6, <3>1, <3>2
  <2> QED
    BY <2>1, <2>3, <2>4 DEF IsTrie
<1>9. \A q : At(m, q) = IF q = pre THEN s ELSE At(n, q)
  BY <1>3, <1>6 DEF At
<1>10. Holds(m, new)
  <2>1. ASSUME NEW q \in DOMAIN m, q \notin PrefixSet PROVE m[q] = <<>>
    <3>1. m[q] = At(n, q)
      BY <1>6, <2>1
    <3> QED
      BY <1>0, <2>1, <3>1 DEF Holds, At
  <2>2. ASSUME NEW p \in PrefixSet, NEW d \in Clients
        PROVE  Occurrences(At(m, p), d) = new[p][d]
    <3>1. Occurrences(At(n, p), d) = reg[p][d]
      BY <1>0 DEF Holds
    <3>2. new[p][d] = IF p = pre /\ d = c THEN reg[pre][c] + 1 ELSE reg[p][d]
      BY <1>7 DEF Counts
    <3>3. CASE p = pre
      <4>1. Occurrences(At(m, p), d) = reg[p][d] + IF c = d THEN 1 ELSE 0
        BY <1>5a, <1>9, <3>1, <3>3
      <4>2. reg[p][d] \in Nat
        BY <1>0 DEF Index!Indexes
      <4> QED
        BY <3>2, <3>3, <4>1, <4>2
    <3>4. CASE p # pre
      BY <1>9, <3>1, <3>2, <3>4
    <3> QED
      BY <3>3, <3>4
  <2> QED
    BY <2>1, <2>2 DEF Holds
<1>11. ASSUME NEW q \in DOMAIN m \ {<<>>} PROVE Alive(m, q)
  <2>1. CASE q \in DOMAIN n
    <3>1. PICK r \in DOMAIN n : Over(q, r) /\ n[r] # <<>>
      BY <1>0, <2>1 DEF Alive
    <3>2. r \in DOMAIN m /\ m[r] # <<>>
      BY <1>5, <1>6, <3>1 DEF At
    <3> QED
      BY <3>1, <3>2 DEF Alive
  <2>2. CASE q \in Branch(pre)
    <3>1. Over(q, pre) /\ pre \in DOMAIN m /\ m[pre] # <<>>
      BY <1>1, <1>2, <1>3, <1>5, <1>6, <2>2
    <3> QED
      BY <3>1 DEF Alive
  <2> QED
    BY <1>6, <2>1, <2>2
<1>12. IsFiniteSet(RegistrationsOf(new)) /\ k + 1 = Cardinality(RegistrationsOf(new))
  <2> DEFINE R == RegistrationsOf(reg)
             e == <<<<pre, c>>, reg[pre][c] + 1>>
  <2>1. RegistrationsOf(new) = R \cup {e} /\ e \notin R
    BY <1>0, <1>7, OneMore
  <2> HIDE DEF e, R
  <2>2. IsFiniteSet(R) /\ k = Cardinality(R)
    BY <1>0 DEF R
  <2>3. IsFiniteSet(R \cup {e}) /\ Cardinality(R \cup {e}) = Cardinality(R) + 1
    BY <2>1, <2>2, FS_AddElement
  <2> QED
    BY <2>1, <2>2, <2>3
<1>13. new \in Index!Indexes
  BY <1>7 DEF Counts
<1>14. StandsFor(m, k + 1, new)
  BY <1>8, <1>10, <1>11, <1>12, <1>13 DEF StandsFor
<1> QED
  BY <1>14 DEF m, new

(* remove() of a client that is registered.                                *)
LEMMA RemoveStands ==
  ASSUME NEW n, NEW k, NEW reg, StandsFor(n, k, reg),
         NEW pre, pre \in PrefixSet, NEW c, c \in Clients,
         pre \in DOMAIN n, SE!Contains(n[pre], c)
  PROVE  StandsFor(Removed(n, pre, c), k - 1, Index!remove(reg, pre, c))
<1> DEFINE s == SE!RemoveFirst(n[pre], c)
           l == [n EXCEPT ![pre] = SE!RemoveFirst(@, c)]
           m == Prune(l, pre)
           new == Index!remove(reg, pre, c)
<1>0. /\ IsTrie(n) /\ reg \in Index!Indexes /\ Holds(n, reg)
      /\ \A q \in DOMAIN n \ {<<>>} : Alive(n, q)
      /\ IsFiniteSet(RegistrationsOf(reg)) /\ k = Cardinality(RegistrationsOf(reg))
  BY DEF StandsFor
<1>1. DOMAIN n \subseteq Text /\ pre \in Text
  BY <1>0, PathsAreText DEF IsTrie
<1>2. n[pre] \in Seq(Clients) /\ At(n, pre) = n[pre]
  BY <1>0 DEF IsTrie, At
<1>3. s \in Seq(Clients)
  BY <1>2, OccurrencesRemove
<1>3a. \A d : Occurrences(s, d) = Occurrences(n[pre], d) - IF c = d THEN 1 ELSE 0
  BY <1>2, OccurrencesRemove
<1>4. DOMAIN l = DOMAIN n /\ \A q \in DOMAIN n : l[q] = IF q = pre THEN s ELSE n[q]
  BY <1>0 DEF IsTrie
<1>4a. l \in [DOMAIN l -> Seq(Clients)]
  <2>1. n \in [DOMAIN n -> Seq(Clients)]
    BY <1>0 DEF IsTrie
  <2>2. s \in Seq(Clients)
    BY <1>3
  <2> HIDE DEF s
  <2>3. l = [n EXCEPT ![pre] = s]
    BY <2>1 DEF s
  <2> QED
    BY <1>4, <2>1, <2>2, <2>3
<1>5. reg[pre][c] > 0 /\ reg[pre][c] \in Nat
  <2>1. reg[pre][c] = Occurrences(n[pre], c) /\ reg[pre][c] \in Nat
    BY <1>0, <1>2, IndexFacts DEF Holds
  <2>2. Occurrences(n[pre], c) # 0
    BY <1>2, OccurrencesAre
  <2> QED
    BY <2>1, <2>2
<1>6. Counts(new, reg, pre, c, reg[pre][c] - 1)
  BY <1>0, <1>5, IndexFacts
<1> HIDE DEF s, l, new
<1>7. IsTrie(l)
  BY <1>0, <1>4, <1>4a DEF IsTrie
<1>8. Climbed(l, l, pre)
  <2>1. ASSUME NEW q \in DOMAIN l \ {<<>>} PROVE Alive(l, q) \/ Over(q, pre)
    <3>1. PICK r \in DOMAIN n : Over(q, r) /\ n[r] # <<>>
      BY <1>0, <1>4 DEF Alive
    <3>2. CASE r = pre
      BY <3>1, <3>2
    <3>3. CASE r # pre
      BY <1>4, <3>1, <3>3 DEF Alive
    <3> QED
      BY <3>2, <3>3
  <2> QED
    BY <1>4, <1>7, <2>1 DEF Climbed
<1>9. Climbed(m, l, <<>>)
  BY <1>8, PruneFacts
<1> HIDE DEF m
<1>10. /\ IsTrie(m) /\ \A q \in Text : At(m, q) = At(l, q)
       /\ DOMAIN m \subseteq Text
  BY <1>9, PathsAreText DEF Climbed, IsTrie
<1>11. ASSUME NEW q \in DOMAIN m \ {<<>>} PROVE Alive(m, q)
  <2>1. q \in Text /\ <<>> \in Text /\ Len(<<>>) = 0 /\ Len(q) \in Nat
    BY <1>10 DEF Text
  <2>2. Len(<<>>) <= Len(q)
    BY <2>1
  <2>3. ~Over(q, <<>>)
    BY <2>1, <2>2, OverOrder
  <2> QED
    BY <1>9, <2>3 DEF Climbed
<1>12. \A q \in Text : At(m, q) = IF q = pre THEN s ELSE At(n, q)
  BY <1>4, <1>10 DEF At
<1>13. Holds(m, new)
  <2>1. ASSUME NEW q \in DOMAIN m, q \notin PrefixSet PROVE m[q] = <<>>
    <3>1. m[q] = At(n, q)
      BY <1>10, <1>12, <2>1 DEF At
    <3> QED
      BY <1>0, <2>1, <3>1 DEF Holds, At
  <2>2. ASSUME NEW p \in PrefixSet, NEW d \in Clients
        PROVE  Occurrences(At(m, p), d) = new[p][d]
    <3>0. p \in Text
      BY PathsAreText
    <3>1. Occurrences(At(n, p), d) = reg[p][d]
      BY <1>0 DEF Holds
    <3>2. new[p][d] = IF p = pre /\ d = c THEN reg[pre][c] - 1 ELSE reg[p][d]
      BY <1>6 DEF Counts
    <3>3. CASE p = pre
      <4>1. Occurrences(At(m, p), d) = reg[p][d] - IF c = d THEN 1 ELSE 0
        BY <1>2, <1>3a, <1>12, <3>0, <3>1, <3>3
      <4>2. reg[p][d] \in Nat
        BY <1>0 DEF Index!Indexes
      <4> QED
        BY <3>2, <3>3, <4>1, <4>2
    <3>4. CASE p # pre
      BY <1>12, <3>0, <3>1, <3>2, <3>4
    <3> QED
      BY <3>3, <3>4
  <2> QED
    BY <2>1, <2>2 DEF Holds
<1>14. IsFiniteSet(RegistrationsOf(new)) /\ k - 1 = Cardinality(RegistrationsOf(new))
  <2> DEFINE R == RegistrationsOf(new)
             e == <<<<pre, c>>, reg[pre][c]>>
  <2>1. RegistrationsOf(reg) = R \cup {e} /\ e \notin R
    BY <1>0, <1>5, <1>6, OneLess
  <2> HIDE DEF e, R
  <2>2. IsFiniteSet(R \cup {e}) /\ k = Cardinality(R \cup {e})
    BY <1>0, <2>1
  <2>3. IsFiniteSet(R)
    BY <2>2, FS_Subset
  <2>4. Cardinality(R \cup {e}) = Cardinality(R) + 1 /\ Cardinality(R) \in Nat
    BY <2>1, <2>3, FS_AddElement, FS_CardinalityType
  <2>5. k - 1 = Cardinality(R)
    BY <2>2, <2>4
  <2> QED
    BY <2>3, <2>5 DEF R
<1>15. new \in Index!Indexes
  BY <1>6 DEF Counts
<1>16. StandsFor(m, k - 1, new)
  BY <1>10, <1>11, <1>13, <1>14, <1>15 DEF StandsFor
<1> QED
  BY <1>16 DEF m, l, new, Removed

(* remove() of one that is not: there is nothing to remove either.         *)
LEMMA NotRegistered ==
  ASSUME NEW n, NEW k, NEW reg, StandsFor(n, k, reg),
         NEW pre, pre \in PrefixSet, NEW c, c \in Clients,
         ~(pre \in DOMAIN n /\ SE!Contains(n[pre], c))
  PROVE  Index!remove(reg, pre, c) = reg
<1>1. IsTrie(n) /\ reg \in Index!Indexes /\ reg[pre][c] = Occurrences(At(n, pre), c)
  BY DEF StandsFor, Holds
<1>2. CASE pre \in DOMAIN n
  <2>1. At(n, pre) = n[pre] /\ n[pre] \in Seq(Clients)
    BY <1>1, <1>2 DEF At, IsTrie
  <2>2. Occurrences(n[pre], c) = 0
    BY <1>2, <2>1, OccurrencesAre
  <2> QED
    BY <1>1, <2>1, <2>2, IndexFacts
<1>3. CASE pre \notin DOMAIN n
  <2>1. reg[pre][c] = 0
    BY <1>1, <1>3, OccurrencesOne DEF At
  <2> QED
    BY <1>1, <2>1, IndexFacts
<1> QED
  BY <1>2, <1>3
-----------------------------------------------------------------------------
(* The invariant.                                                          *)

(* Every trie stands for its registrations. *)
TrieInv ==
  /\ root \in [Trees -> Tries]
  /\ subscriber_count_ \in [Trees -> Nat]
  /\ registered \in [Trees -> Index!Indexes]
  /\ \A x \in Trees : StandsFor(root[x], subscriber_count_[x], registered[x])

(* The counter of a trie is a number, its nodes a trie. *)
LEMMA StandsTypes ==
  ASSUME NEW n, NEW k, NEW reg, StandsFor(n, k, reg)
  PROVE  n \in Tries /\ k \in Nat /\ reg \in Index!Indexes
BY TriesAre, FS_CardinalityType DEF StandsFor

(* What is enough for a step that changes two tries at most. *)
LEMMA StepKeeps ==
  ASSUME TrieInv, NEW x \in Trees, NEW n, NEW k, NEW reg, StandsFor(n, k, reg),
         NEW y \in Trees, NEW n2, NEW k2, NEW reg2, StandsFor(n2, k2, reg2),
         root' = [root EXCEPT ![x] = n, ![y] = n2],
         subscriber_count_' = [subscriber_count_ EXCEPT ![x] = k, ![y] = k2],
         registered' = [registered EXCEPT ![x] = reg, ![y] = reg2]
  PROVE  TrieInv'
<1>1. /\ n \in Tries /\ k \in Nat /\ reg \in Index!Indexes
      /\ n2 \in Tries /\ k2 \in Nat /\ reg2 \in Index!Indexes
  BY StandsTypes
<1>2. /\ root' \in [Trees -> Tries]
      /\ \A z \in Trees : root'[z] = IF z = y THEN n2 ELSE IF z = x THEN n ELSE root[z]
  BY <1>1 DEF TrieInv
<1>3. /\ subscriber_count_' \in [Trees -> Nat]
      /\ \A z \in Trees : subscriber_count_'[z] =
                            IF z = y THEN k2 ELSE IF z = x THEN k ELSE subscriber_count_[z]
  BY <1>1 DEF TrieInv
<1>4. /\ registered' \in [Trees -> Index!Indexes]
      /\ \A z \in Trees : registered'[z] =
                            IF z = y THEN reg2 ELSE IF z = x THEN reg ELSE registered[z]
  BY <1>1 DEF TrieInv
<1>5. ASSUME NEW z \in Trees
      PROVE  StandsFor(root'[z], subscriber_count_'[z], registered'[z])
  <2>1. CASE z = y
    BY <1>2, <1>3, <1>4, <2>1
  <2>2. CASE z # y /\ z = x
    BY <1>2, <1>3, <1>4, <2>2
  <2>3. CASE z # y /\ z # x
    BY <1>2, <1>3, <1>4, <2>3 DEF TrieInv
  <2> QED
    BY <2>1, <2>2, <2>3
<1> QED
  BY <1>2, <1>3, <1>4, <1>5 DEF TrieInv

(* The empty tries stand for empty indexes.                                *)
LEMMA InitInv == Init => TrieInv
<1> SUFFICES ASSUME Init PROVE TrieInv
  OBVIOUS
<1>1. EmptyNode \in Tries /\ 0 \in Nat /\ Index!EmptyIndex \in Index!Indexes
  BY EmptyStands, StandsTypes
<1> QED
  BY <1>1, EmptyStands DEF Init, TrieInv

(* One trie changes. *)
LEMMA OneStepKeeps ==
  ASSUME TrieInv, NEW x \in Trees, NEW n, NEW k, NEW reg, StandsFor(n, k, reg),
         root' = [root EXCEPT ![x] = n],
         subscriber_count_' = [subscriber_count_ EXCEPT ![x] = k],
         registered' = [registered EXCEPT ![x] = reg]
  PROVE  TrieInv'
<1>1. n \in Tries /\ k \in Nat /\ reg \in Index!Indexes
  BY StandsTypes
<1>2. /\ root' \in [Trees -> Tries]
      /\ \A z \in Trees : root'[z] = IF z = x THEN n ELSE root[z]
  BY <1>1 DEF TrieInv
<1>3. /\ subscriber_count_' \in [Trees -> Nat]
      /\ \A z \in Trees : subscriber_count_'[z] = IF z = x THEN k ELSE subscriber_count_[z]
  BY <1>1 DEF TrieInv
<1>4. /\ registered' \in [Trees -> Index!Indexes]
      /\ \A z \in Trees : registered'[z] = IF z = x THEN reg ELSE registered[z]
  BY <1>1 DEF TrieInv
<1>5. ASSUME NEW z \in Trees
      PROVE  StandsFor(root'[z], subscriber_count_'[z], registered'[z])
  <2>1. CASE z = x
    BY <1>2, <1>3, <1>4, <2>1
  <2>2. CASE z # x
    BY <1>2, <1>3, <1>4, <2>2 DEF TrieInv
  <2> QED
    BY <2>1, <2>2
<1> QED
  BY <1>2, <1>3, <1>4, <1>5 DEF TrieInv

(* insert() keeps every trie standing for its registrations.               *)
LEMMA insertInv ==
  ASSUME TrieInv, NEW x \in Trees, NEW prefix \in PrefixSet, NEW c \in Clients,
         insert(x, prefix, c)
  PROVE  TrieInv'
<1> DEFINE n == Inserted(root[x], prefix, c)
           k == subscriber_count_[x] + 1
           reg == Index!insert(registered[x], prefix, c)
<1>1. StandsFor(root[x], subscriber_count_[x], registered[x])
  BY DEF TrieInv
<1>2. StandsFor(n, k, reg)
  BY <1>1, InsertStands
<1>3. /\ root' = [root EXCEPT ![x] = n]
      /\ subscriber_count_' = [subscriber_count_ EXCEPT ![x] = k]
      /\ registered' = [registered EXCEPT ![x] = reg]
  BY DEF insert, TrieInv
<1> HIDE DEF n, k, reg
<1> QED
  BY <1>2, <1>3, OneStepKeeps

(* So does remove(), whether or not it finds the client.                   *)
LEMMA removeInv ==
  ASSUME TrieInv, NEW x \in Trees, NEW prefix \in PrefixSet, NEW c \in Clients,
         remove(x, prefix, c)
  PROVE  TrieInv'
<1> DEFINE reg == Index!remove(registered[x], prefix, c)
<1>1. StandsFor(root[x], subscriber_count_[x], registered[x])
  BY DEF TrieInv
<1>2. registered' = [registered EXCEPT ![x] = reg]
  BY DEF remove, TrieInv
<1>3. CASE Registered(x, prefix, c)
  <2> DEFINE n == Removed(root[x], prefix, c)
             k == subscriber_count_[x] - 1
  <2>1. prefix \in DOMAIN root[x] /\ SE!Contains(root[x][prefix], c)
    BY <1>3 DEF Registered
  <2>2. StandsFor(n, k, reg)
    BY <1>1, <2>1, RemoveStands
  <2>4. root' = [root EXCEPT ![x] = n]
    BY <1>3 DEF remove
  <2>5. subscriber_count_' = [subscriber_count_ EXCEPT ![x] = k]
    BY <1>3 DEF remove
  <2> HIDE DEF n, k, reg
  <2> QED
    BY <1>2, <2>2, <2>4, <2>5, OneStepKeeps
<1>4. CASE ~Registered(x, prefix, c)
  <2>1. reg = registered[x]
    BY <1>1, <1>4, NotRegistered DEF Registered
  <2>2. root' = root /\ subscriber_count_' = subscriber_count_
    BY <1>4 DEF remove
  <2>3. registered' = registered
    BY <1>2, <2>1 DEF TrieInv
  <2> QED
    BY <2>2, <2>3 DEF TrieInv
<1> QED
  BY <1>3, <1>4

(* So does clear().                                                        *)
LEMMA clearInv ==
  ASSUME TrieInv, NEW x \in Trees, clear(x)
  PROVE  TrieInv'
BY EmptyStands, OneStepKeeps DEF clear

(* So does a move, for both tries.                                         *)
LEMMA moveInv ==
  ASSUME TrieInv, NEW x \in Trees, NEW y \in Trees, move(x, y)
  PROVE  TrieInv'
<1>1. StandsFor(root[y], subscriber_count_[y], registered[y])
  BY DEF TrieInv
<1>2. /\ root' = [root EXCEPT ![x] = root[y], ![y] = EmptyNode]
      /\ subscriber_count_' = [subscriber_count_ EXCEPT ![x] = subscriber_count_[y], ![y] = 0]
      /\ registered' = [registered EXCEPT ![x] = registered[y], ![y] = Index!EmptyIndex]
  BY DEF move
<1> QED
  BY <1>1, <1>2, EmptyStands, StepKeeps

(* TrieInv is inductive.                                                   *)
LEMMA NextInv == TrieInv /\ [Next]_vars => TrieInv'
<1> SUFFICES ASSUME TrieInv, [Next]_vars PROVE TrieInv'
  OBVIOUS
<1>1. ASSUME NEW x \in Trees, NEW prefix \in PrefixSet, NEW c \in Clients,
             insert(x, prefix, c)
      PROVE  TrieInv'
  BY <1>1, insertInv
<1>2. ASSUME NEW x \in Trees, NEW prefix \in PrefixSet, NEW c \in Clients,
             remove(x, prefix, c)
      PROVE  TrieInv'
  BY <1>2, removeInv
<1>3. ASSUME NEW x \in Trees, clear(x) PROVE TrieInv'
  BY <1>3, clearInv
<1>4. ASSUME NEW x \in Trees, NEW y \in Trees, move(x, y) PROVE TrieInv'
  BY <1>4, moveInv
<1>5. CASE UNCHANGED vars
  BY <1>5 DEF vars, TrieInv
<1> QED
  BY <1>1, <1>2, <1>3, <1>4, <1>5 DEF Next

(* Every trie stands for its registrations in every reachable state.       *)
THEOREM TrieInvariance == Spec => []TrieInv
BY InitInv, NextInv, PTL DEF Spec

(* TypeOK: nodes are on the branches of prefixes, the counter a number.    *)
THEOREM TrieTypes == Spec => []TypeOK
<1>1. TrieInv => TypeOK
  <2> SUFFICES ASSUME TrieInv, NEW x \in Trees
               PROVE  /\ <<>> \in DOMAIN root[x] /\ DOMAIN root[x] \subseteq Paths
                      /\ \A q \in DOMAIN root[x] : root[x][q] \in Seq(Clients)
                      /\ subscriber_count_[x] \in Nat
                      /\ registered[x] \in Index!Indexes
    BY DEF TypeOK
  <2>1. IsTrie(root[x]) /\ subscriber_count_[x] \in Nat /\ registered[x] \in Index!Indexes
    BY DEF TrieInv, StandsFor
  <2> QED
    BY <2>1 DEF IsTrie
<1> QED
  BY <1>1, TrieInvariance, PTL

(* NoDeadNodes: what remove() prunes is enough; every node but the root    *)
(* leads to a subscriber.                                                  *)
THEOREM TrieHasNoDeadNodes == Spec => []NoDeadNodes
<1>1. TrieInv => NoDeadNodes
  BY DEF TrieInv, StandsFor, NoDeadNodes, Alive, Over
<1> QED
  BY <1>1, TrieInvariance, PTL

(* CountExact: subscriber_count_ is the number of registrations, through   *)
(* removals that find nothing, clear() and moves.                          *)
THEOREM TrieCounts == Spec => []CountExact
<1>1. \A x : Registrations(x) = RegistrationsOf(registered[x])
  BY DEF Registrations, RegistrationsOf
<1>2. TrieInv => CountExact
  BY <1>1 DEF TrieInv, StandsFor, CountExact
<1> QED
  BY <1>2, TrieInvariance, PTL

-----------------------------------------------------------------------------
(* match().                                                                *)

(* The walk along a key ends at depth k: there is no node further down.    *)
EndsAt(n, key, k) ==
  /\ Branch(Up(key, k)) \subseteq DOMAIN n
  /\ k < Len(key) => Up(key, k + 1) \notin DOMAIN n

(* The walk ends somewhere. *)
LEMMA WalkEnds ==
  ASSUME NEW n, IsTrie(n), NEW key, key \in Text
  PROVE  \E k \in 0 .. Len(key) : EndsAt(n, key, k)
<1> DEFINE N == Len(key)
           S == {k \in 0 .. N : Up(key, k) \notin DOMAIN n}
<1>0. N \in Nat
  BY DEF Text
<1>1. ASSUME NEW k \in 0 .. N, Up(key, k) \in DOMAIN n
      PROVE  Branch(Up(key, k)) \subseteq DOMAIN n
  <2> DEFINE q == Up(key, k)
  <2>1. q \in Text
    BY <1>1, UpFacts
  <2>2. q \in DOMAIN n
    BY <1>1
  <2> HIDE DEF q
  <2>3. Branch(q) \subseteq Text /\ \A p \in Text : p \in Branch(q) <=> Over(p, q)
    BY <2>1, BranchOver
  <2>4. Branch(q) \subseteq DOMAIN n
    BY <2>2, <2>3 DEF IsTrie
  <2> QED
    BY <2>4 DEF q
<1>2. CASE S = {}
  <2>1. N \in 0 .. N /\ ~(N < N)
    BY <1>0
  <2>2. Up(key, N) \in DOMAIN n
    BY <1>2, <2>1
  <2>3. EndsAt(n, key, N)
    BY <1>1, <2>1, <2>2 DEF EndsAt
  <2> QED
    BY <2>1, <2>3
<1>3. CASE S # {}
  <2>1. S \subseteq Nat
    BY <1>0
  <2>2. PICK m \in S : \A j \in S : m <= j
    <3> HIDE DEF S
    <3> QED
      BY <1>3, <2>1, LeastNumber
  <2>3. m \in 0 .. N /\ Up(key, m) \notin DOMAIN n
    OBVIOUS
  <2>4. m # 0
    BY <2>3, UpEnds DEF IsTrie
  <2>5. m - 1 \in 0 .. N /\ m - 1 + 1 = m /\ ~(m <= m - 1)
    BY <1>0, <2>3, <2>4
  <2>6. Up(key, m - 1) \in DOMAIN n
    BY <2>2, <2>5
  <2>7. EndsAt(n, key, m - 1)
    BY <1>1, <2>3, <2>5, <2>6 DEF EndsAt
  <2> QED
    BY <2>5, <2>7
<1> QED
  BY <1>2, <1>3

(* The lists that the walk collects. *)
Collected(n, key, k) == [i \in 1 .. k + 1 |-> n[Up(key, i - 1)]]

(* match returns the lists along the walk, one after the other. *)
LEMMA MatchDef ==
  ASSUME NEW x, IsTrie(root[x]), NEW key, key \in Text
  PROVE  \E k \in 0 .. Len(key) :
           /\ EndsAt(root[x], key, k)
           /\ match(x, key) = Flatten(Collected(root[x], key, k))
<1> DEFINE Ends(k) == EndsAt(root[x], key, k)
           D == 0 .. Len(key)
           depth == CHOOSE k \in D : Ends(k)
<1>1. depth \in D /\ Ends(depth)
  <2>1. \E k \in D : Ends(k)
    BY WalkEnds
  <2> HIDE DEF Ends, D
  <2> QED
    BY <2>1, Zenon
<1>2. match(x, key) = Flatten(Collected(root[x], key, depth))
  BY Zenon DEF match, EndsAt, Collected, Up, SE!FlattenSeq, Flatten
<1> HIDE DEF depth
<1> QED
  BY <1>1, <1>2

(* The registrations of a client under prefixes of a key that are shorter  *)
(* than k, and those under the first k characters.                         *)
Shorter(reg, key, c, k) ==
  {r \in RegistrationsOf(reg) : r[1][2] = c /\ Over(r[1][1], key) /\ Len(r[1][1]) < k}
Exactly(reg, key, c, k) == {r \in RegistrationsOf(reg) : r[1][2] = c /\ r[1][1] = Up(key, k)}

(* As many as the client is registered there. *)
LEMMA RegisteredUnder ==
  ASSUME NEW reg, reg \in Index!Indexes, NEW pre, pre \in PrefixSet, NEW c, c \in Clients
  PROVE  LET R == {r \in RegistrationsOf(reg) : r[1][2] = c /\ r[1][1] = pre} IN
         IsFiniteSet(R) /\ Cardinality(R) = reg[pre][c]
<1> DEFINE R == {r \in RegistrationsOf(reg) : r[1][2] = c /\ r[1][1] = pre}
           m == reg[pre][c]
           f == [j \in 1 .. m |-> <<<<pre, c>>, j>>]
<1>0. m \in Nat
  BY DEF Index!Indexes
<1>1. \A j \in 1 .. m : f[j] \in R
  <2> SUFFICES ASSUME NEW j \in 1 .. m PROVE f[j] \in R
    OBVIOUS
  <2>1. f[j] = <<<<pre, c>>, j>> /\ f[j] \in RegistrationsOf(reg)
    BY RegistrationsAre
  <2> QED
    BY <2>1
<1>2. \A i, j \in 1 .. m : f[i] = f[j] => i = j
  OBVIOUS
<1>3. ASSUME NEW r \in R PROVE \E j \in 1 .. m : f[j] = r
  <2>1. r[2] \in 1 .. m /\ r = <<<<pre, c>>, r[2]>>
    BY RegistrationsAre
  <2> QED
    BY <2>1
<1>4. f \in [1 .. m -> R]
  BY <1>1
<1>5. f \in Bijection(1 .. m, R)
  <2> HIDE DEF f, R, m
  <2> QED
    BY <1>2, <1>3, <1>4 DEF Bijection, Injection, Surjection, IsInjective
<1>6. ExistsBijection(1 .. m, R)
  BY <1>5 DEF ExistsBijection
<1>7. IsFiniteSet(1 .. m) /\ Cardinality(1 .. m) = m
  <2> HIDE DEF m
  <2> QED
    BY <1>0, FS_Interval
<1> QED
  BY <1>6, <1>7, FS_Bijection

(* The list of a node on the walk has a client as often as it is           *)
(* registered under the characters up to there.                            *)
LEMMA ListCounts ==
  ASSUME NEW n, NEW k, NEW reg, StandsFor(n, k, reg), NEW key, NEW c, c \in Clients,
         NEW i, Up(key, i) \in DOMAIN n
  PROVE  /\ IsFiniteSet(Exactly(reg, key, c, i))
         /\ Occurrences(n[Up(key, i)], c) = Cardinality(Exactly(reg, key, c, i))
<1> DEFINE q == Up(key, i)
<1>0. Exactly(reg, key, c, i) = {r \in RegistrationsOf(reg) : r[1][2] = c /\ r[1][1] = q}
  BY DEF Exactly
<1>1. q \in DOMAIN n
  OBVIOUS
<1>2. reg \in Index!Indexes /\ Holds(n, reg)
  BY DEF StandsFor
<1> HIDE DEF q
<1>3. CASE q \in PrefixSet
  <2>1. Occurrences(n[q], c) = reg[q][c]
    BY <1>1, <1>2, <1>3 DEF Holds, At
  <2> QED
    BY <1>0, <1>2, <1>3, <2>1, RegisteredUnder DEF q
<1>4. CASE q \notin PrefixSet
  <2>1. n[q] = <<>>
    BY <1>1, <1>2, <1>4 DEF Holds
  <2>2. Exactly(reg, key, c, i) = {}
    BY <1>0, <1>4, RegistrationsAre
  <2> QED
    BY <2>1, <2>2, OccurrencesOne, FS_EmptySet DEF q
<1> QED
  BY <1>3, <1>4

(* One character more of the key. *)
LEMMA ShorterStep ==
  ASSUME NEW reg, NEW key, key \in Text, NEW c, NEW i, i \in 0 .. Len(key)
  PROVE  /\ Shorter(reg, key, c, 0) = {}
         /\ Shorter(reg, key, c, i + 1) = Shorter(reg, key, c, i) \cup Exactly(reg, key, c, i)
         /\ Shorter(reg, key, c, i) \cap Exactly(reg, key, c, i) = {}
<1>1. \A r \in RegistrationsOf(reg) : r[1][1] \in Text /\ Len(r[1][1]) \in Nat
  BY RegistrationsAre, PathsAreText DEF Text
<1>2. Up(key, i) \in Text /\ Len(Up(key, i)) = i /\ Over(Up(key, i), key) /\ i \in Nat
  <2>1. Up(key, i) \in Text /\ Len(Up(key, i)) = i /\ Over(Up(key, i), key)
    BY UpOver
  <2> QED
    BY <2>1
<1>3. \A p \in Text : Over(p, key) /\ Len(p) = i <=> p = Up(key, i)
  BY <1>2, OverUp
<1>4. \A r \in RegistrationsOf(reg) :
        Len(r[1][1]) < i + 1 <=> Len(r[1][1]) < i \/ Len(r[1][1]) = i
  BY <1>1, <1>2
<1>5. Shorter(reg, key, c, 0) = {}
  BY <1>1 DEF Shorter
<1>6. Shorter(reg, key, c, i + 1) = Shorter(reg, key, c, i) \cup Exactly(reg, key, c, i)
  BY <1>1, <1>3, <1>4 DEF Shorter, Exactly
<1>7. Shorter(reg, key, c, i) \cap Exactly(reg, key, c, i) = {}
  BY <1>2 DEF Shorter, Exactly
<1> QED
  BY <1>5, <1>6, <1>7

(* The registrations of client c under a prefix of key.                    *)
FoundBy(reg, key, c) ==
  {r \in RegistrationsOf(reg) : r[1][2] = c /\ Over(r[1][1], key)}

(* match() returns a client once per registration under a prefix.          *)
LEMMA MatchCounts ==
  ASSUME TrieInv, NEW x \in Trees, NEW key \in Keys, NEW c \in Clients
  PROVE  Occurrences(match(x, key), c) = Cardinality(FoundBy(registered[x], key, c))
<1> DEFINE cnt == subscriber_count_[x]
           reg == registered[x]
<1>init. StandsFor(root[x], cnt, reg) /\ key \in Text
  BY PathsAreText DEF TrieInv
<1> HIDE DEF cnt, reg
<1> DEFINE n == root[x]
           N == Len(key)
           T(i) == Shorter(reg, key, c, i)
<1>0. IsTrie(n) /\ reg \in Index!Indexes /\ Holds(n, reg) /\ N \in Nat
  BY <1>init DEF StandsFor, Text
<1>1. PICK k \in 0 .. N : EndsAt(n, key, k) /\ match(x, key) = Flatten(Collected(n, key, k))
  BY <1>0, <1>init, MatchDef
<1>2. ASSUME NEW i \in 0 .. k
      PROVE  Up(key, i) \in DOMAIN n /\ n[Up(key, i)] \in Seq(Clients)
  <2>0. i \in 0 .. N /\ k \in Nat
    BY <1>0
  <2>1. Up(key, k) \in Text /\ Len(Up(key, k)) = k
    BY <1>init, UpFacts
  <2>2. Up(Up(key, k), i) = Up(key, i)
    BY <1>init, UpUp
  <2>3. Up(key, i) \in Branch(Up(key, k))
    <3> DEFINE q == Up(key, k)
    <3>1. Len(q) = k
      BY <2>1
    <3> HIDE DEF q
    <3>2. Up(q, i) \in Branch(q)
      BY <3>1 DEF Branch, Up
    <3> QED
      BY <2>2, <3>2 DEF q
  <2>4. Up(key, i) \in DOMAIN n
    BY <1>1, <2>3 DEF EndsAt
  <2> QED
    BY <1>0, <2>4 DEF IsTrie
<1> DEFINE s == Collected(n, key, k)
<1> HIDE DEF n
<1>3. k \in Nat /\ s = [i \in 1 .. k + 1 |-> n[Up(key, i - 1)]]
  BY <1>0, <1>1 DEF Collected
<1>4. ASSUME NEW i \in 1 .. k + 1 PROVE s[i] = n[Up(key, i - 1)] /\ s[i] \in Seq(Clients)
  <2>1. i - 1 \in 0 .. k
    BY <1>3
  <2> QED
    BY <1>2, <1>3, <2>1
<1>5. IsLists(s, Clients) /\ Len(s) = k + 1
  <2>1. s = [i \in 1 .. k + 1 |-> s[i]]
    BY <1>3
  <2> HIDE DEF s
  <2>2. k + 1 \in Nat
    BY <1>3
  <2> DEFINE L == Seq(Clients)
  <2>3. \A i \in 1 .. k + 1 : s[i] \in L
    BY <1>4
  <2> HIDE DEF L
  <2>4. s \in [1 .. k + 1 -> L]
    BY <2>1, <2>3
  <2>5. s \in Seq(L) /\ Len(s) = k + 1
    BY <2>2, <2>4
  <2> QED
    BY <2>5 DEF IsLists, L
<1> HIDE DEF s
<1>6. PICK u : IsUpto(u, s, Clients) /\ Flatten(s) = u[Len(s)]
  BY <1>5, FlattenDef
<1> DEFINE S == {i \in 0 .. k + 1 : /\ IsFiniteSet(T(i))
                                    /\ Occurrences(u[i], c) = Cardinality(T(i))}
<1>7. 0 \in S
  <2>1. T(0) = {}
    <3>1. 0 \in 0 .. Len(key)
      BY <1>0
    <3> QED
      BY <1>init, <3>1, ShorterStep
  <2>2. u[0] = <<>>
    BY <1>5, <1>6, UptoStep
  <2>3. 0 \in 0 .. k + 1
    BY <1>3
  <2> HIDE DEF T
  <2> QED
    BY <2>1, <2>2, <2>3, OccurrencesOne, FS_EmptySet
<1>8. ASSUME NEW i \in 0 .. k, i \in S PROVE i + 1 \in S
  <2> DEFINE E == Exactly(reg, key, c, i)
  <2>1. i \in 0 .. Len(key) /\ i + 1 \in 1 .. k + 1 /\ (i + 1) - 1 = i /\ i + 1 \in 0 .. k + 1
        /\ i \in 0 .. Len(s) - 1 /\ i \in 0 .. Len(s)
    BY <1>0, <1>1, <1>3, <1>5
  <2>2. T(i + 1) = T(i) \cup E /\ T(i) \cap E = {}
    BY <1>init, <2>1, ShorterStep
  <2>3. s[i + 1] = n[Up(key, i)] /\ s[i + 1] \in Seq(Clients)
    BY <1>4, <2>1
  <2>4. u[i] \in Seq(Clients) /\ u[i + 1] = Cat(u[i], s[i + 1])
    BY <1>5, <1>6, <2>1, UptoStep
  <2>5. Occurrences(u[i + 1], c) = Occurrences(u[i], c) + Occurrences(s[i + 1], c)
    BY <2>3, <2>4, OccurrencesCat
  <2>6. IsFiniteSet(E) /\ Occurrences(s[i + 1], c) = Cardinality(E)
    BY <1>init, <1>2, <2>3, ListCounts DEF n
  <2>7. IsFiniteSet(T(i)) /\ Occurrences(u[i], c) = Cardinality(T(i))
    BY <1>8
  <2> HIDE DEF T, E
  <2>8. /\ IsFiniteSet(T(i) \cup E)
        /\ Cardinality(T(i) \cup E) = Cardinality(T(i)) + Cardinality(E) - Cardinality({})
    BY <2>2, <2>6, <2>7, FS_Union
  <2>9. Cardinality({}) = 0 /\ Cardinality(T(i)) \in Nat /\ Cardinality(E) \in Nat
    BY <2>6, <2>7, FS_EmptySet, FS_CardinalityType
  <2>10. IsFiniteSet(T(i + 1)) /\ Cardinality(T(i + 1)) = Cardinality(T(i)) + Cardinality(E)
    <3> DEFINE before == Cardinality(T(i))
               added == Cardinality(E)
               after == Cardinality(T(i + 1))
    <3>1. IsFiniteSet(T(i + 1)) /\ after = before + added - Cardinality({})
      <4>1. T(i + 1) = T(i) \cup E
        BY <2>2
      <4> QED
        BY <2>8, <4>1
    <3>2. before \in Nat /\ added \in Nat /\ Cardinality({}) = 0
      BY <2>9
    <3> HIDE DEF before, added, after
    <3>3. after = before + added
      BY <3>1, <3>2
    <3> QED
      BY <3>1, <3>3 DEF before, added, after
  <2>11. Occurrences(u[i + 1], c) = Cardinality(T(i + 1))
    BY <2>5, <2>6, <2>7, <2>10
  <2> QED
    BY <2>1, <2>10, <2>11
<1>9. k + 1 \in S
  <2>1. k + 1 \in Nat
    BY <1>3
  <2>2. \A i \in 0 .. (k + 1) - 1 : i \in S => i + 1 \in S
    <3> HIDE DEF S
    <3>1. (k + 1) - 1 = k
      BY <1>3
    <3> QED
      BY <1>8, <3>1
  <2> HIDE DEF S
  <2> QED
    BY <1>7, <2>1, <2>2, LoopInduction
<1>10. T(k + 1) = FoundBy(reg, key, c)
  <2> SUFFICES ASSUME NEW r \in RegistrationsOf(reg), Over(r[1][1], key)
               PROVE  Len(r[1][1]) < k + 1
    BY DEF Shorter, FoundBy
  <2> DEFINE p == r[1][1]
             d == r[1][2]
             q == Up(key, k + 1)
  <2>1. p \in PrefixSet /\ d \in Clients /\ r[2] \in 1 .. reg[p][d]
    BY RegistrationsAre
  <2>2. p \in Text /\ Len(p) \in Nat /\ Over(p, key)
    BY <2>1, PathsAreText DEF Text
  <2> HIDE DEF p, d
  <2>3. Occurrences(At(n, p), d) = reg[p][d] /\ reg[p][d] \in Nat
    BY <1>0, <2>1 DEF Holds, Index!Indexes, n
  <2>4. reg[p][d] # 0
    BY <2>1, <2>3
  <2>5. p \in DOMAIN n
    <3> SUFFICES ASSUME p \notin DOMAIN n PROVE FALSE
      OBVIOUS
    <3>1. At(n, p) = <<>>
      BY DEF At
    <3> QED
      BY <2>3, <2>4, <3>1, OccurrencesOne
  <2>6. ASSUME k + 1 <= Len(p) PROVE FALSE
    <3>1. Len(p) <= Len(key)
      BY <1>init, <2>2, OverOrder
    <3>2. k + 1 \in 0 .. Len(key) /\ k < Len(key)
      BY <1>0, <1>3, <2>2, <2>6, <3>1
    <3>3. q \in Text /\ Len(q) = k + 1 /\ Over(q, key)
      BY <1>init, <3>2, UpOver
    <3> HIDE DEF q
    <3>4. Over(q, p)
      BY <1>init, <2>2, <2>6, <3>3, OverOrder
    <3>5. q \in DOMAIN n
      BY <1>0, <2>5, <3>3, <3>4 DEF IsTrie, n
    <3> QED
      BY <1>1, <3>2, <3>5 DEF EndsAt, q, n
  <2>7. Len(p) < k + 1
    BY <1>3, <2>2, <2>6
  <2> QED
    BY <2>7 DEF p
<1>11. match(x, key) = u[k + 1]
  BY <1>1, <1>5, <1>6 DEF s, n
<1>12. Occurrences(u[k + 1], c) = Cardinality(T(k + 1))
  BY <1>9
<1> HIDE DEF T
<1> QED
  BY <1>10, <1>11, <1>12 DEF reg

(* MatchesReference: match() returns every client once per registration    *)
(* under a prefix of the key and nobody else, whatever nodes were created, *)
(* shared, pruned or moved before.                                         *)
THEOREM TrieMatches == Spec => []MatchesReference
<1>1. ASSUME TrieInv, NEW x \in Trees, NEW key \in Keys, NEW c \in Clients
      PROVE  Occurrences(match(x, key), c) =
               Cardinality({r \in Registrations(x) : r[1][2] = c /\ Index!Matches(r[1][1], key)})
  <2>1. StandsFor(root[x], subscriber_count_[x], registered[x]) /\ key \in Text
    BY <1>1, PathsAreText DEF TrieInv
  <2>2. Registrations(x) = RegistrationsOf(registered[x])
    BY DEF Registrations, RegistrationsOf
  <2>3. \A p : Index!Matches(p, key) <=> Over(p, key)
    BY DEF Index!Matches, Index!SE!IsPrefix, Over, SE!IsPrefix
  <2>4. Occurrences(match(x, key), c) = Cardinality(FoundBy(registered[x], key, c))
    BY <1>1, <2>1, MatchCounts
  <2>5. FoundBy(registered[x], key, c) =
          {r \in Registrations(x) : r[1][2] = c /\ Index!Matches(r[1][1], key)}
    BY <2>2, <2>3 DEF FoundBy
  <2> QED
    BY <2>4, <2>5
<1>2. TrieInv => MatchesReference
  BY <1>1 DEF MatchesReference
<1> QED
  BY <1>2, TrieInvariance, PTL
=============================================================================
