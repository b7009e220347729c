--------------------------- MODULE DataInduction ----------------------------
(***************************************************************************)
(* Induction and recursion over data, in a form the first-order provers    *)
(* can use.  The library's induction theorems have an operator for the     *)
(* induction hypothesis; here it is a set, and the step of a recursion is  *)
(* a function.  Everything rests on NatLessThanWellFounded and WFMin.      *)
(*                                                                         *)
(* HashMap and RequestStream concatenate lists of lists (chains, frames)   *)
(* with FlattenSeq of SequencesExt: Flatten is the same recursion.         *)
(***************************************************************************)
EXTENDS Integers, Sequences, SequenceTheorems, WellFoundedInduction, TLAPS

(* A set with 0 and the successor of each of its numbers has all of them.  *)
(* The loops of the code that run over data are proved by it.              *)
LEMMA NatSetInduction ==
  ASSUME NEW S, 0 \in S, \A n \in Nat : n \in S => n + 1 \in S
  PROVE  Nat \subseteq S
<1> DEFINE T == {n \in Nat : n \notin S}
           R == {ss \in Nat \X Nat : ss[1] < ss[2]}
<1>1. SUFFICES ASSUME T # {} PROVE FALSE
  OBVIOUS
<1>2. PICK x \in T : \A y \in T : <<y, x>> \notin R
  <2>1. IsWellFoundedOn(R, Nat)
    BY NatLessThanWellFounded DEF OpToRel
  <2>2. T \subseteq Nat
    OBVIOUS
  <2> HIDE DEF R, T
  <2> QED
    BY <1>1, <2>1, <2>2, WFMin
<1>3. \A y \in T : ~(y < x)
  BY <1>2
<1>4. x # 0
  OBVIOUS
<1>5. x - 1 \in Nat /\ x - 1 \notin T
  BY <1>3, <1>4
<1>6. x - 1 \in S
  BY <1>5
<1> QED
  BY <1>5, <1>6

(* The same up to a bound: the turns of a loop that runs n times. *)
LEMMA LoopInduction ==
  ASSUME NEW N \in Nat, NEW S, 0 \in S, \A n \in 0 .. N - 1 : n \in S => n + 1 \in S
  PROVE  N \in S /\ \A n \in 0 .. N : n \in S
<1> DEFINE T == {n \in Nat : n <= N => n \in S}
<1>1. 0 \in T
  OBVIOUS
<1>2. ASSUME NEW n \in Nat, n \in T PROVE n + 1 \in T
  BY <1>2
<1>3. Nat \subseteq T
  <2> HIDE DEF T
  <2> QED
    BY <1>1, <1>2, NatSetInduction
<1> QED
  BY <1>3

(* A set of numbers has a least one. *)
LEMMA LeastNumber ==
  ASSUME NEW S, S \subseteq Nat, S # {}
  PROVE  \E x \in S : \A y \in S : x <= y
<1> DEFINE R == {ss \in Nat \X Nat : ss[1] < ss[2]}
<1>1. IsWellFoundedOn(R, Nat)
  BY NatLessThanWellFounded DEF OpToRel
<1>2. PICK x \in S : \A y \in S : <<y, x>> \notin R
  <2> HIDE DEF R
  <2> QED
    BY <1>1, WFMin
<1>3. ASSUME NEW y \in S PROVE x <= y
  <2>1. x \in Nat /\ y \in Nat /\ <<y, x>> \notin R
    BY <1>2
  <2> QED
    BY <2>1
<1> QED
  BY <1>3

(* A loop that turns x into step[<<i, x>>] in its turn number i, and the   *)
(* values f[0], f[1], ... that it goes through when it starts with x0.     *)
IsStep(step, N, X) == step \in [(1 .. N) \X X -> X]
IsHistory(f, step, x0, N, X) ==
  /\ f \in [0 .. N -> X] /\ f[0] = x0
  /\ \A i \in 1 .. N : f[i] = step[<<i, f[i - 1]>>]

(* Every loop has its history: what a recursive function over the turns    *)
(* of a loop is defined by.                                                *)
LEMMA RecursionExists ==
  ASSUME NEW N, N \in Nat, NEW X, NEW x0, x0 \in X, NEW step, IsStep(step, N, X)
  PROVE  \E f : IsHistory(f, step, x0, N, X)
<1> DEFINE Ok(f, n) == f[0] = x0 /\ \A i \in 1 .. n : f[i] = step[<<i, f[i - 1]>>]
           S == {n \in 0 .. N : \E f \in [0 .. n -> X] : Ok(f, n)}
<1>1. 0 \in S
  <2> DEFINE f == [i \in 0 .. 0 |-> x0]
  <2>1. f \in [0 .. 0 -> X] /\ Ok(f, 0) /\ 0 \in 0 .. N
    OBVIOUS
  <2> HIDE DEF f
  <2> QED
    BY <2>1, Zenon
<1>2. ASSUME NEW n \in 0 .. N - 1, n \in S PROVE n + 1 \in S
  <2> SUFFICES \E f \in [0 .. n + 1 -> X] : Ok(f, n + 1)
    OBVIOUS
  <2>1. PICK f \in [0 .. n -> X] : Ok(f, n)
    BY <1>2
  <2> DEFINE y == step[<<n + 1, f[n]>>]
             g == [i \in 0 .. n + 1 |-> IF i <= n THEN f[i] ELSE y]
  <2>2. y \in X
    <3>1. <<n + 1, f[n]>> \in (1 .. N) \X X
      OBVIOUS
    <3> QED
      BY <3>1 DEF IsStep
  <2>3. g \in [0 .. n + 1 -> X]
    BY <2>2
  <2>4. \A i \in 0 .. n : g[i] = f[i]
    OBVIOUS
  <2>5. g[n + 1] = y
    <3> HIDE DEF y
    <3> QED
      OBVIOUS
  <2>6. Ok(g, n + 1)
    <3> HIDE DEF g
    <3>1. g[0] = x0
      BY <2>1, <2>4
    <3> SUFFICES ASSUME NEW i \in 1 .. n + 1 PROVE g[i] = step[<<i, g[i - 1]>>]
      BY <3>1
    <3>2. CASE i \in 1 .. n
      BY <3>2, <2>4, <2>1
    <3>3. CASE i = n + 1
      BY <3>3, <2>5, <2>4
    <3> QED
      BY <3>2, <3>3
  <2> HIDE DEF g
  <2> QED
    BY <2>3, <2>6
<1>3. N \in S
  <2> HIDE DEF S
  <2> QED
    BY <1>1, <1>2, LoopInduction
<1> QED
  BY <1>3 DEF IsHistory
-----------------------------------------------------------------------------
(* Concatenation of a list of lists.                                       *)

Flatten(seqs) ==
  IF Len(seqs) = 0 THEN seqs ELSE
    LET flatten[i \in 1 .. Len(seqs)] ==
          IF i = 1 THEN seqs[i] ELSE flatten[i - 1] \o seqs[i]
    IN  flatten[Len(seqs)]

(* A list of lists; the definition is expanded where it is needed only. *)
IsLists(s, A) == s \in Seq(Seq(A))

(* A list of lists has a length, and its elements are lists. *)
LEMMA ListsFacts ==
  ASSUME NEW A, NEW s, IsLists(s, A)
  PROVE  Len(s) \in Nat /\ \A i \in 1 .. Len(s) : s[i] \in Seq(A)
BY DEF IsLists

(* Concatenation, expanded where its elements matter only. *)
Cat(a, b) == a \o b

(* The empty list is neutral, and concatenation associative. *)
LEMMA CatFacts ==
  ASSUME NEW A
  PROVE  /\ \A a \in Seq(A) : Cat(<<>>, a) = a /\ Cat(a, <<>>) = a
         /\ \A a, b \in Seq(A) : Cat(a, b) \in Seq(A)
         /\ \A a, b, c \in Seq(A) : Cat(Cat(a, b), c) = Cat(a, Cat(b, c))
<1>1. \A a \in Seq(A) : Cat(<<>>, a) = a /\ Cat(a, <<>>) = a
  BY ConcatEmptySeq DEF Cat
<1>2. \A a, b \in Seq(A) : Cat(a, b) \in Seq(A)
  BY ConcatProperties DEF Cat
<1>3. \A a, b, c \in Seq(A) : Cat(Cat(a, b), c) = Cat(a, Cat(b, c))
  BY ConcatAssociative DEF Cat
<1> QED
  BY <1>1, <1>2, <1>3

(* The elements of a concatenation. *)
IsCat(c, a, b) ==
  /\ Len(a) \in Nat /\ Len(b) \in Nat /\ Len(c) = Len(a) + Len(b)
  /\ \A i \in 1 .. Len(a) : c[i] = a[i]
  /\ \A i \in 1 .. Len(b) : c[Len(a) + i] = b[i]

(* They are those of the first list and then those of the second. *)
LEMMA CatElements ==
  ASSUME NEW A, NEW a, a \in Seq(A), NEW b, b \in Seq(A)
  PROVE  Cat(a, b) \in Seq(A) /\ IsCat(Cat(a, b), a, b)
<1> DEFINE c == Cat(a, b)
           m == Len(a)
           n == Len(b)
<1>1. m \in Nat /\ n \in Nat
  OBVIOUS
<1>2. /\ c \in Seq(A) /\ Len(c) = m + n
      /\ \A i \in 1 .. m + n : c[i] = IF i <= m THEN a[i] ELSE b[i - m]
  <2>1. a \in Seq(A) /\ b \in Seq(A)
    OBVIOUS
  <2> QED
    BY <2>1, ConcatProperties, Zenon DEF Cat
<1> HIDE DEF c, m, n
<1>3. ASSUME NEW i \in 1 .. m PROVE c[i] = a[i]
  <2>1. i \in 1 .. m + n /\ i <= m
    BY <1>1
  <2> QED
    BY <1>2, <2>1
<1>4. ASSUME NEW i \in 1 .. n PROVE c[m + i] = b[i]
  <2>1. m + i \in 1 .. m + n /\ ~(m + i <= m) /\ (m + i) - m = i
    BY <1>1
  <2> QED
    BY <1>2, <2>1
<1> QED
  BY <1>1, <1>2, <1>3, <1>4 DEF c, m, n, IsCat

(* The first i lists of s concatenated are upto[i]. *)
IsUpto(upto, s, A) ==
  /\ upto \in [0 .. Len(s) -> Seq(A)] /\ upto[0] = <<>>
  /\ \A i \in 1 .. Len(s) : upto[i] = Cat(upto[i - 1], s[i])

(* The same, one step at a time. *)
LEMMA UptoStep ==
  ASSUME NEW A, NEW s, NEW u, IsUpto(u, s, A), IsLists(s, A)
  PROVE  /\ u[0] = <<>>
         /\ \A i \in 0 .. Len(s) : u[i] \in Seq(A)
         /\ \A i \in 0 .. Len(s) - 1 : u[i + 1] = Cat(u[i], s[i + 1])
<1>1. u[0] = <<>> /\ \A i \in 0 .. Len(s) : u[i] \in Seq(A)
  BY DEF IsUpto
<1>2. ASSUME NEW i \in 0 .. Len(s) - 1 PROVE u[i + 1] = Cat(u[i], s[i + 1])
  <2>1. i + 1 \in 1 .. Len(s) /\ (i + 1) - 1 = i
    BY ListsFacts
  <2> QED
    BY <2>1 DEF IsUpto
<1> QED
  BY <1>1, <1>2

(* Flatten is what its recursion says. *)
LEMMA FlattenDef ==
  ASSUME NEW A, NEW s, IsLists(s, A)
  PROVE  \E upto : IsUpto(upto, s, A) /\ Flatten(s) = upto[Len(s)]
<1> DEFINE N == Len(s)
           step == [p \in (1 .. N) \X Seq(A) |-> Cat(p[2], s[p[1]])]
<1>0. N \in Nat /\ \A i \in 1 .. N : s[i] \in Seq(A)
  BY ListsFacts
<1>1. IsStep(step, N, Seq(A))
  BY <1>0, CatFacts DEF IsStep
<1>2. <<>> \in Seq(A)
  OBVIOUS
<1>3. PICK f : IsHistory(f, step, <<>>, N, Seq(A))
  <2> DEFINE L == Seq(A)
             e == <<>>
  <2>1. IsStep(step, N, L) /\ e \in L /\ N \in Nat
    BY <1>0, <1>1, <1>2
  <2> HIDE DEF N, step, L, e
  <2>2. \E f : IsHistory(f, step, e, N, L)
    BY <2>1, RecursionExists
  <2> QED
    BY <2>2 DEF L, e
<1>3a. f \in [0 .. N -> Seq(A)] /\ f[0] = <<>>
  BY <1>3 DEF IsHistory
<1>4. \A i \in 1 .. N : f[i] = Cat(f[i - 1], s[i])
  <2> SUFFICES ASSUME NEW i \in 1 .. N PROVE f[i] = Cat(f[i - 1], s[i])
    OBVIOUS
  <2>0. N \in Nat
    BY <1>0
  <2>1. <<i, f[i - 1]>> \in (1 .. N) \X Seq(A)
    <3>1. i - 1 \in 0 .. N
      BY <2>0
    <3>2. f[i - 1] \in Seq(A)
      BY <1>3a, <3>1, Zenon
    <3> QED
      BY <3>2, Zenon
  <2> QED
    BY <1>3, <2>1 DEF IsHistory
<1>5. IsUpto(f, s, A)
  BY <1>3a, <1>4 DEF IsUpto
<1>6. CASE N = 0
  <2>1. s = <<>>
    BY <1>6 DEF IsLists
  <2>2. Flatten(s) = s
    BY <1>6, Zenon DEF Flatten
  <2> QED
    BY <1>6, <1>3a, <1>5, <2>1, <2>2
<1>7. CASE N # 0
  <2> DEFINE Eq(g) == g = [i \in 1 .. Len(s) |-> IF i = 1 THEN s[i] ELSE Cat(g[i - 1], s[i])]
             h == CHOOSE g : Eq(g)
             r == [i \in 1 .. N |-> f[i]]
  <2>1. f[1] = s[1]
    BY <1>7, <1>0, <1>3a, <1>4, CatFacts
  <2>2. Eq(r)
    <3>1. ASSUME NEW i \in 1 .. N PROVE r[i] = IF i = 1 THEN s[i] ELSE Cat(r[i - 1], s[i])
      <4>1. CASE i = 1
        BY <4>1, <2>1
      <4>2. CASE i # 1
        <5>1. i - 1 \in 1 .. N
          BY <4>2, <1>0
        <5> QED
          BY <4>2, <5>1, <1>4
      <4> QED
        BY <4>1, <4>2
    <3> QED
      BY <3>1
  <2>3. Eq(h)
    <3> HIDE DEF Eq
    <3> QED
      BY <2>2, Zenon
  <2>4. Flatten(s) = h[N]
    BY <1>7, Zenon DEF Flatten, Cat
  <2>5. \A i \in 1 .. N : h[i] = f[i]
    <3> DEFINE S == {n \in 0 .. N : n # 0 => h[n] = f[n]}
    <3> HIDE DEF h
    <3>1. 0 \in S
      BY <1>0
    <3>2. ASSUME NEW n \in 0 .. N - 1, n \in S PROVE n + 1 \in S
      <4>1. n + 1 \in 1 .. N /\ n + 1 \in 0 .. N
        BY <1>0
      <4>2. h[n + 1] = IF n + 1 = 1 THEN s[n + 1] ELSE Cat(h[(n + 1) - 1], s[n + 1])
        BY <2>3, <4>1, Zenon
      <4>3. CASE n = 0
        BY <4>1, <4>2, <4>3, <2>1
      <4>4. CASE n # 0
        <5>1. (n + 1) - 1 = n /\ n + 1 # 1
          BY <4>4, <1>0
        <5>2. h[n + 1] = Cat(h[n], s[n + 1]) /\ h[n] = f[n]
          BY <4>2, <4>4, <5>1, <3>2, Zenon
        <5>3. f[n + 1] = Cat(f[n], s[n + 1])
          BY <4>1, <5>1, <1>4, Zenon
        <5> QED
          BY <5>2, <5>3, <4>1, Zenon
      <4> QED
        BY <4>3, <4>4
    <3>3. \A n \in 0 .. N : n \in S
      <4> HIDE DEF S, N
      <4> QED
        BY <1>0, <3>1, <3>2, LoopInduction, Zenon
    <3> QED
      BY <1>0, <3>3
  <2>6. N \in 1 .. N
    BY <1>7, <1>0
  <2>7. Flatten(s) = f[N]
    BY <2>4, <2>5, <2>6, Zenon
  <2> QED
    BY <1>5, <2>7, Zenon
<1> QED
  BY <1>6, <1>7

(* The concatenation is a list of the same elements. *)
LEMMA FlattenType ==
  ASSUME NEW A, NEW s, IsLists(s, A)
  PROVE  Flatten(s) \in Seq(A)
<1>1. PICK u : IsUpto(u, s, A) /\ Flatten(s) = u[Len(s)]
  BY FlattenDef
<1>2. Len(s) \in 0 .. Len(s)
  BY ListsFacts
<1>3. u[Len(s)] \in Seq(A)
  BY <1>1, <1>2, UptoStep
<1> QED
  BY <1>1, <1>3

(* Two lists of lists that begin alike have concatenations that do. *)
LEMMA UptoUnique ==
  ASSUME NEW A, NEW s, NEW t, IsLists(s, A), IsLists(t, A), NEW u, NEW v,
         IsUpto(u, s, A), IsUpto(v, t, A),
         NEW n \in Nat, n <= Len(s), n <= Len(t), \A i \in 1 .. n : s[i] = t[i]
  PROVE  u[n] = v[n]
<1> DEFINE S == {i \in 0 .. n : u[i] = v[i]}
<1>1. 0 \in S
  BY UptoStep
<1>2. ASSUME NEW i \in 0 .. n - 1, i \in S PROVE i + 1 \in S
  <2>1. /\ i \in 0 .. Len(s) - 1 /\ i \in 0 .. Len(t) - 1
        /\ i + 1 \in 0 .. n /\ i + 1 \in 1 .. n
    BY ListsFacts
  <2>2. u[i + 1] = Cat(u[i], s[i + 1]) /\ v[i + 1] = Cat(v[i], t[i + 1])
    BY <2>1, UptoStep
  <2> QED
    BY <1>2, <2>1, <2>2
<1>3. n \in S
  <2> HIDE DEF S
  <2> QED
    BY <1>1, <1>2, LoopInduction, Zenon
<1> QED
  BY <1>3

(* One list more at the end. *)
LEMMA FlattenAppend ==
  ASSUME NEW A, NEW s, IsLists(s, A), NEW t, t \in Seq(A)
  PROVE  Flatten(Append(s, t)) = Cat(Flatten(s), t)
<1> DEFINE a == Append(s, t)
           n == Len(s)
<1>1. /\ a \in Seq(Seq(A)) /\ Len(a) = n + 1 /\ n \in Nat
      /\ \A i \in 1 .. n : s[i] = a[i]
      /\ a[n + 1] = t
  BY AppendProperties DEF IsLists
<1>2. IsLists(a, A)
  BY <1>1 DEF IsLists
<1> HIDE DEF a
<1>3. PICK u : IsUpto(u, s, A) /\ Flatten(s) = u[n]
  BY FlattenDef
<1>4. PICK v : IsUpto(v, a, A) /\ Flatten(a) = v[Len(a)]
  BY <1>2, FlattenDef
<1>5. n <= Len(s) /\ n <= Len(a) /\ n \in 0 .. Len(a) - 1
  BY <1>1
<1>6. u[n] = v[n]
  <2> HIDE DEF n
  <2> QED
    BY <1>1, <1>2, <1>3, <1>4, <1>5, UptoUnique
<1>7. v[n + 1] = Cat(v[n], a[n + 1])
  BY <1>2, <1>4, <1>5, UptoStep
<1>8. Flatten(a) = Cat(Flatten(s), t)
  BY <1>1, <1>3, <1>4, <1>6, <1>7
<1> QED
  BY <1>8 DEF a

(* The lists of s after the first, in the order of s, are t. *)
IsTail(t, s, N) ==
  Len(t) = N /\ Len(s) = N + 1 /\ \A i \in 1 .. N : t[i] = s[i + 1]

(* They are what the concatenation has after the first. *)
LEMMA FlattenShift ==
  ASSUME NEW A, NEW s, NEW t, IsLists(s, A), IsLists(t, A), NEW N \in Nat, IsTail(t, s, N)
  PROVE  Flatten(s) = Cat(s[1], Flatten(t))
<1>0. Len(t) = N /\ Len(s) = N + 1
  BY DEF IsTail
<1>1. PICK u : IsUpto(u, s, A) /\ Flatten(s) = u[N + 1]
  BY <1>0, FlattenDef
<1>2. PICK v : IsUpto(v, t, A) /\ Flatten(t) = v[N]
  BY <1>0, FlattenDef
<1>3. s[1] \in Seq(A)
  BY <1>0, ListsFacts
<1> DEFINE S == {i \in 0 .. N : u[i + 1] = Cat(s[1], v[i])}
<1>4. 0 \in S
  <2>1. u[0] = <<>> /\ v[0] = <<>>
    BY <1>1, <1>2, UptoStep
  <2>2. 0 \in 0 .. Len(s) - 1
    BY <1>0
  <2>3. u[0 + 1] = Cat(u[0], s[0 + 1])
    BY <1>1, <2>2, UptoStep
  <2>4. u[0 + 1] = Cat(<<>>, s[1])
    BY <2>1, <2>3
  <2>5. Cat(<<>>, s[1]) = s[1] /\ Cat(s[1], <<>>) = s[1]
    BY <1>3, CatFacts
  <2>6. 0 \in 0 .. N
    OBVIOUS
  <2> QED
    BY <2>1, <2>4, <2>5, <2>6
<1>5. ASSUME NEW i \in 0 .. N - 1, i \in S PROVE i + 1 \in S
  <2>1. /\ i + 1 \in 0 .. Len(s) - 1 /\ i \in 0 .. Len(t) - 1 /\ i \in 0 .. Len(t)
        /\ i + 1 \in 1 .. N /\ i + 1 \in 1 .. Len(t) /\ i + 1 \in 0 .. N
    BY <1>0
  <2>2. u[(i + 1) + 1] = Cat(u[i + 1], s[(i + 1) + 1])
    BY <1>1, <2>1, UptoStep
  <2>3. v[i + 1] = Cat(v[i], t[i + 1])
    BY <1>2, <2>1, UptoStep
  <2>4. v[i] \in Seq(A) /\ t[i + 1] \in Seq(A)
    BY <1>2, <2>1, UptoStep, ListsFacts
  <2>5. u[i + 1] = Cat(s[1], v[i])
    BY <1>5
  <2>6. t[i + 1] = s[(i + 1) + 1]
    BY <2>1 DEF IsTail
  <2>7. Cat(Cat(s[1], v[i]), t[i + 1]) = Cat(s[1], Cat(v[i], t[i + 1]))
    <3> DEFINE L == Seq(A)
    <3>1. \A a, b, c \in L : Cat(Cat(a, b), c) = Cat(a, Cat(b, c))
      BY CatFacts
    <3>2. s[1] \in L /\ v[i] \in L /\ t[i + 1] \in L
      BY <2>4, <1>3
    <3> HIDE DEF L
    <3> QED
      BY <3>1, <3>2
  <2>8. u[(i + 1) + 1] = Cat(s[1], v[i + 1])
    BY <2>2, <2>3, <2>5, <2>6, <2>7
  <2> QED
    BY <2>8, <2>1
<1>6. N \in S
  <2> HIDE DEF S
  <2> QED
    BY <1>4, <1>5, LoopInduction, Zenon
<1>7. u[N + 1] = Cat(s[1], v[N])
  BY <1>6
<1> QED
  BY <1>1, <1>2, <1>7

(* The first list is what the concatenation begins with. *)
LEMMA FlattenHead ==
  ASSUME NEW A, NEW s, IsLists(s, A), s # <<>>
  PROVE  IsLists(Tail(s), A) /\ Flatten(s) = Cat(Head(s), Flatten(Tail(s)))
<1>1. Len(s) - 1 \in Nat /\ Head(s) = s[1]
  BY EmptySeq DEF IsLists
<1>2. IsLists(Tail(s), A) /\ IsTail(Tail(s), s, Len(s) - 1)
  BY HeadTailProperties, EmptySeq DEF IsLists, IsTail
<1>3. Flatten(s) = Cat(s[1], Flatten(Tail(s)))
  BY <1>1, <1>2, FlattenShift
<1> QED
  BY <1>1, <1>2, <1>3

(* Nothing to concatenate. *)
LEMMA FlattenEmpty == Flatten(<<>>) = <<>>
BY DEF Flatten

(* What is concatenated first stays in front of what comes after it. *)
LEMMA UptoPrefix ==
  ASSUME NEW A, NEW s, NEW u, IsUpto(u, s, A), IsLists(s, A)
  PROVE  \A k \in 0 .. Len(s) : \A i \in 0 .. k :
           Len(u[i]) <= Len(u[k]) /\ \A m \in 1 .. Len(u[i]) : u[k][m] = u[i][m]
<1> DEFINE N == Len(s)
           Front(i, k) == Len(u[i]) <= Len(u[k]) /\ \A m \in 1 .. Len(u[i]) : u[k][m] = u[i][m]
           S == {k \in 0 .. N : \A i \in 0 .. k : Front(i, k)}
<1>0. N \in Nat /\ \A i \in 0 .. N : u[i] \in Seq(A)
  BY ListsFacts, UptoStep
<1>1. 0 \in S
  BY <1>0
<1>2. ASSUME NEW k \in 0 .. N - 1, k \in S PROVE k + 1 \in S
  <2>1. /\ k \in 0 .. N /\ k + 1 \in 0 .. N /\ k + 1 \in 1 .. N
    BY <1>0
  <2>2. u[k] \in Seq(A) /\ s[k + 1] \in Seq(A) /\ u[k + 1] = Cat(u[k], s[k + 1])
    BY <2>1, <1>0, ListsFacts, UptoStep
  <2>3. IsCat(u[k + 1], u[k], s[k + 1])
    BY <2>2, CatElements
  <2>4. ASSUME NEW i \in 0 .. k + 1 PROVE Front(i, k + 1)
    <3>0. i \in 0 .. N
      BY <1>0
    <3>1. Len(u[i]) \in Nat /\ Len(u[k]) \in Nat /\ Len(u[k + 1]) \in Nat
      <4>1. u[i] \in Seq(A) /\ u[k] \in Seq(A) /\ u[k + 1] \in Seq(A)
        BY <1>0, <2>1, <3>0
      <4> QED
        BY <4>1
    <3>2. CASE i = k + 1
      BY <3>1, <3>2
    <3>3. CASE i \in 0 .. k
      <4>1. Front(i, k)
        BY <1>2, <3>3
      <4> DEFINE x == u[i]
                 y == u[k]
                 z == u[k + 1]
                 t == s[k + 1]
      <4>2. Len(x) <= Len(y) /\ \A m \in 1 .. Len(x) : y[m] = x[m]
        BY <4>1
      <4>3. IsCat(z, y, t) /\ Len(x) \in Nat /\ Len(y) \in Nat /\ Len(z) \in Nat
        BY <2>3, <3>1
      <4> HIDE DEF x, y, z, t
      <4>4. Len(x) <= Len(z) /\ \A m \in 1 .. Len(x) : z[m] = x[m]
        BY <4>2, <4>3 DEF IsCat
      <4> QED
        BY <4>4 DEF x, z
    <3> QED
      BY <3>2, <3>3
  <2> HIDE DEF Front
  <2> QED
    BY <2>1, <2>4
<1>3. \A k \in 0 .. N : k \in S
  <2> HIDE DEF S, N
  <2> QED
    BY <1>0, <1>1, <1>2, LoopInduction, Zenon
<1> QED
  BY <1>3

(* The list number i + 1 stands after the i lists before it. *)
Stands(u, s, i) ==
  /\ Len(u[i]) \in Nat /\ Len(s[i + 1]) \in Nat
  /\ Len(u[i + 1]) = Len(u[i]) + Len(s[i + 1])
  /\ Len(u[i + 1]) <= Len(u[Len(s)])
  /\ \A j \in 1 .. Len(s[i + 1]) : u[Len(s)][Len(u[i]) + j] = s[i + 1][j]

(* Where the lists stand in their concatenation. *)
LEMMA UptoPlaces ==
  ASSUME NEW A, NEW s, NEW u, IsUpto(u, s, A), IsLists(s, A),
         NEW i, i \in 0 .. Len(s) - 1
  PROVE  Stands(u, s, i)
<1> DEFINE N == Len(s)
<1>1. /\ N \in Nat /\ i \in 0 .. N /\ i + 1 \in 0 .. N /\ N \in 0 .. N /\ i + 1 \in 1 .. N
  BY ListsFacts
<1>2. u[i] \in Seq(A) /\ s[i + 1] \in Seq(A) /\ u[i + 1] = Cat(u[i], s[i + 1])
  BY <1>1, ListsFacts, UptoStep
<1>3. IsCat(u[i + 1], u[i], s[i + 1])
  BY <1>2, CatElements
<1>4. Len(u[i + 1]) <= Len(u[N]) /\ \A m \in 1 .. Len(u[i + 1]) : u[N][m] = u[i + 1][m]
  BY <1>1, UptoPrefix
<1>5. ASSUME NEW j \in 1 .. Len(s[i + 1]) PROVE u[N][Len(u[i]) + j] = s[i + 1][j]
  <2>1. Len(u[i]) + j \in 1 .. Len(u[i + 1])
    <3> DEFINE l == Len(u[i])
               k == Len(s[i + 1])
               m == Len(u[i + 1])
    <3>1. l \in Nat /\ k \in Nat /\ m = l + k /\ j \in 1 .. k
      BY <1>3 DEF IsCat
    <3> HIDE DEF l, k, m
    <3>2. l + j \in 1 .. m
      BY <3>1
    <3> QED
      BY <3>2 DEF l, m
  <2>2. u[i + 1][Len(u[i]) + j] = s[i + 1][j]
    BY <1>3 DEF IsCat
  <2> QED
    BY <1>4, <2>1, <2>2
<1> QED
  BY <1>3, <1>4, <1>5 DEF IsCat, Stands
=============================================================================
