------------------------- MODULE RequestStreamProofs -------------------------
(***************************************************************************)
(* What TLAPS proves about RequestStream and the wire format: requests of  *)
(* any number, with strings of any length, written by any number of        *)
(* processes and read in pieces of any size.  The one condition is         *)
(* FramesFit: no frame is longer than what a pipe takes in one piece.      *)
(***************************************************************************)
EXTENDS RequestStream, DataInduction
-----------------------------------------------------------------------------
(* Numbers.                                                                *)

(* Quotient and remainder, and that they are the only ones. *)
LEMMA Division ==
  ASSUME NEW x, x \in Nat, NEW a, a \in Nat, a > 0
  PROVE  /\ x \div a \in Nat /\ x % a \in 0 .. a - 1
         /\ x = a * (x \div a) + (x % a)
BY Z3

(* The quotient is the only one. *)
LEMMA QuotientUnique ==
  ASSUME NEW x, x \in Nat, NEW a, a \in Nat, a > 0,
         NEW q, q \in Nat, NEW r, r \in 0 .. a - 1, x = a * q + r
  PROVE  x \div a = q
BY Z3

(* Dividing twice is dividing by the product. *)
LEMMA DivideTwice ==
  ASSUME NEW x, x \in Nat, NEW a, a \in Nat, a > 0, NEW b, b \in Nat, b > 0
  PROVE  x \div (a * b) = (x \div a) \div b
<1> DEFINE q == x \div a
           r == x % a
           p == q \div b
           t == q % b
<1>1. q \in Nat /\ r \in 0 .. a - 1 /\ x = a * q + r
  BY Division
<1>2. p \in Nat /\ t \in 0 .. b - 1 /\ q = b * p + t
  <2> HIDE DEF q
  <2> QED
    BY <1>1, Division
<1> HIDE DEF q, r, p, t
<1>3. x = (a * b) * p + (a * t + r)
  BY <1>1, <1>2, Z3
<1>4. a * t + r \in 0 .. (a * b) - 1 /\ a * b \in Nat /\ a * b > 0
  <2>1. a * t + r < a * b
    <3>1. a * t <= a * (b - 1)
      BY <1>2, Z3
    <3>2. a * (b - 1) = a * b - a
      BY Z3
    <3> QED
      BY <3>1, <3>2, <1>1, <1>2, Z3
  <2>2. a * t + r \in Nat
    BY <1>1, <1>2, Z3
  <2>3. a * b \in Nat /\ a * b > 0
    BY Z3
  <2> QED
    BY <2>1, <2>2, <2>3
<1>5. x \div (a * b) = p
  <2> DEFINE m == a * b
             s == a * t + r
  <2>1. m \in Nat /\ m > 0 /\ s \in 0 .. m - 1 /\ x = m * p + s
    BY <1>3, <1>4
  <2> HIDE DEF m, s
  <2>2. x \div m = p
    BY <1>2, <2>1, QuotientUnique
  <2> QED
    BY <2>2 DEF m
<1> QED
  BY <1>5 DEF p, q

(* What the parameters are. *)
LEMMA ByteFacts == Byte \in Nat /\ Byte > 8 /\ U32 \in Nat /\ U32 > Byte
<1>1. Byte \in Nat /\ Byte > 8
  BY ProtocolAssumption
<1>2. Byte * Byte \in Nat /\ Byte * Byte > Byte
  BY <1>1, Z3
<1>3. Byte * Byte * Byte \in Nat /\ Byte * Byte * Byte > Byte
  BY <1>1, <1>2, Z3
<1>4. U32 \in Nat /\ U32 > Byte
  BY <1>1, <1>3, Z3 DEF U32
<1> QED
  BY <1>1, <1>4

(* The four digits of a number below Byte^4. *)
LEMMA FourDigits ==
  ASSUME NEW v, v \in 0 .. U32 - 1
  PROVE  LET d1 == v % Byte
             d2 == (v \div Byte) % Byte
             d3 == (v \div (Byte * Byte)) % Byte
             d4 == (v \div (Byte * Byte * Byte)) % Byte
         IN  /\ {d1, d2, d3, d4} \subseteq Bytes
             /\ v = d1 + Byte * (d2 + Byte * (d3 + Byte * d4))
<1> DEFINE B == Byte
           q1 == v \div B
           q2 == q1 \div B
           q3 == q2 \div B
           d1 == v % B
           d2 == q1 % B
           d3 == q2 % B
<1>0. B \in Nat /\ B > 0 /\ v \in Nat
  BY ByteFacts
<1>1. q1 \in Nat /\ d1 \in Bytes /\ v = B * q1 + d1
  BY <1>0, Division DEF Bytes
<1>2. q2 \in Nat /\ d2 \in Bytes /\ q1 = B * q2 + d2
  <2> HIDE DEF q1
  <2> QED
    BY <1>0, <1>1, Division DEF Bytes
<1>3. q3 \in Nat /\ d3 \in Bytes /\ q2 = B * q3 + d3
  <2> HIDE DEF q2
  <2> QED
    BY <1>0, <1>2, Division DEF Bytes
<1>4. v \div (Byte * Byte) = q2
  BY <1>0, DivideTwice
<1>5. v \div (Byte * Byte * Byte) = q3
  <2> DEFINE BB == Byte * Byte
  <2>1. BB \in Nat /\ BB > 0
    BY <1>0, Z3
  <2> HIDE DEF BB
  <2>2. v \div (BB * Byte) = (v \div BB) \div Byte
    BY <1>0, <2>1, DivideTwice
  <2> QED
    BY <2>2, <1>4 DEF BB
<1>6. q3 < B
  <2> HIDE DEF q1, q2, q3, d1, d2, d3, B
  <2>1. v = ((B * B) * B) * q3 + ((B * B) * d3 + B * d2 + d1)
    BY <1>0, <1>1, <1>2, <1>3, Z3 DEF Bytes
  <2>2. (B * B) * d3 + B * d2 + d1 >= 0
    BY <1>0, <1>1, <1>2, <1>3, Z3 DEF Bytes
  <2>3. v < ((B * B) * B) * B
    BY <1>0, ByteFacts DEF U32, B
  <2>4. ASSUME q3 >= B PROVE FALSE
    <3>1. ((B * B) * B) * q3 >= ((B * B) * B) * B
      BY <1>0, <1>3, <2>4, Z3
    <3> DEFINE X == ((B * B) * B) * q3
               Y == ((B * B) * B) * B
               Z == (B * B) * d3 + B * d2 + d1
    <3>2. X \in Int /\ Y \in Int /\ Z \in Int
      BY <1>0, <1>1, <1>2, <1>3, Z3 DEF Bytes
    <3>3. v = X + Z /\ Z >= 0 /\ v < Y /\ X >= Y
      BY <2>1, <2>2, <2>3, <3>1
    <3> HIDE DEF X, Y, Z
    <3> QED
      BY <1>0, <3>2, <3>3
  <2> QED
    BY <2>4, <1>0, <1>3
<1>7. q3 % B = q3 /\ q3 \in Bytes
  <2> HIDE DEF q3
  <2> QED
    BY <1>0, <1>3, <1>6 DEF Bytes
<1>8. v = d1 + Byte * (d2 + Byte * (d3 + Byte * q3))
  <2> HIDE DEF q1, q2, q3, d1, d2, d3
  <2> QED
    BY <1>0, <1>1, <1>2, <1>3, Z3 DEF Bytes
<1>9. {d1, d2, d3, q3} \subseteq Bytes
  BY <1>1, <1>2, <1>3, <1>7
<1> QED
  BY <1>4, <1>5, <1>7, <1>8, <1>9

-----------------------------------------------------------------------------
(* Fields.                                                                 *)

(* The bytes x stand in b after its first at bytes. *)
IsAt(x, b, at) == \A j \in 1 .. Len(x) : b[at + j] = x[j]

(* What write_uint32_le writes is four bytes that read_uint32_le reads,    *)
(* wherever they stand.                                                    *)
LEMMA WriteRead ==
  ASSUME NEW v, v \in 0 .. U32 - 1
  PROVE  /\ write_uint32_le(v) \in Seq(Bytes) /\ Len(write_uint32_le(v)) = 4
         /\ \A b, at : IsAt(write_uint32_le(v), b, at) => read_uint32_le(b, at) = v
<1> DEFINE d1 == v % Byte
           d2 == (v \div Byte) % Byte
           d3 == (v \div (Byte * Byte)) % Byte
           d4 == (v \div (Byte * Byte * Byte)) % Byte
           w == <<d1, d2, d3, d4>>
<1>1. /\ d1 \in Bytes /\ d2 \in Bytes /\ d3 \in Bytes /\ d4 \in Bytes
      /\ v = d1 + Byte * (d2 + Byte * (d3 + Byte * d4))
  BY FourDigits
<1>2. write_uint32_le(v) = w
  BY DEF write_uint32_le
<1> HIDE DEF d1, d2, d3, d4
<1>3. w \in Seq(Bytes) /\ Len(w) = 4
  BY <1>1
<1>4. ASSUME NEW b, NEW at, IsAt(w, b, at) PROVE read_uint32_le(b, at) = v
  <2>1. b[at + 1] = d1 /\ b[at + 2] = d2 /\ b[at + 3] = d3 /\ b[at + 4] = d4
    BY <1>4 DEF IsAt
  <2> QED
    BY <2>1, <1>1 DEF read_uint32_le
<1> QED
  BY <1>2, <1>3, <1>4

(* An argument that fits into its field. *)
FitsField(field, arg) ==
  /\ field \in {"uint32", "string", "rest"}
  /\ IF field = "uint32" THEN arg \in 0 .. U32 - 1
                         ELSE arg \in Seq(Bytes)

(* The bytes of a field and how many they are. *)
LEMMA EncodedFacts ==
  ASSUME NEW field, NEW arg, FitsField(field, arg)
  PROVE  /\ Encoded(field, arg) \in Seq(Bytes)
         /\ Len(Encoded(field, arg)) = (IF field = "rest" THEN 0 ELSE 4)
                                         + (IF field = "uint32" THEN 0 ELSE Len(arg))
<1>1. CASE field = "uint32"
  BY <1>1, WriteRead DEF FitsField, Encoded
<1>2. CASE field = "string"
  <2> DEFINE w == write_uint32_le(Len(arg) % U32)
  <2>1. arg \in Seq(Bytes) /\ Len(arg) \in Nat /\ Len(arg) % U32 \in 0 .. U32 - 1
    BY <1>2, ByteFacts DEF FitsField
  <2>2. w \in Seq(Bytes) /\ Len(w) = 4
    BY <2>1, WriteRead
  <2>3. Encoded(field, arg) = Cat(w, arg)
    BY <1>2 DEF Encoded, Cat
  <2> HIDE DEF w
  <2>3a. w \in Seq(Bytes) /\ arg \in Seq(Bytes)
    BY <2>1, <2>2
  <2>4. Cat(w, arg) \in Seq(Bytes) /\ IsCat(Cat(w, arg), w, arg)
    BY <2>3a, CatElements
  <2> QED
    BY <1>2, <2>2, <2>3, <2>4 DEF IsCat
<1>3. CASE field = "rest"
  BY <1>3 DEF FitsField, Encoded
<1> QED
  BY <1>1, <1>2, <1>3 DEF FitsField

(* A part of a list that is another list. *)
LEMMA PartIs ==
  ASSUME NEW A, NEW b, b \in Seq(A), NEW x, x \in Seq(A), NEW at, at \in Nat,
         at + Len(x) <= Len(b), IsAt(x, b, at)
  PROVE  SubSeq(b, at + 1, at + Len(x)) = x
<1> DEFINE y == SubSeq(b, at + 1, at + Len(x))
           n == Len(x)
<1>1. n \in Nat
  OBVIOUS
<1>2. \A i \in at + 1 .. at + n : b[i] \in A
  BY <1>1
<1>3. /\ y \in Seq(A)
      /\ Len(y) = IF at + 1 <= at + n THEN at + n - (at + 1) + 1 ELSE 0
      /\ \A i \in 1 .. at + n - (at + 1) + 1 : y[i] = b[at + 1 + i - 1]
  BY <1>1, <1>2, SubSeqProperties
<1>4. Len(y) = n
  BY <1>1, <1>3
<1>5. ASSUME NEW i \in 1 .. n PROVE y[i] = x[i]
  <2>1. i \in 1 .. at + n - (at + 1) + 1 /\ at + 1 + i - 1 = at + i
    BY <1>1
  <2>2. b[at + i] = x[i]
    BY <1>1 DEF IsAt
  <2> QED
    BY <1>3, <2>1, <2>2
<1> HIDE DEF y
<1>6. y = x
  BY <1>1, <1>3, <1>4, <1>5
<1> QED
  BY <1>6 DEF y

(* The n bytes of a field stand in the payload b after its first at bytes; *)
(* only a field without a length must be the last.                         *)
FieldStands(b, at, field, arg, n) ==
  /\ b \in Seq(Bytes) /\ at \in Nat /\ n = Len(Encoded(field, arg)) /\ at + n <= Len(b)
  /\ field = "rest" => at + n = Len(b)
  /\ field = "uint32" \/ Len(arg) < U32
  /\ FitsField(field, arg) /\ IsAt(Encoded(field, arg), b, at)

(* What a parser makes of it: it fits, the next field begins where it      *)
(* ends, and its value is the argument.                                    *)
LEMMA FieldRead ==
  ASSUME NEW field, NEW arg, NEW b, NEW at, NEW n, FieldStands(b, at, field, arg, n)
  PROVE  /\ Fits(b, at, field)
         /\ End(b, at, field) = at + n
         /\ Value(b, at, field) = arg
<1>h. /\ b \in Seq(Bytes) /\ at \in Nat /\ n = Len(Encoded(field, arg)) /\ at + n <= Len(b)
      /\ field = "rest" => at + n = Len(b)
      /\ field = "uint32" \/ Len(arg) < U32
      /\ FitsField(field, arg) /\ IsAt(Encoded(field, arg), b, at)
  BY DEF FieldStands
<1> USE <1>h
<1>0. n \in Nat /\ Len(b) \in Nat
  BY EncodedFacts
<1>1. CASE field = "uint32"
  <2>1. arg \in 0 .. U32 - 1 /\ Encoded(field, arg) = write_uint32_le(arg)
    BY <1>1 DEF FitsField, Encoded
  <2>2. n = 4 /\ read_uint32_le(b, at) = arg
    BY <2>1, WriteRead
  <2> QED
    BY <1>1, <2>2, <1>0 DEF Fits, End, Value
<1>2. CASE field = "string"
  <2> DEFINE l == Len(arg)
             w == write_uint32_le(l)
  <2>1. arg \in Seq(Bytes) /\ l \in 0 .. U32 - 1 /\ l % U32 = l /\ l \in Nat
    BY <1>2, ByteFacts DEF FitsField
  <2>2. w \in Seq(Bytes) /\ Len(w) = 4
    BY <2>1, WriteRead
  <2>3. Encoded(field, arg) = Cat(w, arg)
    BY <1>2, <2>1 DEF Encoded, Cat
  <2> HIDE DEF w
  <2>3a. w \in Seq(Bytes) /\ arg \in Seq(Bytes)
    BY <2>1, <2>2
  <2>4. IsCat(Cat(w, arg), w, arg)
    BY <2>3a, CatElements
  <2>5. n = 4 + l
    BY <2>2, <2>3, <2>4 DEF IsCat
  <2>4a. /\ \A i \in 1 .. Len(w) : Cat(w, arg)[i] = w[i]
         /\ \A i \in 1 .. l : Cat(w, arg)[Len(w) + i] = arg[i]
    BY <2>4 DEF IsCat
  <2> HIDE DEF l
  <2>6. \A j \in 1 .. 4 + l : b[at + j] = Cat(w, arg)[j]
    BY <2>3, <2>5 DEF IsAt
  <2>7. read_uint32_le(b, at) = l
    <3>1. IsAt(w, b, at)
      <4> SUFFICES ASSUME NEW j \in 1 .. 4 PROVE b[at + j] = w[j]
        BY <2>2 DEF IsAt
      <4>1. j \in 1 .. 4 + l /\ j \in 1 .. Len(w)
        BY <2>1, <2>2
      <4> QED
        BY <4>1, <2>4a, <2>6
    <3> QED
      BY <2>1, <3>1, WriteRead DEF w
  <2>8. End(b, at, field) = at + n
    BY <1>2, <2>1, <2>5, <2>7 DEF End
  <2>9. IsAt(arg, b, at + 4)
    <3> SUFFICES ASSUME NEW j \in 1 .. l PROVE b[(at + 4) + j] = arg[j]
      BY DEF IsAt, l
    <3>1. 4 + j \in 1 .. 4 + l /\ at + (4 + j) = (at + 4) + j
      BY <2>1
    <3>2. b[at + (4 + j)] = Cat(w, arg)[4 + j]
      BY <2>6, <3>1
    <3>3. Cat(w, arg)[4 + j] = arg[j]
      BY <2>2, <2>4a
    <3> QED
      BY <3>1, <3>2, <3>3
  <2>10. SubSeq(b, (at + 4) + 1, (at + 4) + Len(arg)) = arg
    <3>1. at + 4 \in Nat /\ (at + 4) + Len(arg) <= Len(b)
      BY <2>1, <2>5, <1>0 DEF l
    <3> QED
      BY <3>1, <2>1, <2>9, PartIs
  <2>11. Value(b, at, field) = arg
    <3>1. at + 5 = (at + 4) + 1 /\ End(b, at, field) = (at + 4) + Len(arg)
      BY <2>1, <2>5, <2>8 DEF l
    <3>2. Value(b, at, field) = SubSeq(b, at + 5, End(b, at, field))
      BY <1>2 DEF Value
    <3> QED
      BY <2>10, <3>1, <3>2
  <2>12. Fits(b, at, field)
    BY <1>0, <2>1, <2>5, <2>8 DEF Fits
  <2> QED
    BY <2>8, <2>11, <2>12
<1>3. CASE field = "rest"
  <2>1. Encoded(field, arg) = arg /\ arg \in Seq(Bytes)
    BY <1>3 DEF FitsField, Encoded
  <2>2. SubSeq(b, at + 1, at + Len(arg)) = arg /\ n = Len(arg)
    BY <2>1, PartIs
  <2> QED
    BY <1>3, <2>2 DEF Fits, End, Value
<1> QED
  BY <1>1, <1>2, <1>3 DEF FitsField

-----------------------------------------------------------------------------
(* Payloads.                                                               *)

(* The eight layouts: what the proofs use of them. *)
LayoutOk(F, N, fixed) ==
  /\ N \in Nat /\ N > 0 /\ DOMAIN F = 1 .. N
  /\ \A i \in 1 .. N : F[i] \in {"uint32", "string", "rest"}
  /\ \A i \in 1 .. N : F[i] = "rest" => i = N
  /\ fixed = IF F[N] = "rest" THEN 4 * (N - 1) ELSE 4 * N

(* Every serialiser's constant is what its fields take without characters, *)
(* and only the last field can go without a length.                        *)
LEMMA LayoutFacts ==
  ASSUME NEW c, c \in Commands
  PROVE  LayoutOk(Layout[c], Len(Layout[c]), FixedSize[c]) /\ CommandType[c] \in 1 .. 8
<1>1. Commands = {"CREATE", "LIST", "INFO", "CONNECT", "PRODUCE", "SUBSCRIBE",
                  "ACK", "DISCONNECT"}
  BY DEF Commands, CommandType
<1>2. CommandType[c] \in 1 .. 8
  BY <1>1 DEF CommandType
<1>3. CASE c = "CREATE" \/ c = "INFO" \/ c = "CONNECT"
  <2>1. Layout[c] = <<"uint32", "rest">> /\ FixedSize[c] = 4
    BY <1>3 DEF Layout, FixedSize
  <2> QED
    BY <1>2, <2>1 DEF LayoutOk
<1>4. CASE c = "LIST"
  <2>1. Layout[c] = <<"uint32">> /\ FixedSize[c] = 4
    BY <1>4 DEF Layout, FixedSize
  <2> QED
    BY <1>2, <2>1 DEF LayoutOk
<1>5. CASE c = "PRODUCE"
  <2>1. Layout[c] = <<"string", "string", "string">> /\ FixedSize[c] = 12
    BY <1>5 DEF Layout, FixedSize
  <2> QED
    BY <1>2, <2>1 DEF LayoutOk
<1>6. CASE c = "SUBSCRIBE"
  <2>1. /\ Layout[c] = <<"uint32", "string", "string", "string", "uint32">>
        /\ FixedSize[c] = 20
    BY <1>6 DEF Layout, FixedSize
  <2> QED
    BY <1>2, <2>1 DEF LayoutOk
<1>7. CASE c = "ACK"
  <2>1. Layout[c] = <<"string", "uint32">> /\ FixedSize[c] = 8
    BY <1>7 DEF Layout, FixedSize
  <2> QED
    BY <1>2, <2>1 DEF LayoutOk
<1>8. CASE c = "DISCONNECT"
  <2>1. Layout[c] = <<"string">> /\ FixedSize[c] = 4
    BY <1>8 DEF Layout, FixedSize
  <2> QED
    BY <1>2, <2>1 DEF LayoutOk
<1> QED
  BY <1>1, <1>3, <1>4, <1>5, <1>6, <1>7, <1>8

(* No two commands have the same number. *)
LEMMA CommandsDiffer ==
  ASSUME NEW c, c \in Commands, NEW d, d \in Commands, CommandType[c] = CommandType[d]
  PROVE  c = d
BY DEF Commands, CommandType

(* The fields of a request as the serialiser writes them. *)
Fields(r) == Layout[r[1]]
Parts(r) == [i \in DOMAIN Fields(r) |-> Encoded(Fields(r)[i], r[i + 1])]
Payload(r) == Flatten(Parts(r))

(* They are lists of bytes, one for each field. *)
LEMMA PartsFacts ==
  ASSUME NEW r, WellFormed(r)
  PROVE  /\ LayoutOk(Fields(r), Len(Fields(r)), FixedSize[r[1]])
         /\ IsLists(Parts(r), Bytes) /\ Len(Parts(r)) = Len(Fields(r))
         /\ \A i \in 1 .. Len(Fields(r)) : /\ Parts(r)[i] = Encoded(Fields(r)[i], r[i + 1])
                                           /\ FitsField(Fields(r)[i], r[i + 1])
<1> DEFINE F == Fields(r)
           N == Len(F)
           s == Parts(r)
<1>1. LayoutOk(F, N, FixedSize[r[1]])
  BY LayoutFacts DEF WellFormed, Fields
<1>2. N \in Nat /\ DOMAIN F = 1 .. N /\ \A i \in 1 .. N : F[i] \in {"uint32", "string", "rest"}
  <2> HIDE DEF F, N
  <2> QED
    BY <1>1 DEF LayoutOk
<1>3. ASSUME NEW i \in 1 .. N PROVE FitsField(F[i], r[i + 1])
  <2>1. r[i + 1] \in IF F[i] = "uint32" THEN 0 .. U32 - 1 ELSE Seq(Bytes)
    BY DEF WellFormed, Fields
  <2> HIDE DEF F
  <2> QED
    BY <2>1, <1>2 DEF FitsField
<1>4. s = [i \in 1 .. N |-> Encoded(F[i], r[i + 1])]
  BY <1>2 DEF Parts
<1> HIDE DEF F, s, N
<1>5. \A i \in 1 .. N : s[i] = Encoded(F[i], r[i + 1]) /\ s[i] \in Seq(Bytes)
  BY <1>3, <1>4, EncodedFacts
<1>6. s \in Seq(Seq(Bytes)) /\ Len(s) = N
  BY <1>2, <1>4, <1>5
<1>7. IsLists(s, Bytes)
  BY <1>6 DEF IsLists
<1> QED
  BY <1>1, <1>3, <1>5, <1>6, <1>7 DEF F, N, s

(* The characters of a field. *)
Chars(r, i) == IF Fields(r)[i] = "uint32" THEN 0 ELSE Len(r[i + 1])

(* The bytes of the fields up to number i that are not characters. *)
FixedUpto(r, i) == IF i > 0 /\ Fields(r)[i] = "rest" THEN 4 * (i - 1) ELSE 4 * i

(* The payload grows with every field by its bytes. *)
LEMMA PartLengths ==
  ASSUME NEW r, WellFormed(r), NEW u, IsUpto(u, Parts(r), Bytes),
         NEW i, i \in 1 .. Len(Fields(r))
  PROVE  /\ Len(u[i - 1]) \in Nat /\ Len(u[i]) \in Nat /\ Chars(r, i) \in Nat
         /\ Len(u[i]) - FixedUpto(r, i) = Len(u[i - 1]) - FixedUpto(r, i - 1) + Chars(r, i)
         /\ Len(u[i]) <= Len(u[Len(Parts(r))]) /\ Chars(r, i) <= Len(u[i])
<1> DEFINE F == Fields(r)
           N == Len(F)
           s == Parts(r)
           k == i - 1
           a == Len(u[k])
           b == Len(u[i])
           l == Len(s[i])
           x == Chars(r, i)
           m == IF F[i] = "rest" THEN 0 ELSE 4
           z == Len(u[Len(s)])
<1>1. LayoutOk(F, N, FixedSize[r[1]]) /\ IsLists(s, Bytes) /\ Len(s) = N
  BY PartsFacts
<1>2. s[i] = Encoded(F[i], r[i + 1]) /\ FitsField(F[i], r[i + 1])
  BY PartsFacts
<1>3. N \in Nat /\ k \in 0 .. N - 1 /\ k + 1 = i /\ (k > 0 => F[k] # "rest")
  <2>1. i \in 1 .. N
    OBVIOUS
  <2> HIDE DEF F, N
  <2> QED
    BY <1>1, <2>1 DEF LayoutOk
<1>4. a \in Nat /\ l \in Nat /\ b = a + l /\ b <= z
  <2>1. k \in 0 .. Len(s) - 1 /\ IsUpto(u, s, Bytes)
    BY <1>1, <1>3
  <2>2. /\ Len(u[k]) \in Nat /\ Len(s[k + 1]) \in Nat
        /\ Len(u[k + 1]) = Len(u[k]) + Len(s[k + 1])
        /\ Len(u[k + 1]) <= Len(u[Len(s)])
    <3> HIDE DEF k, s
    <3>1. Stands(u, s, k)
      BY <1>1, <2>1, UptoPlaces
    <3> QED
      BY <3>1 DEF Stands
  <2> HIDE DEF k, s
  <2> QED
    BY <2>2, <1>3
<1>5. l = m + x /\ x \in Nat
  <2> DEFINE f == F[i]
             arg == r[i + 1]
  <2>1. l = Len(Encoded(f, arg)) /\ FitsField(f, arg)
    BY <1>2
  <2>2. x = IF f = "uint32" THEN 0 ELSE Len(arg)
    BY DEF Chars
  <2>3. m = IF f = "rest" THEN 0 ELSE 4
    OBVIOUS
  <2> HIDE DEF f, arg, l, x, m
  <2>4. Len(Encoded(f, arg)) = (IF f = "rest" THEN 0 ELSE 4)
                                  + (IF f = "uint32" THEN 0 ELSE Len(arg))
    BY <2>1, EncodedFacts
  <2>5. x \in Nat
    BY <2>1, <2>2 DEF FitsField
  <2> QED
    BY <2>1, <2>2, <2>3, <2>4, <2>5
<1>6. /\ FixedUpto(r, i) = FixedUpto(r, k) + m
      /\ FixedUpto(r, k) \in Int /\ FixedUpto(r, i) \in Int /\ m \in Nat
  <2>1. /\ FixedUpto(r, k) = IF k > 0 /\ F[k] = "rest" THEN 4 * (k - 1) ELSE 4 * k
        /\ FixedUpto(r, i) = IF i > 0 /\ F[i] = "rest" THEN 4 * (i - 1) ELSE 4 * i
    BY DEF FixedUpto
  <2>2. k \in Nat /\ i = k + 1
    BY <1>3
  <2>3. m = IF F[i] = "rest" THEN 0 ELSE 4
    OBVIOUS
  <2> HIDE DEF k, F, m
  <2> QED
    BY <2>1, <2>2, <2>3, <1>3
<1> DEFINE p == FixedUpto(r, i)
           q == FixedUpto(r, k)
<1>7. p = q + m /\ p \in Int /\ q \in Int /\ m \in Nat
  BY <1>6
<1>8. a \in Nat /\ b \in Nat /\ x \in Nat /\ b - p = a - q + x /\ b <= z /\ x <= b
  <2> HIDE DEF a, b, l, x, m, p, q, z
  <2> QED
    BY <1>4, <1>5, <1>7
<1> QED
  BY <1>8

(* payload_len is the length of the payload, in 32 bits, and no string of  *)
(* the request is longer.                                                  *)
LEMMA PayloadLength ==
  ASSUME NEW r, WellFormed(r)
  PROVE  /\ Payload(r) \in Seq(Bytes)
         /\ payload_len(r) = Len(Payload(r)) % U32
         /\ \A i \in 1 .. Len(Fields(r)) : Chars(r, i) <= Len(Payload(r))
<1> DEFINE F == Fields(r)
           N == Len(F)
           s == Parts(r)
           fixed == FixedSize[r[1]]
<1>1. LayoutOk(F, N, fixed) /\ IsLists(s, Bytes) /\ Len(s) = N
  BY PartsFacts
<1>2. PICK u : IsUpto(u, s, Bytes) /\ Flatten(s) = u[Len(s)]
  BY <1>1, FlattenDef
<1>3. Payload(r) = u[N] /\ Payload(r) \in Seq(Bytes)
  BY <1>1, <1>2, FlattenType DEF Payload
<1>4. N \in Nat /\ N > 0 /\ FixedUpto(r, N) = fixed /\ fixed \in Int
  <2>1. FixedUpto(r, N) = IF N > 0 /\ F[N] = "rest" THEN 4 * (N - 1) ELSE 4 * N
    BY DEF FixedUpto
  <2> HIDE DEF F, N, fixed
  <2> QED
    BY <1>1, <2>1 DEF LayoutOk
<1> DEFINE f == [i \in 0 .. N |-> Len(u[i]) - FixedUpto(r, i) + fixed]
           Eq(g) == g = [i \in 0 .. N |-> IF i = 0 THEN fixed ELSE g[i - 1] + Chars(r, i)]
           h == CHOOSE g : Eq(g)
<1>5. f[0] = fixed
  <2>1. u[0] = <<>> /\ FixedUpto(r, 0) = 0
    BY <1>2 DEF IsUpto, FixedUpto
  <2>2. f[0] = Len(u[0]) - FixedUpto(r, 0) + fixed
    BY <1>4
  <2> HIDE DEF f
  <2> QED
    BY <2>1, <2>2, <1>4
<1>6. ASSUME NEW i, i \in 1 .. N PROVE f[i] = f[i - 1] + Chars(r, i)
  <2> DEFINE a == Len(u[i - 1])
             b == Len(u[i])
             p == FixedUpto(r, i)
             q == FixedUpto(r, i - 1)
             x == Chars(r, i)
  <2>1. a \in Nat /\ b \in Nat /\ x \in Nat /\ b - p = a - q + x
    <3> HIDE DEF F, fixed
    <3> QED
      BY <1>2, <1>6, PartLengths DEF F
  <2>2. p \in Int /\ q \in Int
    BY <1>6, <1>4 DEF FixedUpto
  <2>3. i - 1 \in 0 .. N /\ i \in 0 .. N
    BY <1>6, <1>4
  <2>4. f[i] = b - p + fixed /\ f[i - 1] = a - q + fixed
    BY <2>3
  <2> HIDE DEF a, b, p, q, x, f, fixed
  <2>5. f[i] = f[i - 1] + x
    BY <1>4, <2>1, <2>2, <2>4
  <2> QED
    BY <2>5 DEF x
<1>7. Eq(f)
  <2> DEFINE g == [i \in 0 .. N |-> IF i = 0 THEN fixed ELSE f[i - 1] + Chars(r, i)]
  <2>1. ASSUME NEW i \in 0 .. N PROVE f[i] = g[i]
    <3> HIDE DEF f
    <3>1. CASE i = 0
      BY <3>1, <1>5
    <3>2. CASE i # 0
      <4>1. i \in 1 .. N
        BY <3>2, <1>4
      <4>2. f[i] = f[i - 1] + Chars(r, i)
        BY <4>1, <1>6
      <4> QED
        BY <3>2, <4>2
    <3> QED
      BY <3>1, <3>2
  <2>2. f = [i \in 0 .. N |-> f[i]]
    OBVIOUS
  <2> HIDE DEF f
  <2>3. g = [i \in 0 .. N |-> f[i]]
    BY <2>1
  <2> QED
    BY <2>2, <2>3
<1>8. Eq(h)
  <2> HIDE DEF Eq, f
  <2> QED
    BY <1>7, Zenon
<1>9. payload_len(r) = h[N] % U32
  BY Zenon DEF payload_len, Chars, Fields
<1> HIDE DEF h, f
<1>10. \A i \in 1 .. N : h[i] = h[i - 1] + Chars(r, i) /\ h[0] = fixed
  BY <1>8, <1>4
<1>11. \A n \in 0 .. N : h[n] = f[n]
  <2> DEFINE S == {n \in 0 .. N : h[n] = f[n]}
  <2>1. 0 \in S
    <3>1. h[0] = fixed
      BY <1>8, <1>4
    <3> QED
      BY <3>1, <1>4, <1>5
  <2>2. ASSUME NEW n \in 0 .. N - 1, n \in S PROVE n + 1 \in S
    <3>1. n + 1 \in 1 .. N /\ n + 1 \in 0 .. N /\ (n + 1) - 1 = n
      BY <1>4
    <3>2. f[n + 1] = f[(n + 1) - 1] + Chars(r, n + 1)
      BY <3>1, <1>6
    <3>3. h[n + 1] = h[(n + 1) - 1] + Chars(r, n + 1)
      BY <3>1, <1>10
    <3>4. h[n] = f[n]
      BY <2>2
    <3> HIDE DEF N
    <3> QED
      BY <3>1, <3>2, <3>3, <3>4
  <2>3. \A n \in 0 .. N : n \in S
    <3> HIDE DEF S, N
    <3> QED
      BY <1>4, <2>1, <2>2, LoopInduction, Zenon
  <2> QED
    BY <2>3
<1>12. f[N] = Len(u[N])
  <2>1. f[N] = Len(u[N]) - FixedUpto(r, N) + fixed
    BY <1>4 DEF f
  <2> DEFINE l == Len(u[N])
  <2>2. l \in Nat
    BY <1>3
  <2> HIDE DEF l, N, F, fixed
  <2>3. f[N] = l
    BY <1>4, <2>1, <2>2 DEF l
  <2> QED
    BY <2>3 DEF l
<1>13. payload_len(r) = Len(Payload(r)) % U32
  BY <1>3, <1>4, <1>9, <1>11, <1>12
<1>14. ASSUME NEW i, i \in 1 .. N PROVE Chars(r, i) <= Len(Payload(r))
  <2> DEFINE b == Len(u[i])
             z == Len(u[Len(s)])
             x == Chars(r, i)
  <2>1. b \in Nat /\ x \in Nat /\ b <= z /\ x <= b
    <3> HIDE DEF F, fixed
    <3> QED
      BY <1>2, <1>14, PartLengths DEF F
  <2>2. z = Len(Payload(r)) /\ z \in Nat
    BY <1>1, <1>3
  <2> HIDE DEF b, z, x
  <2>3. x <= z
    BY <2>1, <2>2
  <2> QED
    BY <2>2, <2>3 DEF x
<1> QED
  BY <1>3, <1>13, <1>14

-----------------------------------------------------------------------------
(* Parsing.                                                                *)

(* A list that grows by its next element. *)
LEMMA AppendNext ==
  ASSUME NEW r, NEW i, i \in Nat
  PROVE  Append([j \in 1 .. i |-> r[j]], r[i + 1]) = [j \in 1 .. i + 1 |-> r[j]]
<1> DEFINE A == {r[j] : j \in 1 .. i + 1}
           a == [j \in 1 .. i |-> r[j]]
           b == [j \in 1 .. i + 1 |-> r[j]]
           e == r[i + 1]
<1>1. a \in Seq(A) /\ Len(a) = i /\ e \in A
  OBVIOUS
<1>2. b \in Seq(A) /\ Len(b) = i + 1
  OBVIOUS
<1>3. /\ Append(a, e) \in Seq(A) /\ Len(Append(a, e)) = i + 1
      /\ \A j \in 1 .. i : Append(a, e)[j] = a[j]
      /\ Append(a, e)[i + 1] = e
  <2> HIDE DEF a, e, A
  <2> QED
    BY <1>1, AppendProperties
<1>4. \A j \in 1 .. i + 1 : Append(a, e)[j] = b[j]
  <2> SUFFICES ASSUME NEW j \in 1 .. i + 1 PROVE Append(a, e)[j] = b[j]
    OBVIOUS
  <2>1. CASE j \in 1 .. i
    <3>1. a[j] = r[j] /\ b[j] = r[j]
      BY <2>1
    <3> HIDE DEF a, b, e
    <3> QED
      BY <2>1, <3>1, <1>3
  <2>2. CASE j = i + 1
    <3>1. b[i + 1] = e
      OBVIOUS
    <3> HIDE DEF a, b, e
    <3> QED
      BY <2>2, <3>1, <1>3
  <2> QED
    BY <2>1, <2>2
<1> HIDE DEF a, b, e, A
<1>5. Append(a, e) = b
  BY <1>2, <1>3, <1>4
<1> QED
  BY <1>5 DEF a, b, e

(* One turn of a parser: the states in front of a field, and behind it. *)
Read(buf, field, states) ==
  {[at |-> End(buf, st.at, field),
    request |-> Append(st.request, Value(buf, st.at, field))] :
     st \in {s \in states : Fits(buf, s.at, field)}}

(* The parser has read i fields, which end after at bytes. *)
ParserAt(r, i, at) == [at |-> at, request |-> [j \in 1 .. i + 1 |-> r[j]]]

(* The limit of the producer is that of the parser: no sum of two lengths  *)
(* within it wraps.                                                        *)
LEMMA LimitKept ==
  ASSUME NEW r, WellFormed(r), r[1] = "PRODUCE"
  PROVE  WithinLimit(r[3], r[4])
<1>1. Layout["PRODUCE"] = <<"string", "string", "string">>
  BY DEF Layout
<1> DEFINE F == Layout["PRODUCE"]
           s == Len(r[3]) + Len(r[4])
<1>2. Len(F) = 3 /\ F[2] # "uint32" /\ F[3] # "uint32"
  BY <1>1
<1>3. \A i \in 1 .. Len(F) : F[i] # "uint32" => r[i + 1] \in Seq(Bytes)
  BY DEF WellFormed
<1> HIDE DEF F
<1>4. r[3] \in Seq(Bytes) /\ r[4] \in Seq(Bytes)
  <2>1. 2 \in 1 .. Len(F) /\ 3 \in 1 .. Len(F) /\ 2 + 1 = 3 /\ 3 + 1 = 4
    BY <1>2
  <2> QED
    BY <1>2, <1>3, <2>1
<1>5. s \in Nat /\ s <= MAX_PAYLOAD_SIZE /\ MAX_PAYLOAD_SIZE \in Nat
  <2>1. Len(r[3]) \in Nat /\ Len(r[4]) \in Nat
    BY <1>4
  <2>2. s <= MAX_PAYLOAD_SIZE
    BY DEF WellFormed
  <2>3. s \in Nat
    <3> DEFINE x == Len(r[3])
               y == Len(r[4])
    <3>1. x \in Nat /\ y \in Nat
      BY <2>1
    <3> HIDE DEF x, y
    <3>2. x + y \in Nat
      BY <3>1
    <3> QED
      BY <3>2 DEF x, y
  <2>4. MAX_PAYLOAD_SIZE \in Nat
    BY ProtocolAssumption
  <2> HIDE DEF s
  <2> QED
    BY <2>2, <2>3, <2>4
<1> HIDE DEF s
<1>6. U32 \in Nat /\ U32 > 0
  BY ByteFacts
<1> DEFINE m == U32
<1>7. m \in Nat /\ m > 0
  BY <1>6
<1> HIDE DEF m
<1>8. s % m <= s
  <2>1. s % m \in 0 .. m - 1
    BY <1>5, <1>7
  <2>2. CASE s < m
    BY <1>5, <1>7, <2>2
  <2>3. CASE ~(s < m)
    BY <1>5, <1>7, <2>1, <2>3
  <2> QED
    BY <2>2, <2>3
<1>9. s % m <= MAX_PAYLOAD_SIZE
  BY <1>5, <1>7, <1>8
<1> QED
  BY <1>9 DEF s, m, WithinLimit

(* The parser of a command understands what its serialiser writes, and     *)
(* nothing else.                                                           *)
LEMMA PayloadParsed ==
  ASSUME NEW r, WellFormed(r), Len(Payload(r)) < U32
  PROVE  parse(r[1], Payload(r)) = {r}
<1> DEFINE F == Fields(r)
           N == Len(F)
           s == Parts(r)
           P == Payload(r)
           c == r[1]
<1>1. LayoutOk(F, N, FixedSize[c]) /\ IsLists(s, Bytes) /\ Len(s) = N
  BY PartsFacts
<1>2. PICK u : IsUpto(u, s, Bytes) /\ Flatten(s) = u[Len(s)]
  BY <1>1, FlattenDef
<1>3. P = u[N] /\ P \in Seq(Bytes) /\ u[0] = <<>>
  BY <1>1, <1>2, FlattenType DEF Payload, IsUpto
<1>4. N \in Nat /\ N > 0 /\ \A i \in 1 .. N : F[i] = "rest" => i = N
  <2> HIDE DEF F, N
  <2> QED
    BY <1>1 DEF LayoutOk
<1> DEFINE At(i) == ParserAt(r, i, Len(u[i]))
           start == {[at |-> 0, request |-> <<c>>]}
           f == [i \in 0 .. N |-> {At(i)}]
           Eq(g) == g = [i \in 0 .. N |-> IF i = 0 THEN start ELSE Read(P, F[i], g[i - 1])]
           h == CHOOSE g : Eq(g)
<1>5. f[0] = start
  <2>1. Len(u[0]) = 0
    BY <1>3
  <2>2. [j \in 1 .. 0 + 1 |-> r[j]] = <<c>>
    OBVIOUS
  <2>3. At(0) = [at |-> 0, request |-> <<c>>]
    BY <2>1, <2>2 DEF ParserAt
  <2>4. f[0] = {At(0)}
    BY <1>4
  <2> HIDE DEF At, f
  <2> QED
    BY <2>3, <2>4
<1>6. ASSUME NEW i, i \in 1 .. N PROVE Read(P, F[i], {At(i - 1)}) = {At(i)}
  <2> DEFINE k == i - 1
             field == F[i]
             arg == r[i + 1]
             at == Len(u[k])
             n == Len(s[i])
  <2>1. k \in 0 .. N - 1 /\ k + 1 = i /\ k \in Nat
    BY <1>4, <1>6
  <2>2. Stands(u, s, k)
    <3> HIDE DEF k, s, N
    <3> QED
      BY <1>1, <1>2, <2>1, UptoPlaces
  <2>3. /\ at \in Nat /\ n \in Nat /\ Len(u[i]) = at + n /\ at + n <= Len(P)
        /\ \A j \in 1 .. n : P[at + j] = s[i][j]
    <3>1. /\ Len(u[k]) \in Nat /\ Len(s[k + 1]) \in Nat
          /\ Len(u[k + 1]) = Len(u[k]) + Len(s[k + 1])
          /\ Len(u[k + 1]) <= Len(u[N])
          /\ \A j \in 1 .. Len(s[k + 1]) : u[N][Len(u[k]) + j] = s[k + 1][j]
      BY <2>2, <1>1 DEF Stands
    <3> HIDE DEF k, s, N, P
    <3> QED
      BY <3>1, <2>1, <1>3
  <2>4. s[i] = Encoded(field, arg) /\ FitsField(field, arg)
    BY <1>6, PartsFacts
  <2>5. field = "rest" => at + n = Len(P)
    <3>1. field = "rest" => Len(u[i]) = Len(P)
      BY <1>3, <1>4, <1>6
    <3> HIDE DEF at, n, field, P
    <3> QED
      BY <3>1, <2>3
  <2>6. field = "uint32" \/ Len(arg) < U32
    <3>1. Chars(r, i) <= Len(P)
      BY <1>6, PayloadLength
    <3>2. Chars(r, i) = IF field = "uint32" THEN 0 ELSE Len(arg)
      BY DEF Chars
    <3>3. Len(P) \in Nat /\ Len(P) < U32 /\ U32 \in Nat
      BY <1>3, ByteFacts
    <3>4. field = "uint32" \/ Len(arg) \in Nat
      <4> HIDE DEF field, arg
      <4> QED
        BY <2>4 DEF FitsField
    <3> HIDE DEF field, arg, P
    <3> QED
      BY <3>1, <3>2, <3>3, <3>4
  <2>7. IsAt(Encoded(field, arg), P, at)
    BY <2>3, <2>4 DEF IsAt
  <2>8. /\ Fits(P, at, field) /\ End(P, at, field) = at + n /\ Value(P, at, field) = arg
    <3>1. n = Len(Encoded(field, arg))
      BY <2>4
    <3> HIDE DEF at, n, field, arg, P
    <3>2. FieldStands(P, at, field, arg, n)
      BY <1>3, <2>3, <2>4, <2>5, <2>6, <2>7, <3>1 DEF FieldStands
    <3> QED
      BY <3>2, FieldRead
  <2> DEFINE q == [j \in 1 .. k + 1 |-> r[j]]
  <2>9. Append(q, arg) = [j \in 1 .. i + 1 |-> r[j]]
    <3>1. Append([j \in 1 .. i |-> r[j]], r[i + 1]) = [j \in 1 .. i + 1 |-> r[j]]
      BY <2>1, AppendNext
    <3> QED
      BY <3>1, <2>1
  <2>10. At(k) = [at |-> at, request |-> q]
    BY DEF ParserAt
  <2>11. At(i) = [at |-> at + n, request |-> Append(q, arg)]
    BY <2>3, <2>9 DEF ParserAt
  <2> HIDE DEF at, n, field, arg, P, q
  <2>12. Read(P, field, {[at |-> at, request |-> q]})
           = {[at |-> at + n, request |-> Append(q, arg)]}
    <3> DEFINE st == [at |-> at, request |-> q]
    <3>1. st.at = at /\ st.request = q
      OBVIOUS
    <3> HIDE DEF st
    <3>2. {x \in {st} : Fits(P, x.at, field)} = {st}
      BY <3>1, <2>8
    <3>3. Read(P, field, {st}) = {[at |-> End(P, st.at, field),
                                   request |-> Append(st.request, Value(P, st.at, field))]}
      BY <3>2 DEF Read
    <3>4. Read(P, field, {st}) = {[at |-> at + n, request |-> Append(q, arg)]}
      BY <3>1, <3>3, <2>8
    <3> QED
      BY <3>4 DEF st
  <2> HIDE DEF At
  <2>13. Read(P, field, {At(k)}) = {At(i)}
    BY <2>10, <2>11, <2>12
  <2> QED
    BY <2>13 DEF field, k
<1>7. Eq(f)
  <2> DEFINE g == [i \in 0 .. N |-> IF i = 0 THEN start ELSE Read(P, F[i], f[i - 1])]
  <2>1. ASSUME NEW i \in 0 .. N PROVE f[i] = g[i]
    <3>1. CASE i = 0
      <4> HIDE DEF f, start
      <4> QED
        BY <3>1, <1>5
    <3>2. CASE i # 0
      <4>1. i \in 1 .. N /\ i - 1 \in 0 .. N
        BY <3>2, <1>4
      <4>2. f[i] = {At(i)} /\ f[i - 1] = {At(i - 1)}
        BY <4>1
      <4>3. g[i] = Read(P, F[i], f[i - 1])
        BY <3>2
      <4> HIDE DEF f, g, At, P, F
      <4>4. Read(P, F[i], {At(i - 1)}) = {At(i)}
        BY <4>1, <1>6
      <4> QED
        BY <4>2, <4>3, <4>4
    <3> QED
      BY <3>1, <3>2
  <2>2. f = [i \in 0 .. N |-> f[i]]
    OBVIOUS
  <2> HIDE DEF f, start, P, F, N
  <2>3. g = [i \in 0 .. N |-> f[i]]
    BY <2>1
  <2> QED
    BY <2>2, <2>3
<1>8. Eq(h)
  <2> HIDE DEF Eq, f
  <2> QED
    BY <1>7, Zenon
<1>9. parse(c, P) = {st.request : st \in {x \in h[N] :
         /\ x.at = Len(P)
         /\ c = "PRODUCE" => WithinLimit(x.request[3], x.request[4])}}
  BY Zenon DEF parse, Read, Fields
<1> HIDE DEF h
<1>10. \A n \in 0 .. N : h[n] = f[n]
  <2> HIDE DEF f, start, P, F
  <2> DEFINE S == {n \in 0 .. N : h[n] = f[n]}
  <2>0. h[0] = start /\ \A i \in 1 .. N : h[i] = Read(P, F[i], h[i - 1])
    <3> HIDE DEF N
    <3> QED
      BY <1>8, <1>4
  <2>00. f[0] = start /\ \A i \in 1 .. N : f[i] = Read(P, F[i], f[i - 1])
    <3> HIDE DEF N
    <3> QED
      BY <1>7, <1>4
  <2>1. 0 \in S
    BY <2>0, <2>00, <1>4
  <2>2. ASSUME NEW n \in 0 .. N - 1, n \in S PROVE n + 1 \in S
    <3>1. n + 1 \in 1 .. N /\ n + 1 \in 0 .. N /\ (n + 1) - 1 = n
      BY <1>4
    <3>2. h[n] = f[n]
      BY <2>2
    <3> HIDE DEF N
    <3>3. h[n + 1] = f[n + 1]
      BY <3>1, <3>2, <2>0, <2>00
    <3> QED
      BY <3>1, <3>3
  <2>3. \A n \in 0 .. N : n \in S
    <3> HIDE DEF S, N
    <3> QED
      BY <1>4, <2>1, <2>2, LoopInduction, Zenon
  <2> QED
    BY <2>3
<1>11. h[N] = {At(N)}
  <2>1. h[N] = f[N] /\ f[N] = {At(N)}
    BY <1>4, <1>10
  <2> QED
    BY <2>1
<1>12. At(N).at = Len(P) /\ At(N).request = r
  <2>1. r = [j \in 1 .. N + 1 |-> r[j]]
    BY DEF WellFormed, Fields
  <2>2. At(N).at = Len(u[N]) /\ At(N).request = [j \in 1 .. N + 1 |-> r[j]]
    BY DEF ParserAt
  <2> HIDE DEF N, P
  <2> QED
    BY <2>1, <2>2, <1>3
<1>13. c = "PRODUCE" => WithinLimit(r[3], r[4])
  BY LimitKept
<1> DEFINE a == At(N)
<1>14. parse(c, P) = {r}
  <2>1. h[N] = {a} /\ a.at = Len(P) /\ a.request = r
    BY <1>11, <1>12
  <2> HIDE DEF a, P, c, N
  <2>2. {x \in h[N] : /\ x.at = Len(P)
                      /\ c = "PRODUCE" => WithinLimit(x.request[3], x.request[4])} = {a}
    BY <2>1, <1>13
  <2> QED
    BY <1>9, <2>1, <2>2
<1> QED
  BY <1>14

-----------------------------------------------------------------------------
(* Frames.                                                                 *)

(* A frame f: the action, four bytes for the length of P, and P.           *)
IsFrame(f, action, P) ==
  /\ f \in Seq(Bytes) /\ P \in Seq(Bytes)
  /\ Len(P) \in Nat /\ Len(f) = 5 + Len(P) /\ Len(f) <= PIPE_BUF /\ PIPE_BUF < U32
  /\ f[1] = action
  /\ IsAt(write_uint32_le(Len(P)), f, 1)
  /\ IsAt(P, f, 5)

(* What the serialisers write. *)
LEMMA FrameFacts ==
  ASSUME FramesFit, NEW r, r \in Requests
  PROVE  WellFormed(r) /\ IsFrame(Frame[r], CommandType[r[1]], Payload(r))
<1> DEFINE c == r[1]
           P == Payload(r)
           l == payload_len(r)
           w == write_uint32_le(l)
           a == <<CommandType[c]>>
           f == Frame[r]
           h == Cat(a, w)
<1>1. WellFormed(r) /\ Len(f) <= PIPE_BUF /\ PIPE_BUF < U32
  BY DEF FramesFit
<1>2. CommandType[c] \in Bytes
  <2>1. CommandType[c] \in 1 .. 8
    BY <1>1, LayoutFacts DEF WellFormed
  <2> HIDE DEF c
  <2> QED
    BY <2>1, ByteFacts DEF Bytes
<1>3. P \in Seq(Bytes) /\ l = Len(P) % U32 /\ Len(P) \in Nat
  BY <1>1, PayloadLength
<1>4. l \in 0 .. U32 - 1
  <2> HIDE DEF l, P
  <2> QED
    BY <1>3, ByteFacts
<1>5. w \in Seq(Bytes) /\ Len(w) = 4
  <2> HIDE DEF l
  <2> QED
    BY <1>4, WriteRead
<1>6. a \in Seq(Bytes) /\ Len(a) = 1 /\ a[1] = CommandType[c]
  <2> DEFINE x == CommandType[c]
  <2>1. x \in Bytes
    BY <1>2
  <2> HIDE DEF x
  <2>2. <<x>> \in Seq(Bytes) /\ Len(<<x>>) = 1 /\ <<x>>[1] = x
    BY <2>1
  <2> QED
    BY <2>2 DEF x
<1>7. f = Cat(h, P)
  <2>1. Frame[r] = serialize(r)
    BY DEF Frame
  <2>2. serialize(r) = (a \o w) \o SE!FlattenSeq(Parts(r))
    BY Zenon DEF serialize, Parts, Fields
  <2>3. SE!FlattenSeq(Parts(r)) = P
    BY Zenon DEF SE!FlattenSeq, Flatten, Payload
  <2> HIDE DEF a, w, P
  <2> QED
    BY <2>1, <2>2, <2>3 DEF Cat
<1> HIDE DEF a, w, f, h, l, P
<1>8. h \in Seq(Bytes) /\ IsCat(h, a, w)
  BY <1>5, <1>6, CatElements DEF h
<1>9. f \in Seq(Bytes) /\ IsCat(f, h, P)
  BY <1>3, <1>7, <1>8, CatElements
<1>10. Len(h) = 5 /\ Len(f) = 5 + Len(P) /\ Len(P) < U32
  <2>1. Len(h) = 5
    BY <1>5, <1>6, <1>8 DEF IsCat
  <2>2. Len(f) = 5 + Len(P)
    BY <2>1, <1>9 DEF IsCat
  <2> DEFINE m == Len(P)
             n == Len(f)
  <2>3. m \in Nat /\ n = 5 + m /\ n <= PIPE_BUF
    BY <1>1, <1>3, <2>2
  <2> HIDE DEF m, n
  <2>4. m < U32
    BY <1>1, <2>3, ByteFacts, StreamAssumption
  <2> QED
    BY <2>1, <2>2, <2>4 DEF m
<1>11. l = Len(P)
  <2> DEFINE m == Len(P)
  <2>1. m \in Nat /\ m < U32 /\ l = m % U32
    BY <1>3, <1>10
  <2> HIDE DEF m
  <2>2. l = m
    BY <2>1, ByteFacts
  <2> QED
    BY <2>2 DEF m
<1>12. f[1] = CommandType[c]
  <2>1. f[1] = h[1]
    BY <1>9, <1>10 DEF IsCat
  <2>2. h[1] = a[1]
    BY <1>6, <1>8 DEF IsCat
  <2> QED
    BY <2>1, <2>2, <1>6
<1>13. IsAt(w, f, 1)
  <2> SUFFICES ASSUME NEW j \in 1 .. 4 PROVE f[1 + j] = w[j]
    BY <1>5 DEF IsAt
  <2>1. h[1 + j] = w[j]
    BY <1>5, <1>6, <1>8 DEF IsCat
  <2>2. 1 + j \in 1 .. 5
    OBVIOUS
  <2>3. f[1 + j] = h[1 + j]
    BY <2>2, <1>9, <1>10 DEF IsCat
  <2> QED
    BY <2>1, <2>3
<1>14. IsAt(P, f, 5)
  <2> SUFFICES ASSUME NEW j \in 1 .. Len(P) PROVE f[5 + j] = P[j]
    BY DEF IsAt
  <2> QED
    BY <1>9, <1>10 DEF IsCat
<1>15. IsAt(write_uint32_le(Len(P)), f, 1)
  BY <1>11, <1>13 DEF w
<1>16. IsFrame(f, CommandType[c], P)
  BY <1>1, <1>3, <1>9, <1>10, <1>12, <1>14, <1>15 DEF IsFrame
<1> QED
  BY <1>1, <1>16 DEF f, P

(* The first n bytes of b are those of f. *)
Begins(b, f, n) == \A i \in 1 .. n : b[i] = f[i]

(* The first five bytes of a frame say how long it is. *)
LEMMA HeaderRead ==
  ASSUME NEW f, NEW action, NEW P, IsFrame(f, action, P), NEW b, Begins(b, f, 5)
  PROVE  FrameLen(b) = Len(f) /\ Len(f) \in Nat /\ Len(f) >= 5
<1> DEFINE n == Len(f)
           m == Len(P)
           w == write_uint32_le(m)
<1>1. m \in Nat /\ n = 5 + m /\ n <= PIPE_BUF /\ PIPE_BUF < U32 /\ IsAt(w, f, 1)
  BY DEF IsFrame
<1>2. m \in 0 .. U32 - 1 /\ n < U32 /\ n \in Nat
  <2> HIDE DEF m, n
  <2> QED
    BY <1>1, ByteFacts, StreamAssumption
<1>3. Len(w) = 4
  <2> HIDE DEF m
  <2> QED
    BY <1>2, WriteRead
<1>4. IsAt(w, b, 1)
  <2> SUFFICES ASSUME NEW j \in 1 .. 4 PROVE b[1 + j] = w[j]
    BY <1>3 DEF IsAt
  <2>1. 1 + j \in 1 .. 5
    OBVIOUS
  <2>2. b[1 + j] = f[1 + j]
    BY <2>1 DEF Begins
  <2>3. f[1 + j] = w[j]
    BY <1>1, <1>3 DEF IsAt
  <2> QED
    BY <2>2, <2>3
<1>5. read_uint32_le(b, 1) = m
  <2> HIDE DEF m
  <2> QED
    BY <1>2, <1>4, WriteRead DEF w
<1>6. FrameLen(b) = (5 + m) % U32
  BY <1>5 DEF FrameLen
<1> HIDE DEF n, m
<1>7. FrameLen(b) = n /\ n >= 5
  BY <1>1, <1>2, <1>6, ByteFacts
<1> QED
  BY <1>2, <1>7 DEF n

(* A frame at the front of a buffer is handled as the request it was made  *)
(* from: the right handler gets the right arguments.                       *)
LEMMA FrameHandled ==
  ASSUME FramesFit, NEW r, r \in Requests, NEW b, b \in Seq(Bytes),
         Len(Frame[r]) <= Len(b), Begins(b, Frame[r], Len(Frame[r]))
  PROVE  handle_request(b[1], SubSeq(b, 6, Len(Frame[r]))) = r
<1> DEFINE f == Frame[r]
           c == r[1]
           P == Payload(r)
           n == Len(f)
           m == Len(P)
<1>1. WellFormed(r) /\ IsFrame(f, CommandType[c], P)
  BY FrameFacts
<1>2. /\ P \in Seq(Bytes) /\ m \in Nat /\ n = 5 + m /\ n <= PIPE_BUF /\ PIPE_BUF < U32
      /\ f[1] = CommandType[c] /\ IsAt(P, f, 5)
  BY <1>1 DEF IsFrame
<1>3. n \in Nat /\ m < U32
  <2> HIDE DEF n, m
  <2> QED
    BY <1>2, ByteFacts, StreamAssumption
<1>4. b[1] = CommandType[c]
  <2>1. 1 \in 1 .. n
    <3> HIDE DEF n, m
    <3> QED
      BY <1>2
  <2> QED
    BY <2>1, <1>2 DEF Begins
<1>5. IsAt(P, b, 5)
  <2> SUFFICES ASSUME NEW j \in 1 .. m PROVE b[5 + j] = P[j]
    BY DEF IsAt
  <2>1. 5 + j \in 1 .. n
    <3> HIDE DEF n, m
    <3> QED
      BY <1>2
  <2>2. b[5 + j] = f[5 + j]
    BY <2>1 DEF Begins
  <2>3. f[5 + j] = P[j]
    BY <1>2 DEF IsAt
  <2> QED
    BY <2>2, <2>3
<1>6. SubSeq(b, 6, n) = P
  <2>1. 5 + m <= Len(b)
    BY <1>2
  <2>2. SubSeq(b, 5 + 1, 5 + Len(P)) = P
    <3> HIDE DEF P
    <3> QED
      BY <1>2, <1>5, <2>1, PartIs
  <2> QED
    BY <1>2, <2>2
<1>7. parse(c, P) = {r}
  BY <1>1, <1>3, PayloadParsed
<1>8. {d \in Commands : CommandType[d] = CommandType[c]} = {c}
  <2>1. c \in Commands
    BY <1>1 DEF WellFormed
  <2> QED
    BY <2>1, CommandsDiffer
<1> DEFINE found == UNION {parse(d, P) : d \in {e \in Commands : CommandType[e] = CommandType[c]}}
<1>9. found = {r}
  <2> DEFINE D == {d \in Commands : CommandType[d] = CommandType[c]}
  <2>1. D = {c} /\ found = UNION {parse(d, P) : d \in D}
    BY <1>8
  <2> HIDE DEF D, P, c, found
  <2>2. {parse(d, P) : d \in {c}} = {parse(c, P)}
    OBVIOUS
  <2> QED
    BY <1>7, <2>1, <2>2
<1>10. handle_request(CommandType[c], P)
         = IF found = {} THEN Dropped ELSE CHOOSE x \in found : TRUE
  BY DEF handle_request
<1>11. handle_request(CommandType[c], P) = r
  <2> HIDE DEF found
  <2> QED
    BY <1>9, <1>10
<1> QED
  BY <1>4, <1>6, <1>11

-----------------------------------------------------------------------------
(* Queues of requests and their bytes.                                     *)

Frames(q) == [i \in DOMAIN q |-> Frame[q[i]]]

(* Stream is a concatenation of frames. *)
LEMMA StreamIs == ASSUME NEW q PROVE Stream(q) = Flatten(Frames(q))
BY Zenon DEF Stream, Frames, SE!FlattenSeq, Flatten

(* A frame is a list of bytes. *)
LEMMA FrameType ==
  ASSUME FramesFit
  PROVE  \A r \in Requests : Frame[r] \in Seq(Bytes)
BY FrameFacts DEF IsFrame

(* The frames of a queue are lists of bytes. *)
LEMMA FramesType ==
  ASSUME FramesFit, NEW q, q \in Seq(Requests)
  PROVE  /\ IsLists(Frames(q), Bytes) /\ Len(Frames(q)) = Len(q)
         /\ \A i \in 1 .. Len(q) : Frames(q)[i] = Frame[q[i]]
<1>1. \A i \in 1 .. Len(q) : Frame[q[i]] \in Seq(Bytes)
  BY FrameType
<1>2. Frames(q) = [i \in 1 .. Len(q) |-> Frame[q[i]]]
  BY DEF Frames
<1>3. Frames(q) \in Seq(Seq(Bytes)) /\ Len(Frames(q)) = Len(q)
  BY <1>1, <1>2
<1> QED
  BY <1>2, <1>3 DEF IsLists

(* No requests, no bytes. *)
LEMMA StreamEmpty == Stream(<<>>) = <<>>
<1>1. Frames(<<>>) = <<>>
  BY DEF Frames
<1> QED
  BY <1>1, StreamIs, FlattenEmpty

(* The bytes of a queue are bytes. *)
LEMMA StreamType ==
  ASSUME FramesFit, NEW q, q \in Seq(Requests)
  PROVE  Stream(q) \in Seq(Bytes)
<1>1. IsLists(Frames(q), Bytes)
  BY FramesType
<1>2. Flatten(Frames(q)) \in Seq(Bytes)
  BY <1>1, FlattenType
<1> QED
  BY <1>2, StreamIs

(* A request more at the end is its frame more at the end. *)
LEMMA StreamAppend ==
  ASSUME FramesFit, NEW q, q \in Seq(Requests), NEW r, r \in Requests
  PROVE  Stream(Append(q, r)) = Cat(Stream(q), Frame[r])
<1> DEFINE a == Append(q, r)
           n == Len(q)
<1>1. /\ a \in Seq(Requests) /\ Len(a) = n + 1 /\ n \in Nat
      /\ \A i \in 1 .. n : a[i] = q[i]
      /\ a[n + 1] = r
  BY AppendProperties
<1>2. /\ IsLists(Frames(q), Bytes) /\ Len(Frames(q)) = n
      /\ \A i \in 1 .. n : Frames(q)[i] = Frame[q[i]]
  BY FramesType
<1>3. Frame[r] \in Seq(Bytes)
  BY FrameType
<1> HIDE DEF a, n
<1>4. DOMAIN a = 1 .. n + 1
  BY <1>1
<1> DEFINE g == Append(Frames(q), Frame[r])
<1>5. g \in Seq(Seq(Bytes)) /\ Len(g) = n + 1
      /\ (\A i \in 1 .. n : g[i] = Frames(q)[i]) /\ g[n + 1] = Frame[r]
  <2> DEFINE s == Frames(q)
             x == Frame[r]
             L == Seq(Bytes)
  <2>1. s \in Seq(L) /\ x \in L /\ Len(s) = n
    BY <1>2, <1>3 DEF IsLists
  <2> HIDE DEF s, x, L
  <2>2. /\ Append(s, x) \in Seq(L) /\ Len(Append(s, x)) = n + 1
        /\ (\A i \in 1 .. n : Append(s, x)[i] = s[i]) /\ Append(s, x)[n + 1] = x
    BY <2>1, AppendProperties
  <2> QED
    BY <2>2 DEF s, x, L
<1> HIDE DEF g
<1>6. \A i \in 1 .. n + 1 : Frame[a[i]] = g[i]
  <2> SUFFICES ASSUME NEW i \in 1 .. n + 1 PROVE Frame[a[i]] = g[i]
    OBVIOUS
  <2>1. CASE i \in 1 .. n
    BY <2>1, <1>1, <1>2, <1>5
  <2>2. CASE i = n + 1
    BY <2>2, <1>1, <1>5
  <2> QED
    BY <2>1, <2>2, <1>1
<1>7. DOMAIN g = 1 .. n + 1 /\ g = [i \in DOMAIN g |-> g[i]]
  BY <1>5
<1>8. Frames(a) = g
  <2>1. Frames(a) = [i \in 1 .. n + 1 |-> Frame[a[i]]]
    BY <1>4 DEF Frames
  <2>2. [i \in 1 .. n + 1 |-> Frame[a[i]]] = [i \in 1 .. n + 1 |-> g[i]]
    BY <1>6
  <2> QED
    BY <1>7, <2>1, <2>2
<1>9. Flatten(g) = Cat(Flatten(Frames(q)), Frame[r])
  BY <1>2, <1>3, FlattenAppend DEF g
<1> QED
  BY <1>8, <1>9, StreamIs DEF a

(* The oldest request is what the bytes begin with. *)
LEMMA StreamHead ==
  ASSUME FramesFit, NEW q, q \in Seq(Requests), q # <<>>
  PROVE  /\ Head(q) \in Requests /\ Tail(q) \in Seq(Requests)
         /\ Stream(q) = Cat(Frame[Head(q)], Stream(Tail(q)))
<1> DEFINE t == Tail(q)
           n == Len(t)
<1>1. /\ Head(q) \in Requests /\ t \in Seq(Requests) /\ Len(q) = n + 1 /\ n \in Nat
      /\ \A i \in 1 .. n : t[i] = q[i + 1]
      /\ Head(q) = q[1]
  <2>1. /\ Head(q) \in Requests /\ t \in Seq(Requests) /\ n = Len(q) - 1
        /\ \A i \in 1 .. n : t[i] = q[i + 1]
    BY HeadTailProperties
  <2>2. Head(q) = q[1] /\ n \in Nat /\ Len(q) \in Nat
    BY <2>1
  <2> QED
    BY <2>1, <2>2
<1> HIDE DEF t, n
<1>2. /\ IsLists(Frames(q), Bytes) /\ Len(Frames(q)) = n + 1
      /\ \A i \in 1 .. n + 1 : Frames(q)[i] = Frame[q[i]]
  BY <1>1, FramesType
<1>3. /\ IsLists(Frames(t), Bytes) /\ Len(Frames(t)) = n
      /\ \A i \in 1 .. n : Frames(t)[i] = Frame[t[i]]
  BY <1>1, FramesType DEF n
<1>4. IsTail(Frames(t), Frames(q), n)
  <2> SUFFICES ASSUME NEW i \in 1 .. n PROVE Frames(t)[i] = Frames(q)[i + 1]
    BY <1>2, <1>3 DEF IsTail
  <2>1. i + 1 \in 1 .. n + 1
    BY <1>1
  <2> QED
    BY <2>1, <1>1, <1>2, <1>3
<1>5. Flatten(Frames(q)) = Cat(Frames(q)[1], Flatten(Frames(t)))
  BY <1>1, <1>2, <1>3, <1>4, FlattenShift
<1>6. Frames(q)[1] = Frame[Head(q)]
  <2>1. 1 \in 1 .. n + 1
    BY <1>1
  <2> QED
    BY <2>1, <1>1, <1>2
<1> QED
  BY <1>1, <1>5, <1>6, StreamIs DEF t

(* The requests of w after the first k. *)
Rest(w, k) == SubSeq(w, k + 1, Len(w))

(* They are a queue: a new request goes to its end. *)
LEMMA RestAppend ==
  ASSUME NEW A, NEW w, w \in Seq(A), NEW k, k \in Nat, k <= Len(w), NEW r, r \in A
  PROVE  Rest(w, k) \in Seq(A) /\ Rest(Append(w, r), k) = Append(Rest(w, k), r)
<1> DEFINE a == Append(w, r)
           n == Len(w)
           q == SubSeq(w, k + 1, n)
           b == SubSeq(a, k + 1, n + 1)
           c == Append(q, r)
<1>1. /\ a \in Seq(A) /\ Len(a) = n + 1 /\ n \in Nat
      /\ \A i \in 1 .. n : a[i] = w[i]
      /\ a[n + 1] = r
  BY AppendProperties
<1>0. k <= n
  OBVIOUS
<1> HIDE DEF a
<1>2. q \in Seq(A) /\ Len(q) = n - k /\ \A i \in 1 .. n - k : q[i] = w[k + i]
  <2>1. \A i \in k + 1 .. n : w[i] \in A
    OBVIOUS
  <2>2. /\ q \in Seq(A) /\ Len(q) = IF k + 1 <= n THEN n - (k + 1) + 1 ELSE 0
        /\ \A i \in 1 .. n - (k + 1) + 1 : q[i] = w[(k + 1) + i - 1]
    BY <1>1, <2>1, SubSeqProperties
  <2> HIDE DEF q, n
  <2> QED
    BY <1>0, <1>1, <2>2
<1>3. b \in Seq(A) /\ Len(b) = n + 1 - k /\ \A i \in 1 .. n + 1 - k : b[i] = a[k + i]
  <2>1. \A i \in k + 1 .. n + 1 : a[i] \in A
    BY <1>1
  <2>2. /\ b \in Seq(A) /\ Len(b) = IF k + 1 <= n + 1 THEN (n + 1) - (k + 1) + 1 ELSE 0
        /\ \A i \in 1 .. (n + 1) - (k + 1) + 1 : b[i] = a[(k + 1) + i - 1]
    BY <1>1, <2>1, SubSeqProperties
  <2> HIDE DEF b, n
  <2> QED
    BY <1>0, <1>1, <2>2
<1> HIDE DEF q, b
<1>4. /\ c \in Seq(A) /\ Len(c) = n - k + 1
      /\ \A i \in 1 .. n - k : c[i] = q[i]
      /\ c[n - k + 1] = r
  BY <1>2, AppendProperties
<1> HIDE DEF c, n
<1>5. ASSUME NEW i \in 1 .. n + 1 - k PROVE b[i] = c[i]
  <2>1. CASE i \in 1 .. n - k
    <3>1. k + i \in 1 .. n
      BY <2>1, <1>1
    <3> QED
      BY <2>1, <3>1, <1>1, <1>2, <1>3, <1>4
  <2>2. CASE i = n + 1 - k
    <3>1. k + i = n + 1 /\ i = n - k + 1
      BY <2>2, <1>1
    <3> QED
      BY <3>1, <1>1, <1>3, <1>4
  <2> QED
    BY <2>1, <2>2, <1>1
<1>6. b = c
  <2>1. Len(b) = Len(c) /\ Len(b) = n + 1 - k
    BY <1>1, <1>3, <1>4
  <2> DEFINE m == n + 1 - k
  <2>2. b \in Seq(A) /\ c \in Seq(A) /\ Len(b) = m /\ Len(c) = m /\ m \in Nat
    BY <2>1, <1>0, <1>1, <1>3, <1>4
  <2>3. \A i \in 1 .. m : b[i] = c[i]
    BY <1>5
  <2> HIDE DEF m
  <2> QED
    BY <2>2, <2>3
<1> QED
  BY <1>1, <1>2, <1>6 DEF Rest, n, a, b, c, q

(* ... and the first one leaves it. *)
LEMMA RestTail ==
  ASSUME NEW A, NEW w, w \in Seq(A), NEW k, k \in Nat, k <= Len(w), Rest(w, k) # <<>>
  PROVE  /\ k + 1 <= Len(w)
         /\ Head(Rest(w, k)) = w[k + 1] /\ Tail(Rest(w, k)) = Rest(w, k + 1)
<1> DEFINE n == Len(w)
<1>1. n \in Nat
  OBVIOUS
<1>2. k + 1 <= n
  <2> SUFFICES ASSUME ~(k + 1 <= n) PROVE FALSE
    OBVIOUS
  <2>1. n < k + 1 /\ n \in Int /\ k + 1 \in Int
    BY <1>1
  <2>2. Rest(w, k) = <<>>
    BY <2>1, SubSeqEmpty DEF Rest
  <2> QED
    BY <2>2
<1>3. k + 1 \in 1 .. Len(w) /\ n \in k + 1 .. Len(w)
  BY <1>1, <1>2
<1>4. /\ Head(SubSeq(w, k + 1, n)) = w[k + 1]
      /\ Tail(SubSeq(w, k + 1, n)) = SubSeq(w, (k + 1) + 1, n)
  BY <1>3, HeadTailOfSubSeq
<1> QED
  BY <1>2, <1>4 DEF Rest

-----------------------------------------------------------------------------
(* Buffers.                                                                *)

(* A list is its first n elements and the others. *)
LEMMA Cut ==
  ASSUME NEW A, NEW b, b \in Seq(A), NEW n, n \in 0 .. Len(b)
  PROVE  /\ SubSeq(b, 1, n) \in Seq(A) /\ SubSeq(b, n + 1, Len(b)) \in Seq(A)
         /\ Len(SubSeq(b, 1, n)) = n
         /\ \A i \in 1 .. n : SubSeq(b, 1, n)[i] = b[i]
         /\ Cat(SubSeq(b, 1, n), SubSeq(b, n + 1, Len(b))) = b
<1> DEFINE m == Len(b)
<1>1. m \in Nat /\ n \in 0 .. m /\ n \in Int /\ n + 1 \in Int
  OBVIOUS
<1>2. \A i \in 1 .. m : b[i] \in A
  OBVIOUS
<1>3. /\ SubSeq(b, 1, n) \in Seq(A)
      /\ Len(SubSeq(b, 1, n)) = IF 1 <= n THEN n - 1 + 1 ELSE 0
      /\ \A i \in 1 .. n - 1 + 1 : SubSeq(b, 1, n)[i] = b[1 + i - 1]
  <2>1. \A i \in 1 .. n : b[i] \in A
    BY <1>1, <1>2
  <2> QED
    BY <1>1, <2>1, SubSeqProperties
<1>4. SubSeq(b, n + 1, m) \in Seq(A)
  <2>1. \A i \in n + 1 .. m : b[i] \in A
    BY <1>1, <1>2
  <2> QED
    BY <1>1, <2>1, SubSeqProperties
<1>5. SubSeq(b, 1, n) \o SubSeq(b, n + 1, m) = SubSeq(b, 1, m)
  <2>1. 1 \in 1 .. Len(b) + 1 /\ n \in 1 - 1 .. Len(b) /\ m \in n .. Len(b)
    BY <1>1
  <2> QED
    BY <2>1, ConcatAdjacentSubSeq
<1>6. SubSeq(b, 1, m) = b
  BY SubSeqFull
<1> DEFINE g == SubSeq(b, 1, n)
<1>7. Len(g) = n /\ \A i \in 1 .. n : g[i] = b[i]
  <2> HIDE DEF g, m
  <2> QED
    BY <1>1, <1>3 DEF g
<1> QED
  BY <1>3, <1>4, <1>5, <1>6, <1>7 DEF Cat

(* What both of two cuts of the same bytes have in front is the same. *)
LEMMA FrontSame ==
  ASSUME NEW A, NEW b, b \in Seq(A), NEW x, x \in Seq(A), NEW f, f \in Seq(A),
         NEW t, t \in Seq(A), Cat(b, x) = Cat(f, t),
         NEW n, n \in Nat, n <= Len(b), n <= Len(f)
  PROVE  Begins(b, f, n)
<1>1. IsCat(Cat(b, x), b, x) /\ IsCat(Cat(f, t), f, t)
  BY CatElements
<1> DEFINE c == Cat(b, x)
           k == Len(b)
           l == Len(f)
<1>2. /\ k \in Nat /\ l \in Nat /\ n <= k /\ n <= l
      /\ \A i \in 1 .. k : c[i] = b[i]
      /\ \A i \in 1 .. l : c[i] = f[i]
  BY <1>1 DEF IsCat
<1> HIDE DEF c, k, l
<1> SUFFICES ASSUME NEW i \in 1 .. n PROVE b[i] = f[i]
  BY DEF Begins
<1>3. i \in 1 .. k /\ i \in 1 .. l
  BY <1>2
<1> QED
  BY <1>2, <1>3

(* A frame is taken from the front of the buffer: what is left of it and   *)
(* the pipe are the bytes that followed.                                   *)
LEMMA FrontTaken ==
  ASSUME NEW A, NEW b, b \in Seq(A), NEW x, x \in Seq(A), NEW f, f \in Seq(A),
         NEW t, t \in Seq(A), Cat(b, x) = Cat(f, t), Len(f) <= Len(b)
  PROVE  /\ Begins(b, f, Len(f))
         /\ SubSeq(b, Len(f) + 1, Len(b)) \in Seq(A)
         /\ Cat(SubSeq(b, Len(f) + 1, Len(b)), x) = t
<1> DEFINE n == Len(f)
           g == SubSeq(b, 1, n)
           d == SubSeq(b, n + 1, Len(b))
<1>1. n \in Nat /\ Len(b) \in Nat /\ n \in 0 .. Len(b) /\ n <= Len(b) /\ n <= Len(f)
  OBVIOUS
<1>2. Begins(b, f, n)
  <2> HIDE DEF n
  <2> QED
    BY <1>1, FrontSame
<1>3. /\ g \in Seq(A) /\ d \in Seq(A) /\ Len(g) = n
      /\ \A i \in 1 .. n : g[i] = b[i]
      /\ Cat(g, d) = b
  <2> HIDE DEF n
  <2> QED
    BY <1>1, Cut
<1> HIDE DEF g, d
<1>4. g = f
  <2>1. \A i \in 1 .. n : g[i] = f[i]
    BY <1>2, <1>3 DEF Begins
  <2> QED
    BY <1>3, <2>1
<1>5. Cat(f, Cat(d, x)) = Cat(f, t) /\ Cat(d, x) \in Seq(A)
  <2>1. Cat(Cat(f, d), x) = Cat(f, t)
    BY <1>3, <1>4
  <2> DEFINE L == Seq(A)
  <2>2. /\ \A y, z \in L : Cat(y, z) \in L
        /\ \A y, z, v \in L : Cat(Cat(y, z), v) = Cat(y, Cat(z, v))
    BY CatFacts
  <2>3. f \in L /\ d \in L /\ x \in L
    BY <1>3
  <2> HIDE DEF L
  <2>4. Cat(Cat(f, d), x) = Cat(f, Cat(d, x)) /\ Cat(d, x) \in L
    BY <2>2, <2>3
  <2> QED
    BY <2>1, <2>4 DEF L
<1>6. Cat(d, x) = t
  <2> DEFINE y == Cat(d, x)
  <2>1. y \in Seq(A) /\ f \o y = f \o t
    BY <1>5 DEF Cat
  <2> HIDE DEF y
  <2>2. \A s, u, v \in Seq(A) : s \o u = s \o v => u = v
    BY ConcatSimplifications, Zenon
  <2>3. y = t
    BY <2>1, <2>2, Zenon
  <2> QED
    BY <2>3 DEF y
<1> QED
  BY <1>2, <1>3, <1>6 DEF d
-----------------------------------------------------------------------------
(* The invariant.                                                          *)

(* A process that has not finished a frame has not begun to write it; what *)
(* has been handled is the beginning of what has been written; and the     *)
(* bytes in between are the frames in between.                             *)
StreamInv ==
  /\ TypeOK
  /\ \A p \in Procs : writing[p] # Nil => left[p] = Frame[writing[p]]
  /\ handled \in Seq(Requests) /\ Len(handled) <= Len(written)
  /\ \A i \in 1 .. Len(handled) : handled[i] = written[i]
  /\ StreamFramed

(* The requests in the FIFO and in recv_buf. *)
Unhandled == Rest(written, Len(handled))

(* What the invariant says of the bytes. *)
LEMMA InvFacts ==
  ASSUME FramesFit, StreamInv
  PROVE  /\ recv_buf \in Seq(Bytes) /\ fifo \in Seq(Bytes)
         /\ Unhandled \in Seq(Requests) /\ Stream(Unhandled) \in Seq(Bytes)
         /\ Cat(recv_buf, fifo) = Stream(Unhandled)
         /\ Len(handled) \in Nat /\ Len(handled) <= Len(written)
<1>1. /\ recv_buf \in Seq(Bytes) /\ fifo \in Seq(Bytes) /\ written \in Seq(Requests)
      /\ Len(handled) \in Nat /\ Len(handled) <= Len(written)
  BY DEF StreamInv, TypeOK
<1>2. Unhandled \in Seq(Requests)
  <2> DEFINE k == Len(handled)
             n == Len(written)
  <2>1. k + 1 \in Int /\ n \in Int /\ \A i \in k + 1 .. n : written[i] \in Requests
    BY <1>1
  <2>2. SubSeq(written, k + 1, n) \in Seq(Requests)
    <3> HIDE DEF k, n
    <3> QED
      BY <2>1, SubSeqProperties
  <2> QED
    BY <2>2 DEF Unhandled, Rest
<1>3. Stream(Unhandled) \in Seq(Bytes)
  BY <1>2, StreamType
<1>4. Cat(recv_buf, fifo) = Stream(Unhandled)
  BY DEF StreamInv, StreamFramed, Cat, Unhandled, Rest
<1> QED
  BY <1>1, <1>2, <1>3, <1>4

(* Initially there are no bytes. *)
LEMMA InitInv == FramesFit /\ Init => StreamInv
<1> SUFFICES ASSUME FramesFit, Init PROVE StreamInv
  OBVIOUS
<1>1. /\ writing = [p \in Procs |-> Nil] /\ left = [p \in Procs |-> <<>>]
      /\ fifo = <<>> /\ recv_buf = <<>> /\ written = <<>> /\ handled = <<>>
  BY DEF Init
<1>2. TypeOK
  BY <1>1, StreamAssumption DEF TypeOK
<1>3. \A p \in Procs : writing[p] # Nil => left[p] = Frame[writing[p]]
  BY <1>1
<1>4. handled \in Seq(Requests) /\ Len(handled) <= Len(written)
  BY <1>1
<1>5. \A i \in 1 .. Len(handled) : handled[i] = written[i]
  BY <1>1
<1>6. StreamFramed
  <2>1. SubSeq(written, Len(handled) + 1, Len(written)) = <<>>
    BY <1>1
  <2>2. recv_buf \o fifo = <<>>
    BY <1>1
  <2> QED
    BY <2>1, <2>2, StreamEmpty DEF StreamFramed
<1> QED
  BY <1>2, <1>3, <1>4, <1>5, <1>6 DEF StreamInv

-----------------------------------------------------------------------------
(* The steps.                                                              *)

(* The queue of the requests written and not handled, after a step. *)
LEMMA UnhandledPrimed ==
  Unhandled' = SubSeq(written', Len(handled') + 1, Len(written'))
BY DEF Unhandled, Rest

(* A client that begins to write leaves the bytes in the pipe alone. *)
LEMMA SendInv ==
  ASSUME FramesFit, StreamInv, NEW p \in Procs, NEW r \in Requests, send(p, r)
  PROVE  StreamInv'
<1>1. /\ writing' = [writing EXCEPT ![p] = r]
      /\ left' = [left EXCEPT ![p] = Frame[r]]
      /\ fifo' = fifo /\ recv_buf' = recv_buf /\ written' = written /\ handled' = handled
  BY DEF send
<1>2. /\ writing \in [Procs -> Requests \cup {Nil}] /\ left \in [Procs -> Seq(Bytes)]
      /\ fifo \in Seq(Bytes) /\ Len(fifo) <= PipeSize /\ recv_buf \in Seq(Bytes)
      /\ written \in Seq(Requests)
      /\ \A q \in Procs : writing[q] # Nil => left[q] = Frame[writing[q]]
  BY DEF StreamInv, TypeOK
<1>3. Frame[r] \in Seq(Bytes)
  BY FrameType
<1> DEFINE f == Frame[r]
<1>4. f \in Seq(Bytes) /\ left' = [left EXCEPT ![p] = f]
  BY <1>1, <1>3
<1> HIDE DEF f
<1>5. writing' \in [Procs -> Requests \cup {Nil}] /\ left' \in [Procs -> Seq(Bytes)]
  BY <1>1, <1>2, <1>4
<1>6. TypeOK'
  BY <1>1, <1>2, <1>5 DEF TypeOK
<1>7. ASSUME NEW q \in Procs, writing'[q] # Nil PROVE left'[q] = Frame[writing'[q]]
  <2>1. CASE q = p
    <3>1. writing'[q] = r /\ left'[q] = f
      BY <2>1, <1>1, <1>2, <1>4
    <3> QED
      BY <3>1 DEF f
  <2>2. CASE q # p
    <3>1. writing'[q] = writing[q] /\ left'[q] = left[q]
      BY <2>2, <1>1, <1>2, <1>4
    <3> QED
      BY <3>1, <1>2, <1>7
  <2> QED
    BY <2>1, <2>2
<1>8. StreamFramed'
  BY <1>1 DEF StreamInv, StreamFramed
<1>9. /\ handled' \in Seq(Requests) /\ Len(handled') <= Len(written')
      /\ \A i \in 1 .. Len(handled') : handled'[i] = written'[i]
  BY <1>1 DEF StreamInv
<1> QED
  BY <1>6, <1>7, <1>8, <1>9 DEF StreamInv

(* A frame enters the pipe in one piece, since it is no longer than        *)
(* PIPE_BUF.                                                               *)
LEMMA WriteWhole ==
  ASSUME FramesFit, StreamInv, NEW p \in Procs, write_exact(p)
  PROVE  /\ writing[p] \in Requests /\ writing' = [writing EXCEPT ![p] = Nil]
         /\ left' = [left EXCEPT ![p] = <<>>]
         /\ fifo' = Cat(fifo, Frame[writing[p]]) /\ Len(fifo') <= PipeSize
         /\ written' = Append(written, writing[p])
         /\ recv_buf' = recv_buf /\ handled' = handled
<1> DEFINE r == writing[p]
           f == Frame[r]
           l == left[p]
<1>1. r \in Requests /\ l = f
  BY DEF StreamInv, TypeOK, write_exact
<1>2. f \in Seq(Bytes) /\ Len(f) \in Nat /\ Len(f) <= PIPE_BUF
  <2>1. f \in Seq(Bytes)
    BY <1>1, FrameType
  <2>2. Len(f) <= PIPE_BUF
    BY <1>1 DEF FramesFit
  <2> HIDE DEF f
  <2> QED
    BY <2>1, <2>2
<1>3. PICK k \in Pieces(Len(f), Len(l)) :
        /\ Len(fifo) + k <= PipeSize
        /\ fifo' = fifo \o SubSeq(l, 1, k)
        /\ left' = [left EXCEPT ![p] = SubSeq(@, k + 1, Len(@))]
        /\ IF k = Len(l)
           THEN /\ writing' = [writing EXCEPT ![p] = Nil]
                /\ written' = Append(written, r)
           ELSE UNCHANGED <<writing, written>>
  BY DEF write_exact
<1>4. k = Len(f)
  <2>1. k \in Pieces(Len(f), Len(f))
    BY <1>1
  <2> HIDE DEF f
  <2> QED
    BY <1>2, <2>1 DEF Pieces
<1>5. SubSeq(l, 1, k) = f /\ SubSeq(l, k + 1, Len(l)) = <<>>
  <2>1. SubSeq(f, 1, Len(f)) = f
    BY <1>2, SubSeqFull
  <2>2. SubSeq(f, Len(f) + 1, Len(f)) = <<>>
    <3> DEFINE n == Len(f)
    <3>1. n \in Int /\ n + 1 \in Int /\ n < n + 1
      BY <1>2
    <3> HIDE DEF n
    <3>2. SubSeq(f, n + 1, n) = <<>>
      BY <3>1, SubSeqEmpty
    <3> QED
      BY <3>2 DEF n
  <2> QED
    BY <1>1, <1>4, <2>1, <2>2
<1>6. fifo' = Cat(fifo, f)
  BY <1>3, <1>5 DEF Cat
<1>7. Len(fifo') <= PipeSize
  <2>1. fifo \in Seq(Bytes)
    BY DEF StreamInv, TypeOK
  <2> HIDE DEF f
  <2>2. IsCat(Cat(fifo, f), fifo, f)
    BY <1>2, <2>1, CatElements
  <2> QED
    BY <1>3, <1>4, <1>6, <2>2 DEF IsCat
<1>8. left' = [left EXCEPT ![p] = <<>>]
  <2>1. left' = [left EXCEPT ![p] = SubSeq(l, k + 1, Len(l))]
    BY <1>3
  <2> QED
    BY <2>1, <1>5
<1>9. writing' = [writing EXCEPT ![p] = Nil] /\ written' = Append(written, r)
  BY <1>1, <1>3, <1>4
<1>10. recv_buf' = recv_buf /\ handled' = handled
  BY DEF write_exact
<1> QED
  BY <1>1, <1>6, <1>7, <1>8, <1>9, <1>10

(* The queue that is written to. *)
LEMMA WritePuts ==
  ASSUME FramesFit, StreamInv, NEW p \in Procs, write_exact(p)
  PROVE  Unhandled' = Append(Unhandled, writing[p])
<1> DEFINE r == writing[p]
           k == Len(handled)
<1>1. r \in Requests /\ written' = Append(written, r) /\ handled' = handled
  BY WriteWhole
<1>2. written \in Seq(Requests) /\ k \in Nat /\ k <= Len(written)
  BY InvFacts DEF StreamInv, TypeOK
<1>3. Rest(Append(written, r), k) = Append(Rest(written, k), r)
  <2> HIDE DEF r, k
  <2> QED
    BY <1>1, <1>2, RestAppend
<1> QED
  BY <1>1, <1>3 DEF Unhandled, Rest

(* The frame goes to the end of the bytes, the request to the end of the   *)
(* queue.                                                                  *)
LEMMA WriteInv ==
  ASSUME FramesFit, StreamInv, NEW p \in Procs, write_exact(p)
  PROVE  StreamInv'
<1> DEFINE r == writing[p]
           f == Frame[r]
<1>1. /\ r \in Requests /\ writing' = [writing EXCEPT ![p] = Nil]
      /\ left' = [left EXCEPT ![p] = <<>>]
      /\ fifo' = Cat(fifo, f) /\ Len(fifo') <= PipeSize
      /\ written' = Append(written, r)
      /\ recv_buf' = recv_buf /\ handled' = handled
  BY WriteWhole
<1>2. /\ writing \in [Procs -> Requests \cup {Nil}] /\ left \in [Procs -> Seq(Bytes)]
      /\ fifo \in Seq(Bytes) /\ recv_buf \in Seq(Bytes) /\ written \in Seq(Requests)
      /\ \A q \in Procs : writing[q] # Nil => left[q] = Frame[writing[q]]
      /\ handled \in Seq(Requests) /\ Len(handled) <= Len(written)
      /\ \A i \in 1 .. Len(handled) : handled[i] = written[i]
  BY DEF StreamInv, TypeOK
<1>3. f \in Seq(Bytes)
  BY <1>1, FrameType
<1>4. Cat(fifo, f) \in Seq(Bytes)
  <2> HIDE DEF f
  <2> QED
    BY <1>2, <1>3, CatElements
<1> HIDE DEF r, f
<1>5. /\ written' \in Seq(Requests) /\ Len(written') = Len(written) + 1
      /\ \A i \in 1 .. Len(written) : written'[i] = written[i]
  BY <1>1, <1>2, AppendProperties
<1>6. writing' \in [Procs -> Requests \cup {Nil}] /\ left' \in [Procs -> Seq(Bytes)]
  BY <1>1, <1>2
<1>7. TypeOK'
  BY <1>1, <1>2, <1>4, <1>5, <1>6 DEF TypeOK
<1>8. ASSUME NEW q \in Procs, writing'[q] # Nil PROVE left'[q] = Frame[writing'[q]]
  <2>1. q # p
    BY <1>1, <1>2, <1>8
  <2>2. writing'[q] = writing[q] /\ left'[q] = left[q]
    BY <2>1, <1>1, <1>2
  <2> QED
    BY <2>2, <1>2, <1>8
<1>9. /\ handled' \in Seq(Requests) /\ Len(handled') <= Len(written')
      /\ \A i \in 1 .. Len(handled') : handled'[i] = written'[i]
  <2> DEFINE k == Len(handled)
             n == Len(written)
  <2>1. k \in Nat /\ n \in Nat /\ k <= n /\ Len(written') = n + 1
    BY <1>2, <1>5
  <2>2. \A i \in 1 .. k : i \in 1 .. n
    BY <2>1
  <2>3. \A i \in 1 .. n : written'[i] = written[i]
    BY <1>5
  <2>4. k <= n + 1
    <3> HIDE DEF k, n
    <3> QED
      BY <2>1
  <2>5. \A i \in 1 .. k : handled[i] = written'[i]
    BY <1>2, <2>2, <2>3
  <2> QED
    BY <1>1, <1>2, <2>1, <2>4, <2>5
<1>10. StreamFramed'
  <2>1. Unhandled' = Append(Unhandled, r)
    BY WritePuts DEF r
  <2>2. /\ Unhandled \in Seq(Requests) /\ Cat(recv_buf, fifo) = Stream(Unhandled)
    BY InvFacts
  <2>3. Stream(Append(Unhandled, r)) = Cat(Stream(Unhandled), f)
    BY <1>1, <2>2, StreamAppend DEF f
  <2>4. Cat(Cat(recv_buf, fifo), f) = Cat(recv_buf, Cat(fifo, f))
    <3> DEFINE L == Seq(Bytes)
    <3>1. \A a, b, c \in L : Cat(Cat(a, b), c) = Cat(a, Cat(b, c))
      BY CatFacts
    <3>2. recv_buf \in L /\ fifo \in L /\ f \in L
      BY <1>2, <1>3 DEF f
    <3> HIDE DEF L
    <3> QED
      BY <3>1, <3>2
  <2>5. Cat(recv_buf', fifo') = Stream(Unhandled')
    BY <1>1, <2>1, <2>2, <2>3, <2>4
  <2> QED
    BY <2>5 DEF StreamFramed, Cat, Unhandled, Rest
<1> QED
  BY <1>7, <1>8, <1>9, <1>10 DEF StreamInv

(* read() moves bytes from the pipe to the end of recv_buf. *)
LEMMA ReadInv ==
  ASSUME FramesFit, StreamInv, run_read
  PROVE  StreamInv'
<1> DEFINE n == SE!Min({ReadSize, Len(fifo)})
           a == SubSeq(fifo, 1, n)
           b == SubSeq(fifo, n + 1, Len(fifo))
<1>1. /\ recv_buf' = recv_buf \o a /\ fifo' = b
      /\ writing' = writing /\ left' = left /\ written' = written /\ handled' = handled
  BY DEF run_read
<1>2. /\ writing \in [Procs -> Requests \cup {Nil}] /\ left \in [Procs -> Seq(Bytes)]
      /\ fifo \in Seq(Bytes) /\ Len(fifo) <= PipeSize
      /\ recv_buf \in Seq(Bytes) /\ written \in Seq(Requests)
  BY DEF StreamInv, TypeOK
<1>3. n \in 0 .. Len(fifo)
  <2> DEFINE m == Len(fifo)
             S == {ReadSize, m}
  <2>1. m \in Nat /\ ReadSize \in Nat
    BY <1>2, StreamAssumption
  <2> HIDE DEF m
  <2>2. \E x \in S : \A y \in S : x <= y
    BY <2>1
  <2>3. n = CHOOSE x \in S : \A y \in S : x <= y
    BY DEF SE!Min, m
  <2> HIDE DEF n
  <2>4. n \in S /\ \A y \in S : n <= y
    <3> HIDE DEF S
    <3> QED
      BY <2>2, <2>3
  <2>5. n \in 0 .. m
    BY <2>1, <2>4
  <2> QED
    BY <2>5 DEF m
<1> HIDE DEF n
<1>4. a \in Seq(Bytes) /\ b \in Seq(Bytes) /\ Cat(a, b) = fifo /\ Len(a) = n
  BY <1>2, <1>3, Cut
<1> HIDE DEF a, b
<1>5. recv_buf' = Cat(recv_buf, a)
  BY <1>1 DEF Cat
<1>6. Cat(Cat(recv_buf, a), b) = Cat(recv_buf, fifo) /\ Cat(recv_buf, a) \in Seq(Bytes)
  <2> DEFINE L == Seq(Bytes)
  <2>1. /\ \A x, y, z \in L : Cat(Cat(x, y), z) = Cat(x, Cat(y, z))
        /\ \A x, y \in L : Cat(x, y) \in L
    BY CatFacts
  <2>2. recv_buf \in L /\ a \in L /\ b \in L
    BY <1>2, <1>4
  <2> HIDE DEF L
  <2>3. Cat(Cat(recv_buf, a), b) = Cat(recv_buf, Cat(a, b)) /\ Cat(recv_buf, a) \in L
    BY <2>1, <2>2
  <2> QED
    BY <2>3, <1>4 DEF L
<1>7. Len(b) <= PipeSize
  <2>1. IsCat(fifo, a, b)
    BY <1>4, CatElements
  <2> DEFINE x == Len(a)
             y == Len(b)
             z == Len(fifo)
  <2>2. x \in Nat /\ y \in Nat /\ z = x + y /\ z <= PipeSize
    BY <1>2, <2>1 DEF IsCat
  <2> HIDE DEF x, y, z
  <2>3. y <= PipeSize
    BY <2>2, StreamAssumption
  <2> QED
    BY <2>3 DEF y
<1>8. TypeOK'
  BY <1>1, <1>2, <1>4, <1>5, <1>6, <1>7 DEF TypeOK
<1>9. StreamFramed'
  <2>1. Cat(recv_buf', fifo') = Stream(Unhandled)
    BY <1>1, <1>5, <1>6, InvFacts
  <2>2. Unhandled' = Unhandled
    BY <1>1 DEF Unhandled, Rest
  <2>3. Cat(recv_buf', fifo') = Stream(Unhandled')
    BY <2>1, <2>2
  <2> QED
    BY <2>3 DEF StreamFramed, Cat, Unhandled, Rest
<1>10. /\ \A p \in Procs : writing'[p] # Nil => left'[p] = Frame[writing'[p]]
       /\ handled' \in Seq(Requests) /\ Len(handled') <= Len(written')
       /\ \A i \in 1 .. Len(handled') : handled'[i] = written'[i]
  BY <1>1 DEF StreamInv
<1> QED
  BY <1>8, <1>9, <1>10 DEF StreamInv

(* A frame that is there is that of the oldest request, the handler gets   *)
(* that request, and the bytes left are those of the other requests.       *)
LEMMA FrameTaken ==
  ASSUME FramesFit, StreamInv, run_frame
  PROVE  /\ Unhandled # <<>> /\ Head(Unhandled) \in Requests
         /\ Unhandled' = Tail(Unhandled)
         /\ handled' = Append(handled, Head(Unhandled))
         /\ Len(handled) + 1 <= Len(written)
         /\ Head(Unhandled) = written[Len(handled) + 1]
         /\ recv_buf' \in Seq(Bytes) /\ Cat(recv_buf', fifo) = Stream(Tail(Unhandled))
<1> DEFINE b == recv_buf
           q == Unhandled
           k == Len(handled)
           n == FrameLen(recv_buf)
<1>1. /\ b \in Seq(Bytes) /\ fifo \in Seq(Bytes) /\ q \in Seq(Requests)
      /\ Cat(b, fifo) = Stream(q) /\ k \in Nat /\ k <= Len(written)
  BY InvFacts
<1>2. /\ Len(b) >= 5 /\ Len(b) >= n
      /\ handled' = Append(handled, handle_request(b[1], SubSeq(b, 6, n)))
      /\ recv_buf' = SubSeq(b, n + 1, Len(b)) /\ written' = written
  BY DEF run_frame, FrameReady
<1>3. handled \in Seq(Requests) /\ written \in Seq(Requests) /\ Len(b) \in Nat
  BY <1>1 DEF StreamInv, TypeOK
<1>4. q # <<>>
  <2> SUFFICES ASSUME q = <<>> PROVE FALSE
    OBVIOUS
  <2> HIDE DEF b, n
  <2>1. Cat(b, fifo) = <<>>
    BY <1>1, StreamEmpty
  <2>2. IsCat(<<>>, b, fifo)
    BY <1>1, <2>1, CatElements
  <2>3. Len(b) + Len(fifo) = 0 /\ Len(fifo) \in Nat
    BY <2>2 DEF IsCat
  <2> QED
    BY <1>2, <1>3, <2>3
<1> DEFINE r == Head(q)
           t == Stream(Tail(q))
           f == Frame[r]
<1>5. r \in Requests /\ Tail(q) \in Seq(Requests) /\ Stream(q) = Cat(f, t)
  <2> HIDE DEF q
  <2> QED
    BY <1>1, <1>4, StreamHead
<1>6. t \in Seq(Bytes)
  BY <1>5, StreamType
<1>7. IsFrame(f, CommandType[r[1]], Payload(r))
  BY <1>5, FrameFacts
<1> HIDE DEF b, n
<1>8. f \in Seq(Bytes) /\ Len(f) \in Nat /\ Len(f) >= 5
  <2> DEFINE m == Len(Payload(r))
             l == Len(f)
  <2>1. f \in Seq(Bytes) /\ m \in Nat /\ l = 5 + m
    BY <1>7 DEF IsFrame
  <2> HIDE DEF m, l
  <2>2. l \in Nat /\ l >= 5
    BY <2>1
  <2> QED
    BY <2>1, <2>2 DEF l
<1> HIDE DEF t, f
<1>9. Cat(b, fifo) = Cat(f, t)
  BY <1>1, <1>5
<1>10. Begins(b, f, 5)
  BY <1>1, <1>2, <1>6, <1>8, <1>9, FrontSame
<1>11. n = Len(f)
  BY <1>7, <1>10, HeaderRead DEF n, b
<1>12. /\ Begins(b, f, Len(f))
       /\ SubSeq(b, Len(f) + 1, Len(b)) \in Seq(Bytes)
       /\ Cat(SubSeq(b, Len(f) + 1, Len(b)), fifo) = t
  <2>1. Len(f) <= Len(b)
    BY <1>2, <1>3, <1>8, <1>11
  <2> QED
    BY <1>1, <1>6, <1>8, <1>9, <2>1, FrontTaken
<1>13. handle_request(b[1], SubSeq(b, 6, n)) = r
  <2>1. Len(f) <= Len(b)
    BY <1>2, <1>3, <1>8, <1>11
  <2> HIDE DEF r
  <2>2. handle_request(b[1], SubSeq(b, 6, Len(f))) = r
    BY <1>1, <1>5, <1>12, <2>1, FrameHandled DEF f
  <2> QED
    BY <1>11, <2>2
<1>14. /\ k + 1 <= Len(written) /\ r = written[k + 1] /\ Tail(q) = Rest(written, k + 1)
  <2> HIDE DEF k
  <2>1. q = Rest(written, k)
    BY DEF Unhandled, k
  <2> QED
    BY <1>1, <1>3, <1>4, <2>1, RestTail
<1>15. handled' = Append(handled, r)
  BY <1>2, <1>13
<1>16. Unhandled' = Tail(q)
  <2> HIDE DEF r
  <2>1. Len(handled') = k + 1
    BY <1>3, <1>5, <1>15, AppendProperties
  <2> QED
    BY <1>2, <1>14, <2>1 DEF Unhandled, Rest
<1>17. recv_buf' \in Seq(Bytes) /\ Cat(recv_buf', fifo) = t
  BY <1>2, <1>11, <1>12
<1> QED
  BY <1>4, <1>5, <1>14, <1>15, <1>16, <1>17 DEF t

(* A turn of the inner loop leaves the invariant. *)
LEMMA FrameInv ==
  ASSUME FramesFit, StreamInv, run_frame
  PROVE  StreamInv'
<1> DEFINE r == Head(Unhandled)
           k == Len(handled)
<1>1. /\ r \in Requests /\ Unhandled' = Tail(Unhandled)
      /\ handled' = Append(handled, r)
      /\ k + 1 <= Len(written) /\ r = written[k + 1]
      /\ recv_buf' \in Seq(Bytes) /\ Cat(recv_buf', fifo) = Stream(Tail(Unhandled))
  BY FrameTaken
<1>2. writing' = writing /\ left' = left /\ fifo' = fifo /\ written' = written
  BY DEF run_frame
<1>3. /\ handled \in Seq(Requests) /\ k \in Nat
      /\ \A i \in 1 .. k : handled[i] = written[i]
  BY DEF StreamInv
<1>4. TypeOK'
  BY <1>1, <1>2 DEF StreamInv, TypeOK
<1> HIDE DEF r
<1>5. /\ handled' \in Seq(Requests) /\ Len(handled') = k + 1
      /\ \A i \in 1 .. k : handled'[i] = handled[i]
      /\ handled'[k + 1] = r
  BY <1>1, <1>3, AppendProperties
<1>6. ASSUME NEW i \in 1 .. k + 1 PROVE handled'[i] = written'[i]
  <2>1. CASE i \in 1 .. k
    BY <2>1, <1>2, <1>3, <1>5
  <2>2. CASE i = k + 1
    BY <2>2, <1>1, <1>2, <1>5
  <2> QED
    BY <2>1, <2>2, <1>3
<1>7. handled' \in Seq(Requests) /\ Len(handled') <= Len(written')
  BY <1>1, <1>2, <1>5
<1>8. \A i \in 1 .. Len(handled') : handled'[i] = written'[i]
  BY <1>5, <1>6
<1>9. \A p \in Procs : writing'[p] # Nil => left'[p] = Frame[writing'[p]]
  BY <1>2 DEF StreamInv
<1>10. Cat(recv_buf', fifo') = Stream(Unhandled')
  BY <1>1, <1>2
<1>11. StreamFramed'
  BY <1>10 DEF StreamFramed, Cat, Unhandled, Rest
<1> QED
  BY <1>4, <1>7, <1>8, <1>9, <1>11 DEF StreamInv

(* StreamInv is inductive as long as every frame fits into PIPE_BUF.       *)
THEOREM StreamInvariance ==
  ASSUME FramesFit
  PROVE  Spec => []StreamInv
<1>1. Init => StreamInv
  BY InitInv
<1>2. ASSUME StreamInv, [Next]_vars PROVE StreamInv'
  <2>1. ASSUME NEW p \in Procs, write_exact(p) PROVE StreamInv'
    BY <1>2, <2>1, WriteInv
  <2>2. ASSUME NEW p \in Procs, NEW r \in Requests, send(p, r) PROVE StreamInv'
    BY <1>2, <2>2, SendInv
  <2>3. CASE run_read
    BY <1>2, <2>3, ReadInv
  <2>4. CASE run_frame
    BY <1>2, <2>4, FrameInv
  <2>5. CASE UNCHANGED vars
    BY <1>2, <2>5 DEF vars, StreamInv, TypeOK, StreamFramed
  <2> QED
    BY <1>2, <2>1, <2>2, <2>3, <2>4, <2>5 DEF Next
<1> QED
  BY <1>1, <1>2, PTL DEF Spec

(* StreamFramed: between the clients and handle_request there are whole    *)
(* frames in order; no byte is lost, doubled or left over, wherever reads  *)
(* cut the frames and however many clients write at once.                  *)
THEOREM FramesStayWhole ==
  ASSUME FramesFit
  PROVE  Spec => []StreamFramed
<1>1. StreamInv => StreamFramed
  BY DEF StreamInv
<1> QED
  BY <1>1, StreamInvariance, PTL

(* HandledWereSent: no handler is ever called for a request that no client *)
(* has sent.  (Frames beyond PIPE_BUF refute it.)                          *)
THEOREM OnlySentAreHandled ==
  ASSUME FramesFit
  PROVE  Spec => []HandledWereSent
<1>1. StreamInv => HandledWereSent
  BY DEF StreamInv, HandledWereSent
<1> QED
  BY <1>1, StreamInvariance, PTL
-----------------------------------------------------------------------------
(* The refinement.                                                         *)

(* Every step of the bytes is a step of the queue, or none. *)
LEMMA QueueStep ==
  ASSUME FramesFit, StreamInv, [Next]_vars
  PROVE  [Queue!Next]_(<<Unhandled, handled>>)
<1>1. ASSUME NEW p \in Procs, write_exact(p) PROVE Queue!Next
  <2>1. Unhandled' = Append(Unhandled, writing[p])
    BY <1>1, WritePuts
  <2>2. writing[p] \in Requests /\ handled' = handled
    BY <1>1, WriteWhole
  <2>3. Queue!Put(writing[p])
    BY <2>1, <2>2 DEF Queue!Put, Unhandled, Rest
  <2> QED
    BY <2>2, <2>3 DEF Queue!Next
<1>2. ASSUME NEW p \in Procs, NEW r \in Requests, send(p, r)
      PROVE  Unhandled' = Unhandled /\ handled' = handled
  BY <1>2 DEF send, Unhandled, Rest
<1>3. CASE run_read
  BY <1>3 DEF run_read, Unhandled, Rest
<1>4. ASSUME run_frame PROVE Queue!Next
  <2>1. /\ Unhandled # <<>> /\ Unhandled' = Tail(Unhandled)
        /\ handled' = Append(handled, Head(Unhandled))
    BY <1>4, FrameTaken
  <2>2. Queue!Get
    BY <2>1 DEF Queue!Get, Unhandled, Rest
  <2> QED
    BY <2>2 DEF Queue!Next
<1>5. CASE UNCHANGED vars
  BY <1>5 DEF vars, Unhandled, Rest
<1> QED
  BY <1>1, <1>2, <1>3, <1>4, <1>5 DEF Next

(* ImplementsQueue: the byte stream with its partial reads implements the  *)
(* queue of whole requests that the server is written against.             *)
THEOREM StreamImplementsQueue ==
  ASSUME FramesFit
  PROVE  Spec => ImplementsQueue
<1>1. Init => Queue!Init
  BY DEF Init, Queue!Init
<1>2. StreamInv /\ [Next]_vars => [Queue!Next]_(<<Unhandled, handled>>)
  BY QueueStep
<1>3. StreamInv /\ [Next]_vars
        => [Queue!Next]_(<<SubSeq(written, Len(handled) + 1, Len(written)), handled>>)
  BY <1>2 DEF Unhandled, Rest
<1> QED
  BY <1>1, <1>3, StreamInvariance, PTL DEF Spec, ImplementsQueue, Queue!Spec
=============================================================================
