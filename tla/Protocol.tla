------------------------------ MODULE Protocol -------------------------------
(***************************************************************************)
(* The wire format (protocol/Protocol.cpp).  A frame is a sequence of      *)
(* bytes.  A request is a tuple of its command and its arguments, numbers  *)
(* or strings of bytes: <<"SUBSCRIBE", pid, client_id, topic, prefix,      *)
(* offset>>.  The eight serialisers differ in the fields they write and    *)
(* the eight parsers in the fields they read: both follow Layout.          *)
(*                                                                         *)
(* A uint32_t has four bytes.  How many values a byte has is a parameter,  *)
(* because 2^32 is beyond TLC's integers.                                  *)
(***************************************************************************)
EXTENDS Integers, Sequences
SE == INSTANCE SequencesExt

CONSTANTS
  Byte,              \* 256: values of a byte
  MAX_PAYLOAD_SIZE   \* 1024: limit for key and value together

ASSUME ProtocolAssumption ==
  /\ Byte \in Nat /\ Byte > 8
  /\ MAX_PAYLOAD_SIZE \in Nat

U32 == Byte * Byte * Byte * Byte
Bytes == 0 .. Byte - 1
SHUTDOWN_OFFSET == U32 - 1

write_uint32_le(val) ==
  <<val % Byte, (val \div Byte) % Byte, (val \div (Byte * Byte)) % Byte,
    (val \div (Byte * Byte * Byte)) % Byte>>

(* read_uint32_le(buf + at). *)
read_uint32_le(buf, at) ==
  buf[at + 1] + Byte * (buf[at + 2] + Byte * (buf[at + 3] + Byte * buf[at + 4]))
-----------------------------------------------------------------------------
(* Requests.                                                               *)

CommandType ==
  [CREATE |-> 1, LIST |-> 2, INFO |-> 3, CONNECT |-> 4,
   PRODUCE |-> 5, SUBSCRIBE |-> 6, ACK |-> 7, DISCONNECT |-> 8]
Commands == DOMAIN CommandType

(* A uint32, a string after its length, or a string up to the end. *)
Layout ==
  [CREATE     |-> <<"uint32", "rest">>,
   LIST       |-> <<"uint32">>,
   INFO       |-> <<"uint32", "rest">>,
   CONNECT    |-> <<"uint32", "rest">>,
   PRODUCE    |-> <<"string", "string", "string">>,
   SUBSCRIBE  |-> <<"uint32", "string", "string", "string", "uint32">>,
   ACK        |-> <<"string", "uint32">>,
   DISCONNECT |-> <<"string">>]

(* The bytes of a payload that are not characters, as every serialiser     *)
(* writes them down before it adds the sizes of the strings.               *)
FixedSize ==
  [CREATE |-> 4, LIST |-> 4, INFO |-> 4, CONNECT |-> 4,
   PRODUCE |-> 12, SUBSCRIBE |-> 20, ACK |-> 8, DISCONNECT |-> 4]

payload_len(request) ==
  LET fields == Layout[request[1]]
      size[i \in 0 .. Len(fields)] ==
        IF i = 0 THEN FixedSize[request[1]]
        ELSE size[i - 1] + IF fields[i] = "uint32" THEN 0 ELSE Len(request[i + 1])
  IN  size[Len(fields)] % U32

Encoded(field, arg) ==
  CASE field = "uint32" -> write_uint32_le(arg)
    [] field = "string" -> write_uint32_le(Len(arg) % U32) \o arg
    [] field = "rest"   -> arg

serialize(request) ==
  LET fields == Layout[request[1]]
  IN  <<CommandType[request[1]]>> \o write_uint32_le(payload_len(request))
        \o SE!FlattenSeq([i \in DOMAIN fields |-> Encoded(fields[i], request[i + 1])])

(* Where a field that begins after at bytes ends, whether it fits into the *)
(* payload (the parsers return false if not), and what it says.            *)
End(buf, at, field) ==
  CASE field = "uint32" -> at + 4
    [] field = "string" -> at + 4 + read_uint32_le(buf, at)
    [] field = "rest"   -> Len(buf)

Fits(buf, at, field) ==
  field # "rest" => at + 4 <= Len(buf) /\ End(buf, at, field) <= Len(buf)

Value(buf, at, field) ==
  CASE field = "uint32" -> read_uint32_le(buf, at)
    [] field = "string" -> SubSeq(buf, at + 5, End(buf, at, field))
    [] field = "rest"   -> SubSeq(buf, at + 1, Len(buf))

(* Mutant: the limit itself is refused. *)
BelowLimit(key, val) == (Len(key) + Len(val)) % U32 < MAX_PAYLOAD_SIZE

(* key_len + val_len, in 32 bits. *)
WithinLimit(key, val) == (Len(key) + Len(val)) % U32 <= MAX_PAYLOAD_SIZE

(* The request in a payload whose fields fill it exactly: a set of one     *)
(* request, or empty where the parser returns false.                       *)
parse(command, buf) ==
  LET fields == Layout[command]
      parses[i \in 0 .. Len(fields)] ==
        IF i = 0 THEN {[at |-> 0, request |-> <<command>>]}
        ELSE {[at |-> End(buf, st.at, fields[i]),
               request |-> Append(st.request, Value(buf, st.at, fields[i]))] :
                st \in {s \in parses[i - 1] : Fits(buf, s.at, fields[i])}}
  IN  {st.request : st \in {s \in parses[Len(fields)] :
         /\ s.at = Len(buf)
         /\ command = "PRODUCE" => WithinLimit(s.request[3], s.request[4])}}
-----------------------------------------------------------------------------
(* Deliveries.                                                             *)

(* Mutant: the two lengths change places. *)
serialize_delivery_Swapped(offset, key, val) ==
  write_uint32_le(offset) \o write_uint32_le(Len(val) % U32)
    \o write_uint32_le(Len(key) % U32) \o key \o val

serialize_delivery(offset, key, val) ==
  write_uint32_le(offset) \o write_uint32_le(Len(key) % U32)
    \o write_uint32_le(Len(val) % U32) \o key \o val

serialize_shutdown == serialize_delivery(SHUTDOWN_OFFSET, <<>>, <<>>)

is_shutdown(offset) == offset = SHUTDOWN_OFFSET
=============================================================================
