--------------------------- MODULE ExchangeProofs ----------------------------
(***************************************************************************)
(* What TLAPS proves about Exchange, for all sets of clients, all choices  *)
(* of commands and every capacity of the server's FIFO.                    *)
(***************************************************************************)
EXTENDS Exchange, SequenceTheorems, TLAPS

(* The client has not sent its request yet. *)
Early == {"start", "connect", "write"}

(* What an answer with this status says to client c is true. *)
StatusTrue(c, status) ==
  \/ /\ status = 0
     /\ op[c] = "CREATE" => creator = c
     /\ op[c] = "CONNECT" => creator # Nil
  \/ /\ status = 2
     /\ op[c] # "LIST" /\ creator # c
     /\ op[c] = "CREATE" => creator # Nil

(* A piece of an answer is a true header; those of a LIST say SUCCESS. *)
PieceTrue(c, piece) ==
  IF op[c] = "LIST" THEN piece[2] = 0
  ELSE \E s \in {0, 2} : piece = <<"header", s>> /\ StatusTrue(c, s)

(* The byte of stop() never gets into the FIFO: its file is gone by then. *)
NoWakeByte == queue \in Seq(Request)

(* A request in the FIFO or in recv_buf is the one its client has sent,    *)
(* and a CREATE there has not been carried out.                            *)
RequestInv ==
  \A c \in Clients, o \in {"CREATE", "LIST", "CONNECT", "PRODUCE"} :
    Pending(c, o) =>
      /\ pc[c] \notin Early
      /\ o # "PRODUCE" => op[c] = o
      /\ o = "PRODUCE" => op[c] = "CONNECT" /\ records[c] > 0
      /\ o = "CREATE" => creator # c

(* No CREATE is there twice. *)
CreateOnce ==
  /\ \A s \in {queue, recv_buf} : \A i, j \in 1 .. Len(s) :
       s[i].op = "CREATE" /\ s[i] = s[j] => i = j
  /\ \A i \in 1 .. Len(queue), j \in 1 .. Len(recv_buf) :
       queue[i].op = "CREATE" => queue[i] # recv_buf[j]

(* Answers are for clients that have sent a request, and true. *)
AnswerInv ==
  /\ handling # Nil =>
       /\ pc[handling.c] \notin Early /\ handling.pieces # <<>>
       /\ \A i \in 1 .. Len(handling.pieces) : PieceTrue(handling.c, handling.pieces[i])
  /\ \A c \in Clients :
       /\ pc[c] \in Early => inbox[c] = <<>>
       /\ \A i \in 1 .. Len(inbox[c]) : PieceTrue(c, inbox[c][i])

(* Only a CREATE makes the topic, only a producer publishes, and only      *)
(* after the request has been sent.                                        *)
EffectInv ==
  \A c \in Clients :
    /\ creator = c => op[c] = "CREATE" /\ pc[c] \notin Early
    /\ published[c] > 0 => op[c] = "CONNECT" /\ records[c] > 0 /\ pc[c] \notin Early

(* The code a client is going to return is true from the moment it is set. *)
CodeTrue(c) ==
  /\ pc[c] = "payload" => op[c] = "LIST"
  /\ pc[c] \in {"close", "unlink", "exited"} =>
       /\ code[c] \in {0, 2} => StatusTrue(c, code[c])
       /\ code[c] = 1 => creator # c /\ ~Pending(c, "CREATE")
  /\ pc[c] \in {"reconnect", "input", "publish"} =>
       op[c] = "CONNECT" /\ code[c] = 0 /\ creator # Nil

CodeInv == \A c \in Clients : CodeTrue(c)

(* The strengthening under which ExitCodeTells is inductive. *)
ExchangeInv ==
  /\ TypeOK /\ NoWakeByte /\ NothingLeftBehind
  /\ RequestInv /\ CreateOnce /\ AnswerInv /\ EffectInv /\ CodeInv

-----------------------------------------------------------------------------
(* Types, and what is left in the file system.                             *)

(* send_response builds an answer that is not empty, one header unless it  *)
(* answers a LIST, and never a failure then.                               *)
LEMMA AnswerFacts ==
  ASSUME NEW r \in Request
  PROVE  /\ Answer(r) \in Seq(Piece) /\ Answer(r) # <<>>
         /\ r.op # "LIST" => Answer(r) = <<<<"header", Status(r)>>>>
         /\ r.op = "LIST" => \A i \in 1 .. Len(Answer(r)) : Answer(r)[i][2] = 0
<1>1. Status(r) \in {0, 2} /\ StatusCode.SUCCESS = 0 /\ (r.op = "LIST" => Status(r) = 0)
  BY DEF Status, StatusCode
<1>2. <<"header", Status(r)>> \in Piece /\ <<"announce", 0>> \in Piece /\ <<"payload", 0>> \in Piece
  BY <1>1 DEF Piece
<1>3. CASE r.op = "LIST" /\ creator # Nil
  <2>1. Answer(r) = <<<<"announce", 0>>, <<"payload", 0>>>>
    BY <1>1, <1>3 DEF Answer
  <2>2. /\ Len(Answer(r)) = 2 /\ Answer(r)[1] = <<"announce", 0>>
        /\ Answer(r)[2] = <<"payload", 0>> /\ Answer(r) \in Seq(Piece)
    BY <1>2, <2>1
  <2>3. \A i \in 1 .. Len(Answer(r)) : i = 1 \/ i = 2
    BY <2>2
  <2> QED
    BY <1>3, <2>2, <2>3
<1>4. CASE ~(r.op = "LIST" /\ creator # Nil)
  <2>1. Answer(r) = <<<<"header", Status(r)>>>>
    BY <1>4 DEF Answer
  <2>2. Len(Answer(r)) = 1 /\ Answer(r)[1] = <<"header", Status(r)>> /\ Answer(r) \in Seq(Piece)
    BY <1>2, <2>1
  <2> QED
    BY <1>1, <2>1, <2>2
<1> QED
  BY <1>3, <1>4

(* The first piece of what is being sent is a piece, and so is the rest. *)
LEMMA HandlingFacts ==
  ASSUME TypeOK, handling # Nil
  PROVE  /\ handling.c \in Clients /\ handling.pieces \in Seq(Piece)
         /\ handling.fd \in BOOLEAN
         /\ handling.pieces # <<>> => /\ Head(handling.pieces) \in Piece
                                      /\ Tail(handling.pieces) \in Seq(Piece)
<1>1. handling \in [c : Clients, pieces : Seq(Piece), fd : BOOLEAN]
  BY DEF TypeOK
<1>2. handling.c \in Clients /\ handling.pieces \in Seq(Piece) /\ handling.fd \in BOOLEAN
  BY <1>1
<1> QED
  BY <1>2, HeadTailProperties

(* The types, without the byte that is never written. *)
Typed == TypeOK /\ NoWakeByte /\ NothingLeftBehind

(* The types hold at the start. *)
LEMMA TypedInit == Init => Typed
<1> SUFFICES ASSUME Init PROVE Typed
  OBVIOUS
<1>1. /\ queue \in Seq(Request \cup {WakeByte}) /\ queue \in Seq(Request) /\ Len(queue) <= Capacity
      /\ recv_buf \in Seq(Request)
  BY ExchangeAssumption DEF Init
<1>2. inbox \in [Clients -> Seq(Piece)]
  BY DEF Init
<1>3. /\ op \in [Clients -> {"CREATE", "LIST", "CONNECT", Nil}]
      /\ \A c \in Clients : op[c] \in IF pc[c] = "start" THEN {Nil} ELSE Ops[c]
  BY DEF Init
<1>4. NothingLeftBehind
  BY DEF Init, NothingLeftBehind
<1>5. /\ server \in {"absent", "made", "open", "unlinked", "woken", "closed", "gone"}
      /\ ipc_path \in BOOLEAN
      /\ handling \in {Nil} \cup [c : Clients, pieces : Seq(Piece), fd : BOOLEAN]
      /\ creator \in Clients \cup {Nil} /\ published \in [Clients -> Nat]
  BY DEF Init
<1>6. /\ pc \in [Clients -> {"start", "connect", "write", "header", "payload", "close", "unlink",
                         "reconnect", "input", "publish", "exited", "crashed"}]
      /\ fifo \in [Clients -> {"none", "read", "unread"}]
      /\ code \in [Clients -> 0 .. 3] /\ records \in [Clients -> Nat]
  BY ExchangeAssumption DEF Init
<1> QED
  BY <1>1, <1>2, <1>3, <1>4, <1>5, <1>6 DEF Typed, TypeOK, NoWakeByte

(* The server's steps preserve the types; those of stop() find the file of *)
(* the FIFO gone, and write nothing into it.                               *)
LEMMA TypedServer ==
  ASSUME Typed, AnswerInv, Serve \/ Stop \/ crash
  PROVE  Typed'
<1> USE DEF clientVars
<1>0. TypeOK /\ NoWakeByte /\ NothingLeftBehind
  BY DEF Typed
<1>1. CASE make_fifo \/ open_fifo \/ stop_unlink \/ exit
  BY <1>0, <1>1
  DEF make_fifo, open_fifo, stop_unlink, exit, Typed, TypeOK, NoWakeByte, NothingLeftBehind
<1>2. CASE read_requests
  <2>1. queue' = <<>> /\ queue' \in Seq(Request) /\ queue' \in Seq(Request \cup {WakeByte})
        /\ Len(queue') <= Capacity /\ recv_buf' \in Seq(Request)
    BY <1>0, <1>2, ExchangeAssumption DEF read_requests, NoWakeByte
  <2> QED
    BY <1>0, <1>2, <2>1 DEF read_requests, Typed, TypeOK, NoWakeByte, NothingLeftBehind
<1>3. CASE handle_request
  <2> DEFINE r == Head(recv_buf)
  <2>1. r \in Request /\ Tail(recv_buf) \in Seq(Request) /\ recv_buf' = Tail(recv_buf)
    BY <1>0, <1>3, HeadTailProperties DEF handle_request, TypeOK
  <2>2. r.c \in Clients /\ Answer(r) \in Seq(Piece)
    BY <2>1, AnswerFacts DEF Request
  <2>3. handling' \in {Nil} \cup [c : Clients, pieces : Seq(Piece), fd : BOOLEAN]
    BY <1>3, <2>2 DEF handle_request
  <2>4. creator' \in Clients \cup {Nil} /\ published' \in [Clients -> Nat]
    <3>1. creator' \in Clients \cup {Nil}
      BY <1>0, <1>3, <2>2 DEF handle_request, TypeOK
    <3>2. published' = published \/ Count(r)
      BY <1>3 DEF handle_request
    <3>3. published \in [Clients -> Nat] /\ (Count(r) => published' \in [Clients -> Nat])
      <4> HIDE DEF r
      <4>1. published \in [Clients -> Nat] /\ published[r.c] + 1 \in Nat
        BY <1>0, <2>2 DEF TypeOK
      <4>2. Count(r) => published' = [published EXCEPT ![r.c] = published[r.c] + 1]
        BY DEF Count
      <4> QED
        BY <2>2, <4>1, <4>2
    <3> QED
      BY <3>1, <3>2, <3>3
  <2> QED
    BY <1>0, <1>3, <2>1, <2>3, <2>4
    DEF handle_request, Typed, TypeOK, NoWakeByte, NothingLeftBehind
<1>4. CASE respond_open
  <2>1. handling' \in {Nil} \cup [c : Clients, pieces : Seq(Piece), fd : BOOLEAN]
    BY <1>0, <1>4 DEF respond_open, TypeOK
  <2> QED
    BY <1>0, <1>4, <2>1 DEF respond_open, Typed, TypeOK, NoWakeByte, NothingLeftBehind
<1>5. CASE respond_write
  <2>1. /\ handling # Nil /\ handling.c \in Clients
        /\ Head(handling.pieces) \in Piece /\ Tail(handling.pieces) \in Seq(Piece)
    BY <1>0, <1>5, HandlingFacts DEF respond_write, AnswerInv
  <2>2. handling' \in {Nil} \cup [c : Clients, pieces : Seq(Piece), fd : BOOLEAN]
    BY <1>0, <1>5, <2>1 DEF respond_write, TypeOK
  <2>3. inbox' \in [Clients -> Seq(Piece)]
    <3>1. inbox \in [Clients -> Seq(Piece)] /\ inbox[handling.c] \in Seq(Piece)
      BY <1>0, <2>1 DEF TypeOK
    <3>2. Append(inbox[handling.c], Head(handling.pieces)) \in Seq(Piece)
      BY <2>1, <3>1, AppendProperties
    <3>3. \/ inbox' = inbox
          \/ inbox' = [inbox EXCEPT ![handling.c] =
                         Append(inbox[handling.c], Head(handling.pieces))]
      BY <1>5 DEF respond_write
    <3> QED
      BY <3>1, <3>2, <3>3
  <2> QED
    BY <1>0, <1>5, <2>2, <2>3 DEF respond_write, Typed, TypeOK, NoWakeByte, NothingLeftBehind
<1>6. CASE stop_wake
  <2>1. queue' = queue
    BY <1>0, <1>6 DEF stop_wake, NothingLeftBehind
  <2> QED
    BY <1>0, <1>6, <2>1 DEF stop_wake, Typed, TypeOK, NoWakeByte, NothingLeftBehind
<1>7. CASE stop_close
  <2>1. queue' \in Seq(Request) /\ queue' \in Seq(Request \cup {WakeByte}) /\ Len(queue') <= Capacity
    BY <1>7, ExchangeAssumption DEF stop_close
  <2> QED
    BY <1>0, <1>7, <2>1 DEF stop_close, Typed, TypeOK, NoWakeByte, NothingLeftBehind
<1>8. CASE crash
  <2>1. /\ queue' \in Seq(Request) /\ queue' \in Seq(Request \cup {WakeByte}) /\ Len(queue') <= Capacity
        /\ recv_buf' \in Seq(Request)
    BY <1>8, ExchangeAssumption DEF crash
  <2> QED
    BY <1>0, <1>8, <2>1 DEF crash, Typed, TypeOK, NoWakeByte, NothingLeftBehind
<1> QED
  BY <1>1, <1>2, <1>3, <1>4, <1>5, <1>6, <1>7, <1>8 DEF Serve, Stop

(* A request a client sends is one, and finds room. *)
LEMMA SendsType ==
  ASSUME Typed, NEW c \in Clients,
         NEW o \in {"CREATE", "LIST", "CONNECT", "PRODUCE"}, Sends(c, o)
  PROVE  /\ queue' \in Seq(Request) /\ queue' \in Seq(Request \cup {WakeByte})
         /\ Len(queue') <= Capacity
<1>1. [op |-> o, c |-> c] \in Request
  BY DEF Request
<1>2. /\ queue \in Seq(Request) /\ queue \in Seq(Request \cup {WakeByte})
      /\ Len(queue) < Capacity /\ queue' = Append(queue, [op |-> o, c |-> c])
  BY DEF Sends, Typed, TypeOK, NoWakeByte
<1> QED
  BY <1>1, <1>2, AppendProperties, ExchangeAssumption

(* The places of a client that has started. *)
Started == {"connect", "write", "header", "payload", "close", "unlink",
            "reconnect", "input", "publish", "exited", "crashed"}

(* The types survive when one client moves on, with its file removed where *)
(* it has to be.                                                           *)
LEMMA ClientUpdate ==
  ASSUME Typed, NEW c \in Clients, UNCHANGED serverVars,
         pc' = [pc EXCEPT ![c] = pc'[c]], pc'[c] \in Started,
         op' = [op EXCEPT ![c] = op'[c]], op'[c] \in Ops[c],
         fifo' = [fifo EXCEPT ![c] = fifo'[c]], fifo'[c] \in {"none", "read", "unread"},
         pc'[c] \in {"exited", "reconnect", "input", "publish"} => fifo'[c] = "none",
         records' \in [Clients -> Nat],
         code' = [code EXCEPT ![c] = code'[c]], code'[c] \in 0 .. 3,
         inbox' \in [Clients -> Seq(Piece)],
         queue' \in Seq(Request), queue' \in Seq(Request \cup {WakeByte}),
         Len(queue') <= Capacity
  PROVE  Typed'
<1>0. TypeOK /\ NothingLeftBehind
  BY DEF Typed
<1>1. pc' \in [Clients -> {"start", "connect", "write", "header", "payload", "close", "unlink",
                           "reconnect", "input", "publish", "exited", "crashed"}]
  BY <1>0 DEF TypeOK, Started
<1>2. op'[c] \in {"CREATE", "LIST", "CONNECT"}
  BY ExchangeAssumption
<1>3. op' \in [Clients -> {"CREATE", "LIST", "CONNECT", Nil}]
  BY <1>0, <1>2 DEF TypeOK
<1>4. \A d \in Clients : op'[d] \in IF pc'[d] = "start" THEN {Nil} ELSE Ops[d]
  BY <1>0 DEF TypeOK, Started
<1>5. fifo' \in [Clients -> {"none", "read", "unread"}] /\ code' \in [Clients -> 0 .. 3]
  BY <1>0 DEF TypeOK
<1>6. UNCHANGED <<server, ipc_path, recv_buf, handling, creator, published>>
  BY DEF serverVars
<1>7. TypeOK'
  BY <1>0, <1>1, <1>3, <1>4, <1>5, <1>6 DEF TypeOK
<1>8. NothingLeftBehind'
  BY <1>0, <1>6 DEF NothingLeftBehind, TypeOK
<1> QED
  BY <1>7, <1>8 DEF Typed, NoWakeByte

(* What a client that has started finds in its variables. *)
LEMMA ClientFacts ==
  ASSUME Typed, NEW c \in Clients, pc[c] # "start"
  PROVE  /\ pc[c] \in Started /\ op[c] \in Ops[c] /\ fifo[c] \in {"none", "read", "unread"}
         /\ op[c] \in {"CREATE", "LIST", "CONNECT"}
         /\ code[c] \in 0 .. 3 /\ inbox[c] \in Seq(Piece)
         /\ op = [op EXCEPT ![c] = op[c]] /\ fifo = [fifo EXCEPT ![c] = fifo[c]]
         /\ code = [code EXCEPT ![c] = code[c]]
         /\ pc[c] \in {"exited", "reconnect", "input", "publish"} => fifo[c] = "none"
         /\ records \in [Clients -> Nat]
         /\ inbox \in [Clients -> Seq(Piece)]
         /\ queue \in Seq(Request) /\ queue \in Seq(Request \cup {WakeByte})
         /\ Len(queue) <= Capacity
<1>1. op[c] \in Ops[c]
  BY DEF Typed, TypeOK
<1>2. op[c] \in {"CREATE", "LIST", "CONNECT"}
  BY <1>1, ExchangeAssumption
<1> QED
  BY <1>1, <1>2 DEF Typed, TypeOK, NoWakeByte, NothingLeftBehind, Started

(* The clients' steps preserve the types, and no client returns before its *)
(* FIFO is gone.                                                           *)
LEMMA TypedClient ==
  ASSUME Typed, NEW c \in Clients, create_fifo(c) \/ Command(c) \/ crash_client(c)
  PROVE  Typed'
<1> USE DEF At, Goto, Return, Receive
<1>0. DOMAIN pc = Clients /\ DOMAIN op = Clients /\ DOMAIN fifo = Clients /\ DOMAIN code = Clients
  BY DEF Typed, TypeOK
<1>1. CASE create_fifo(c)
  <2>1. PICK o \in Ops[c] : op' = [op EXCEPT ![c] = o]
    BY <1>1 DEF create_fifo
  <2>2. code[c] \in 0 .. 3 /\ code = [code EXCEPT ![c] = code[c]]
    BY DEF Typed, TypeOK
  <2>3. /\ inbox' \in [Clients -> Seq(Piece)] /\ queue' \in Seq(Request)
        /\ queue' \in Seq(Request \cup {WakeByte}) /\ Len(queue') <= Capacity
        /\ records' \in [Clients -> Nat]
    BY <1>1 DEF create_fifo, Typed, TypeOK, NoWakeByte
  <2> QED
    BY <1>1, <2>1, <2>2, <2>3, ClientUpdate, <1>0 DEF create_fifo, Started
<1>2. CASE connect(c)
  <2>1. pc[c] # "start" /\ (At(c, "connect") \/ fifo[c] = "none")
    BY <1>2 DEF connect, Typed, NothingLeftBehind
  <2> QED
    BY <1>2, <2>1, ClientFacts, ClientUpdate, <1>0 DEF connect, Started
<1>3. CASE connect_times_out(c)
  <2>1. pc[c] # "start" /\ (At(c, "connect") \/ fifo[c] = "none")
    BY <1>3 DEF connect_times_out, Typed, NothingLeftBehind
  <2> QED
    <3>1. CASE At(c, "connect")
      BY <1>3, <2>1, <3>1, ClientFacts, ClientUpdate, <1>0 DEF connect_times_out, Started
    <3>2. CASE At(c, "reconnect")
      BY <1>3, <2>1, <3>2, ClientFacts, ClientUpdate, <1>0 DEF connect_times_out, Started
    <3> QED
      BY <1>3, <3>1, <3>2 DEF connect_times_out
<1>4. CASE write(c)
  <2>1. pc[c] # "start" /\ Sends(c, op[c])
    BY <1>4 DEF write
  <2>2. /\ queue' \in Seq(Request) /\ queue' \in Seq(Request \cup {WakeByte})
        /\ Len(queue') <= Capacity
    BY <2>1, ClientFacts, SendsType
  <2> QED
    BY <1>4, <2>1, <2>2, ClientFacts, ClientUpdate, <1>0 DEF write, Started
<1>5. CASE write_fails(c) \/ read_times_out(c)
  <2>1. pc[c] # "start"
    BY <1>5 DEF write_fails, read_times_out
  <2>2. /\ pc' = [pc EXCEPT ![c] = "close"] /\ code' = [code EXCEPT ![c] = 3]
        /\ UNCHANGED <<serverVars, queue, inbox, op, fifo, records>>
    BY <1>5 DEF write_fails, read_times_out
  <2>3. /\ pc'[c] = "close" /\ pc' = [pc EXCEPT ![c] = pc'[c]]
        /\ code'[c] = 3 /\ code' = [code EXCEPT ![c] = code'[c]]
    BY <1>0, <2>2
  <2>4. /\ op' = [op EXCEPT ![c] = op'[c]] /\ op'[c] \in Ops[c]
        /\ fifo' = [fifo EXCEPT ![c] = fifo'[c]] /\ fifo'[c] \in {"none", "read", "unread"}
        /\ inbox' \in [Clients -> Seq(Piece)] /\ queue' \in Seq(Request)
        /\ queue' \in Seq(Request \cup {WakeByte}) /\ Len(queue') <= Capacity
        /\ records' \in [Clients -> Nat]
    BY <2>1, <2>2, ClientFacts
  <2>5. UNCHANGED serverVars /\ pc'[c] \in Started
        /\ pc'[c] \notin {"exited", "reconnect", "input", "publish"} /\ code'[c] \in 0 .. 3
    BY <2>2, <2>3 DEF Started
  <2> QED
    BY <2>3, <2>4, <2>5, ClientUpdate
<1>6. CASE read_header(c) \/ read_payload(c)
  <2>1. pc[c] # "start" /\ inbox[c] # <<>>
    BY <1>6 DEF read_header, read_payload
  <2>2. inbox' \in [Clients -> Seq(Piece)]
    <3>1. Tail(inbox[c]) \in Seq(Piece)
      BY <2>1, ClientFacts, HeadTailProperties
    <3> QED
      BY <1>6, <2>1, <3>1, ClientFacts DEF read_header, read_payload
  <2>3. PICK n \in 0 .. 3, there \in {"payload", "close"} :
           pc' = [pc EXCEPT ![c] = there] /\ code' = [code EXCEPT ![c] = n]
    BY <1>6, <2>1, ClientFacts DEF read_header, read_payload, exit_code_from_response_code
  <2>4. UNCHANGED <<serverVars, queue, op, fifo, records>>
    BY <1>6 DEF read_header, read_payload
  <2> QED
    BY <2>1, <2>2, <2>3, <2>4, ClientFacts, ClientUpdate, <1>0 DEF Started
<1>7. CASE close_fd(c)
  <2>1. pc[c] # "start" /\ inbox' \in [Clients -> Seq(Piece)]
    BY <1>7 DEF close_fd, Typed, TypeOK
  <2> QED
    BY <1>7, <2>1, ClientFacts, ClientUpdate, <1>0 DEF close_fd, Started
<1>8. CASE close_unlink(c)
  <2>1. pc[c] # "start"
    BY <1>8 DEF close_unlink
  <2> QED
    BY <1>8, <2>1, ClientFacts, ClientUpdate, <1>0 DEF close_unlink, Started
<1>9. CASE publish(c)
  <2>1. pc[c] # "start" /\ fifo[c] = "none"
    BY <1>9 DEF publish, Typed, NothingLeftBehind
  <2>2. /\ queue' \in Seq(Request) /\ queue' \in Seq(Request \cup {WakeByte})
        /\ Len(queue') <= Capacity
    BY <1>9, SendsType DEF publish
  <2>3. records' \in [Clients -> Nat]
    BY <1>9, ExchangeAssumption DEF publish, Typed, TypeOK
  <2> QED
    BY <1>9, <2>1, <2>2, <2>3, ClientFacts, ClientUpdate, <1>0 DEF publish, Started
<1>10. CASE publish_fails(c)
  <2>1. pc[c] # "start" /\ fifo[c] = "none"
    BY <1>10 DEF publish_fails, Typed, NothingLeftBehind
  <2>2. /\ pc'[c] = "exited" /\ pc' = [pc EXCEPT ![c] = pc'[c]]
        /\ code'[c] = 3 /\ code' = [code EXCEPT ![c] = code'[c]]
        /\ UNCHANGED <<serverVars, queue, inbox, op, fifo, records>>
    BY <1>0, <1>10 DEF publish_fails
  <2>3. /\ op' = [op EXCEPT ![c] = op'[c]] /\ op'[c] \in Ops[c]
        /\ fifo' = [fifo EXCEPT ![c] = fifo'[c]] /\ fifo'[c] \in {"none", "read", "unread"}
        /\ inbox' \in [Clients -> Seq(Piece)] /\ queue' \in Seq(Request)
        /\ queue' \in Seq(Request \cup {WakeByte}) /\ Len(queue') <= Capacity
        /\ records' \in [Clients -> Nat]
    BY <2>1, <2>2, ClientFacts
  <2>4. UNCHANGED serverVars /\ pc'[c] \in Started /\ fifo'[c] = "none" /\ code'[c] \in 0 .. 3
    BY <2>1, <2>2 DEF Started
  <2> QED
    BY <2>2, <2>3, <2>4, ClientUpdate
<1>b. CASE read_record(c) \/ end_of_input(c) \/ bad_record(c)
  <2>1. pc[c] = "input" /\ pc[c] # "start" /\ fifo[c] = "none"
    BY <1>b DEF read_record, end_of_input, bad_record, Typed, NothingLeftBehind
  <2>2. PICK there \in {"publish", "exited"}, n \in 0 .. 3 :
           pc' = [pc EXCEPT ![c] = there] /\ code' = [code EXCEPT ![c] = n]
    BY <1>b, <2>1, ClientFacts DEF read_record, end_of_input, bad_record
  <2>3. UNCHANGED <<serverVars, queue, inbox, op, fifo, records>>
    BY <1>b DEF read_record, end_of_input, bad_record
  <2> QED
    BY <1>0, <2>1, <2>2, <2>3, ClientFacts, ClientUpdate DEF Started
<1>11. CASE crash_client(c)
  <2>1. pc[c] # "start" /\ inbox' \in [Clients -> Seq(Piece)]
    BY <1>11 DEF crash_client, Typed, TypeOK
  <2>2. PICK f \in {"none", "read", "unread"} : fifo' = [fifo EXCEPT ![c] = f]
    BY <1>11 DEF crash_client
  <2>3. pc' = [pc EXCEPT ![c] = "crashed"] /\ UNCHANGED <<serverVars, queue, op, records, code>>
    BY <1>11 DEF crash_client
  <2> QED
    BY <2>1, <2>2, <2>3, ClientFacts, ClientUpdate, <1>0 DEF Started
<1> QED
  BY <1>1, <1>2, <1>3, <1>4, <1>5, <1>6, <1>7, <1>8, <1>9, <1>10, <1>b, <1>11 DEF Command

-----------------------------------------------------------------------------
(* The steps, as the invariants see them.                                  *)

(* A step of a client leaves the server and the other clients alone, and   *)
(* sends at most one request.                                              *)
LEMMA ClientStep ==
  ASSUME Typed, NEW c \in Clients, create_fifo(c) \/ Command(c) \/ crash_client(c)
  PROVE  /\ UNCHANGED <<recv_buf, handling, creator, published>>
         /\ \A d \in Clients \ {c} : /\ pc'[d] = pc[d] /\ op'[d] = op[d]
                                     /\ code'[d] = code[d] /\ inbox'[d] = inbox[d]
         /\ \A d \in Clients : records[d] > 0 => records'[d] > 0
         /\ pc[c] \notin {"exited", "crashed"}
         /\ pc[c] # "start" => op'[c] = op[c]
         /\ pc[c] \notin Early => pc'[c] \notin Early
         /\ pc'[c] # "start"
         /\ \/ UNCHANGED queue
            \/ pc[c] = "write" /\ Sends(c, op[c]) /\ pc'[c] = "header"
            \/ /\ pc[c] = "publish" /\ Sends(c, "PRODUCE")
               /\ pc'[c] = "input" /\ records'[c] > 0
<1> USE DEF At, Goto, Return, Receive, serverVars, Early
<1>0. /\ DOMAIN pc = Clients /\ DOMAIN op = Clients /\ DOMAIN code = Clients
      /\ DOMAIN inbox = Clients /\ records \in [Clients -> Nat]
      /\ MaxRecords \in Nat
  BY ExchangeAssumption DEF Typed, TypeOK
<1>1. CASE create_fifo(c) \/ crash_client(c)
  BY <1>0, <1>1 DEF create_fifo, crash_client
<1>2. CASE connect(c) \/ connect_times_out(c)
  BY <1>0, <1>2 DEF connect, connect_times_out
<1>3. CASE write(c) \/ write_fails(c)
  BY <1>0, <1>3 DEF write, write_fails
<1>4. CASE read_header(c) \/ read_payload(c) \/ read_times_out(c)
  BY <1>0, <1>4 DEF read_header, read_payload, read_times_out
<1>5. CASE close_fd(c) \/ close_unlink(c)
  BY <1>0, <1>5 DEF close_fd, close_unlink
<1>6. CASE read_record(c) \/ end_of_input(c) \/ bad_record(c) \/ publish_fails(c)
  BY <1>0, <1>6 DEF read_record, end_of_input, bad_record, publish_fails
<1>7. CASE publish(c)
  <2>1. records' = [records EXCEPT ![c] = records[c] + 1] /\ pc[c] = "publish"
    BY <1>7 DEF publish
  <2>2. records'[c] > 0 /\ \A d \in Clients : records[d] > 0 => records'[d] > 0
    BY <1>0, <2>1
  <2> QED
    BY <1>0, <1>7, <2>1, <2>2 DEF publish
<1> QED
  BY <1>1, <1>2, <1>3, <1>4, <1>5, <1>6, <1>7 DEF Command

(* After a send, the FIFO holds one request more. *)
LEMMA SendsFacts ==
  ASSUME Typed, NEW c, NEW o, Sends(c, o)
  PROVE  /\ Len(queue) \in Nat /\ Len(queue') = Len(queue) + 1
         /\ \A i \in 1 .. Len(queue) : queue'[i] = queue[i]
         /\ queue'[Len(queue) + 1] = [op |-> o, c |-> c]
         /\ DOMAIN queue = 1 .. Len(queue) /\ DOMAIN queue' = 1 .. Len(queue) + 1
  BY DEF Typed, NoWakeByte, Sends

(* What a client sends is the only thing that gets on its way. *)
LEMMA ClientPending ==
  ASSUME Typed, NEW c \in Clients, create_fifo(c) \/ Command(c) \/ crash_client(c),
         NEW d, NEW o, Pending(d, o)'
  PROVE  \/ Pending(d, o)
         \/ /\ d = c
            /\ \/ pc[c] = "write" /\ o = op[c] /\ pc'[c] = "header"
               \/ /\ pc[c] = "publish" /\ o = "PRODUCE"
                  /\ pc'[c] = "input" /\ records'[c] > 0
<1>1. UNCHANGED recv_buf
  BY ClientStep
<1>2. CASE UNCHANGED queue
  BY <1>1, <1>2 DEF Pending
<1>3. ASSUME NEW x, Sends(c, x)
      PROVE  Pending(d, o) \/ (d = c /\ o = x)
  <2>1. CASE \E i \in DOMAIN recv_buf : recv_buf[i] = [op |-> o, c |-> d]
    BY <2>1 DEF Pending
  <2>2. CASE \E i \in DOMAIN queue' : queue'[i] = [op |-> o, c |-> d]
    <3>1. PICK i \in DOMAIN queue' : queue'[i] = [op |-> o, c |-> d]
      BY <2>2
    <3>2. CASE i \in 1 .. Len(queue)
      BY <1>3, <3>1, <3>2, SendsFacts DEF Pending
    <3>3. CASE i = Len(queue) + 1
      <4>1. [op |-> o, c |-> d] = [op |-> x, c |-> c]
        BY <1>3, <3>1, <3>3, SendsFacts
      <4> QED
        BY <4>1
    <3>4. i \in 1 .. Len(queue) + 1 /\ Len(queue) \in Nat
      BY <1>3, <3>1, SendsFacts
    <3> QED
      BY <3>2, <3>3, <3>4
  <2> QED
    BY <1>1, <2>1, <2>2 DEF Pending
<1> QED
  BY <1>2, <1>3, ClientStep

(* The server leaves the clients' variables alone and only takes requests  *)
(* away.                                                                   *)
LEMMA ServerStep ==
  ASSUME Typed, Serve \/ Stop \/ crash
  PROVE  /\ UNCHANGED clientVars
         /\ handle_request \/ UNCHANGED <<creator, published>>
         /\ \A c, o : Pending(c, o)' => Pending(c, o)
<1>1. UNCHANGED clientVars /\ (handle_request \/ UNCHANGED <<creator, published>>)
  BY DEF Serve, Stop, crash, make_fifo, open_fifo, read_requests, handle_request,
         respond_open, respond_write, stop_unlink, stop_wake, stop_close, exit
<1>2. SUFFICES ASSUME NEW c, NEW o, Pending(c, o)'
               PROVE  Pending(c, o)
  BY <1>1
<1>3. CASE UNCHANGED <<queue, recv_buf>>
  BY <1>2, <1>3 DEF Pending
<1>4. CASE read_requests
  BY <1>2, <1>4 DEF Pending, read_requests
<1>5. CASE handle_request
  <2>1. /\ queue' = queue /\ recv_buf' = Tail(recv_buf)
        /\ recv_buf \in Seq(Request) /\ recv_buf # <<>>
    BY <1>5 DEF handle_request, Typed, TypeOK
  <2>2. /\ \A i \in DOMAIN recv_buf' : i + 1 \in DOMAIN recv_buf /\ recv_buf'[i] = recv_buf[i + 1]
    BY <2>1
  <2> QED
    BY <1>2, <2>1, <2>2 DEF Pending
<1>6. CASE stop_close
  BY <1>2, <1>6 DEF Pending, stop_close
<1>7. CASE crash
  BY <1>2, <1>7 DEF Pending, crash
<1>8. CASE stop_wake
  BY <1>3, <1>8 DEF stop_wake, Typed, NothingLeftBehind
<1> QED
  BY <1>3, <1>4, <1>5, <1>6, <1>7, <1>8
  DEF Serve, Stop, make_fifo, open_fifo, respond_open, respond_write, stop_unlink, exit

(* The topic is made once, by a client whose CREATE has been read. *)
LEMMA CreatorStep ==
  ASSUME Typed, RequestInv, Serve \/ Stop \/ crash
  PROVE  \/ creator' = creator
         \/ /\ creator = Nil /\ creator' \in Clients /\ handle_request
            /\ Head(recv_buf) = [op |-> "CREATE", c |-> creator']
            /\ Pending(creator', "CREATE")
            /\ op[creator'] = "CREATE" /\ pc[creator'] \notin Early
<1>1. CASE UNCHANGED creator
  BY <1>1
<1>2. CASE handle_request /\ creator' # creator
  <2>1. /\ recv_buf \in Seq(Request) /\ recv_buf # <<>>
        /\ Head(recv_buf).op = "CREATE" /\ creator = Nil /\ creator' = Head(recv_buf).c
    BY <1>2 DEF handle_request, Typed, TypeOK
  <2>2. Head(recv_buf) \in Request /\ 1 \in DOMAIN recv_buf /\ recv_buf[1] = Head(recv_buf)
    BY <2>1
  <2>3. creator' \in Clients /\ Head(recv_buf) = [op |-> "CREATE", c |-> creator']
    BY <2>1, <2>2 DEF Request
  <2>4. Pending(creator', "CREATE")
    BY <2>2, <2>3 DEF Pending
  <2> QED
    BY <1>2, <2>1, <2>3, <2>4 DEF RequestInv
<1> QED
  BY <1>1, <1>2, ServerStep

(* What was true of an answer stays true. *)
LEMMA StatusStable ==
  ASSUME Typed, RequestInv, Serve \/ Stop \/ crash,
         NEW c \in Clients, NEW s, StatusTrue(c, s)
  PROVE  StatusTrue(c, s)'
<1>1. op' = op
  BY ServerStep DEF clientVars
<1>2. CASE creator' = creator
  BY <1>1, <1>2 DEF StatusTrue
<1>3. CASE creator = Nil /\ creator' \in Clients /\ op[creator'] = "CREATE"
  BY <1>1, <1>3, ExchangeAssumption DEF StatusTrue
<1> QED
  BY <1>2, <1>3, CreatorStep

-----------------------------------------------------------------------------
(* The invariant, one part after the other.                                *)

(* The invariant holds before anything has happened. *)
LEMMA ExchangeInit == Init => ExchangeInv
<1> SUFFICES ASSUME Init PROVE ExchangeInv
  OBVIOUS
<1>1. /\ queue = <<>> /\ recv_buf = <<>> /\ handling = Nil /\ creator = Nil
      /\ \A c \in Clients : pc[c] = "start" /\ inbox[c] = <<>> /\ ~(published[c] > 0)
  BY DEF Init
<1>2. \A c, o : ~Pending(c, o)
  BY <1>1 DEF Pending
<1>3. RequestInv /\ CreateOnce
  BY <1>1, <1>2 DEF RequestInv, CreateOnce
<1>4. AnswerInv
  BY <1>1 DEF AnswerInv
<1>5. EffectInv /\ CodeInv
  BY <1>1, ExchangeAssumption DEF EffectInv, CodeInv, CodeTrue
<1> QED
  BY <1>3, <1>4, <1>5, TypedInit DEF ExchangeInv, Typed

(* A request on its way stays the one its client has sent. *)
LEMMA RequestServer ==
  ASSUME Typed, RequestInv, CreateOnce, Serve \/ Stop \/ crash
  PROVE  RequestInv'
<1> SUFFICES ASSUME NEW c \in Clients, NEW o \in {"CREATE", "LIST", "CONNECT", "PRODUCE"},
                    Pending(c, o)'
             PROVE  /\ pc'[c] \notin Early
                    /\ o # "PRODUCE" => op'[c] = o
                    /\ o = "PRODUCE" => op'[c] = "CONNECT" /\ records'[c] > 0
                    /\ o = "CREATE" => creator' # c
  BY DEF RequestInv
<1>1. Pending(c, o) /\ UNCHANGED <<pc, op, code, records>>
  BY ServerStep DEF clientVars
<1>2. ASSUME o = "CREATE", creator' = c PROVE FALSE
  <2>1. creator' # creator
    BY <1>1, <1>2 DEF RequestInv
  <2>2. handle_request /\ Head(recv_buf) = [op |-> "CREATE", c |-> c]
    BY <1>2, <2>1, CreatorStep
  <2>3. /\ recv_buf \in Seq(Request) /\ recv_buf # <<>> /\ queue \in Seq(Request)
        /\ recv_buf' = Tail(recv_buf) /\ queue' = queue
    BY <2>2 DEF handle_request, Typed, TypeOK, NoWakeByte
  <2>4. /\ 1 \in 1 .. Len(recv_buf) /\ recv_buf[1] = [op |-> "CREATE", c |-> c]
        /\ Len(recv_buf) \in Nat /\ Len(queue) \in Nat
        /\ DOMAIN queue = 1 .. Len(queue) /\ DOMAIN recv_buf' = 1 .. Len(recv_buf) - 1
        /\ \A i \in 1 .. Len(recv_buf) - 1 : recv_buf'[i] = recv_buf[i + 1]
    BY <2>2, <2>3
  <2>5. ASSUME NEW i \in DOMAIN queue, queue[i] = [op |-> "CREATE", c |-> c] PROVE FALSE
    BY <2>4, <2>5 DEF CreateOnce
  <2>6. ASSUME NEW i \in DOMAIN recv_buf', recv_buf'[i] = [op |-> "CREATE", c |-> c] PROVE FALSE
    <3>1. i + 1 \in 1 .. Len(recv_buf) /\ i + 1 # 1 /\ recv_buf[i + 1] = recv_buf[1]
      BY <2>4, <2>6
    <3> QED
      BY <2>4, <3>1 DEF CreateOnce
  <2> QED
    BY <1>2, <2>3, <2>5, <2>6 DEF Pending
<1> QED
  BY <1>1, <1>2 DEF RequestInv

(* A client sends one request, its own, and a message only after that has  *)
(* been accepted.                                                          *)
LEMMA RequestClient ==
  ASSUME Typed, RequestInv, EffectInv, CodeInv, NEW c \in Clients,
         create_fifo(c) \/ Command(c) \/ crash_client(c)
  PROVE  RequestInv'
<1> SUFFICES ASSUME NEW d \in Clients, NEW o \in {"CREATE", "LIST", "CONNECT", "PRODUCE"},
                    Pending(d, o)'
             PROVE  /\ pc'[d] \notin Early
                    /\ o # "PRODUCE" => op'[d] = o
                    /\ o = "PRODUCE" => op'[d] = "CONNECT" /\ records'[d] > 0
                    /\ o = "CREATE" => creator' # d
  BY DEF RequestInv
<1>0. creator' = creator
  BY ClientStep
<1>1. CASE Pending(d, o)
  BY <1>0, <1>1, ClientStep DEF RequestInv, Early
<1>2. CASE d = c /\ pc[c] = "write" /\ o = op[c] /\ pc'[c] = "header"
  <2>1. op'[c] = op[c] /\ op[c] \in {"CREATE", "LIST", "CONNECT"}
    BY <1>2, ClientStep, ClientFacts
  <2>2. creator # c
    BY <1>2 DEF EffectInv, Early
  <2> QED
    BY <1>0, <1>2, <2>1, <2>2 DEF Early
<1>3. CASE d = c /\ pc[c] = "publish" /\ o = "PRODUCE" /\ pc'[c] = "input" /\ records'[c] > 0
  <2>1. op'[c] = op[c] /\ op[c] = "CONNECT"
    BY <1>3, ClientStep DEF CodeInv, CodeTrue
  <2> QED
    BY <1>3, <2>1 DEF Early
<1> QED
  BY <1>1, <1>2, <1>3, ClientPending

(* The server moves requests on and drops them, but copies none. *)
LEMMA OnceServer ==
  ASSUME Typed, CreateOnce, Serve \/ Stop \/ crash
  PROVE  CreateOnce'
<1>1. CASE UNCHANGED <<queue, recv_buf>>
  BY <1>1 DEF CreateOnce
<1>2. CASE read_requests
  <2>1. recv_buf' = queue /\ queue' = <<>> /\ Len(queue') = 0
    BY <1>2 DEF read_requests
  <2> QED
    BY <2>1 DEF CreateOnce
<1>3. CASE handle_request
  <2>1. /\ recv_buf \in Seq(Request) /\ recv_buf # <<>>
        /\ recv_buf' = Tail(recv_buf) /\ queue' = queue
    BY <1>3 DEF handle_request, Typed, TypeOK
  <2>2. /\ Len(recv_buf) \in Nat /\ Len(recv_buf') = Len(recv_buf) - 1
        /\ \A i \in 1 .. Len(recv_buf') : /\ recv_buf'[i] = recv_buf[i + 1]
                                          /\ i + 1 \in 1 .. Len(recv_buf)
    BY <2>1
  <2>3. \A i, j \in 1 .. Len(recv_buf') :
           recv_buf'[i].op = "CREATE" /\ recv_buf'[i] = recv_buf'[j] => i = j
    <3> SUFFICES ASSUME NEW i \in 1 .. Len(recv_buf'), NEW j \in 1 .. Len(recv_buf'),
                        recv_buf'[i].op = "CREATE", recv_buf'[i] = recv_buf'[j]
                 PROVE  i = j
      OBVIOUS
    <3>1. i + 1 = j + 1
      BY <2>2 DEF CreateOnce
    <3> QED
      BY <3>1
  <2>4. \A i \in 1 .. Len(queue), j \in 1 .. Len(recv_buf') :
           queue[i].op = "CREATE" => queue[i] # recv_buf'[j]
    BY <2>2 DEF CreateOnce
  <2> QED
    BY <2>1, <2>3, <2>4 DEF CreateOnce
<1>4. CASE stop_close
  <2>1. recv_buf' = recv_buf /\ queue' = <<>> /\ Len(queue') = 0
    BY <1>4 DEF stop_close
  <2> QED
    BY <2>1 DEF CreateOnce
<1>5. CASE crash
  <2>1. recv_buf' = <<>> /\ queue' = <<>> /\ Len(queue') = 0 /\ Len(recv_buf') = 0
    BY <1>5 DEF crash
  <2> QED
    BY <2>1 DEF CreateOnce
<1>6. CASE stop_wake
  BY <1>1, <1>6 DEF stop_wake, Typed, NothingLeftBehind
<1> QED
  BY <1>1, <1>2, <1>3, <1>4, <1>5, <1>6
  DEF Serve, Stop, make_fifo, open_fifo, respond_open, respond_write, stop_unlink, exit

(* A client sends its CREATE once. *)
LEMMA OnceClient ==
  ASSUME Typed, RequestInv, CreateOnce, NEW c \in Clients,
         create_fifo(c) \/ Command(c) \/ crash_client(c)
  PROVE  CreateOnce'
<1>0. recv_buf' = recv_buf
  BY ClientStep
<1>1. CASE UNCHANGED queue
  BY <1>0, <1>1 DEF CreateOnce
<1>2. ASSUME NEW o, Sends(c, o), o = "CREATE" => ~Pending(c, "CREATE")
      PROVE  CreateOnce'
  <2>1. /\ Len(queue) \in Nat /\ Len(queue') = Len(queue) + 1
        /\ \A i \in 1 .. Len(queue) : queue'[i] = queue[i]
        /\ queue'[Len(queue) + 1] = [op |-> o, c |-> c]
        /\ DOMAIN queue = 1 .. Len(queue) /\ DOMAIN recv_buf = 1 .. Len(recv_buf)
    BY <1>2, SendsFacts DEF Typed, TypeOK
  <2>2. o = "CREATE" => /\ \A i \in 1 .. Len(queue) : queue[i] # [op |-> o, c |-> c]
                        /\ \A i \in 1 .. Len(recv_buf) : recv_buf[i] # [op |-> o, c |-> c]
    BY <1>2, <2>1 DEF Pending
  <2>3. [op |-> o, c |-> c].op = o
    OBVIOUS
  <2>4. \A i, j \in 1 .. Len(queue') :
           queue'[i].op = "CREATE" /\ queue'[i] = queue'[j] => i = j
    <3> SUFFICES ASSUME NEW i \in 1 .. Len(queue'), NEW j \in 1 .. Len(queue'),
                        queue'[i].op = "CREATE", queue'[i] = queue'[j]
                 PROVE  i = j
      OBVIOUS
    <3>1. CASE i \in 1 .. Len(queue) /\ j \in 1 .. Len(queue)
      BY <2>1, <3>1 DEF CreateOnce
    <3>2. CASE i = Len(queue) + 1 /\ j \in 1 .. Len(queue)
      BY <2>1, <2>2, <2>3, <3>2
    <3>3. CASE i \in 1 .. Len(queue) /\ j = Len(queue) + 1
      BY <2>1, <2>2, <2>3, <3>3
    <3> QED
      BY <2>1, <3>1, <3>2, <3>3
  <2>5. \A i \in 1 .. Len(queue'), j \in 1 .. Len(recv_buf) :
           queue'[i].op = "CREATE" => queue'[i] # recv_buf[j]
    <3> SUFFICES ASSUME NEW i \in 1 .. Len(queue'), NEW j \in 1 .. Len(recv_buf),
                        queue'[i].op = "CREATE"
                 PROVE  queue'[i] # recv_buf[j]
      OBVIOUS
    <3>1. CASE i \in 1 .. Len(queue)
      BY <2>1, <3>1 DEF CreateOnce
    <3>2. CASE i = Len(queue) + 1
      BY <2>1, <2>2, <2>3, <3>2
    <3> QED
      BY <2>1, <3>1, <3>2
  <2> QED
    BY <1>0, <2>4, <2>5 DEF CreateOnce
<1>3. pc[c] = "write" => ~Pending(c, "CREATE")
  BY DEF RequestInv, Early
<1> QED
  BY <1>1, <1>2, <1>3, ClientStep

(* The handler answers with what is true of the request. *)
LEMMA AnswerTrue ==
  ASSUME Typed, RequestInv, handle_request, Head(recv_buf).op # "PRODUCE"
  PROVE  \E d, pieces :
           /\ d \in Clients /\ pc[d] \notin Early
           /\ handling' = [c |-> d, pieces |-> pieces, fd |-> FALSE]
           /\ pieces # <<>>
           /\ \A i \in 1 .. Len(pieces) : PieceTrue(d, pieces[i])'
<1>0. PICK r, status, pieces : r = Head(recv_buf) /\ status = Status(r) /\ pieces = Answer(r)
  OBVIOUS
<1>1. /\ recv_buf \in Seq(Request) /\ recv_buf # <<>> /\ UNCHANGED op
      /\ creator' = IF r.op = "CREATE" /\ creator = Nil THEN r.c ELSE creator
      /\ handling' = [c |-> r.c, pieces |-> pieces, fd |-> FALSE]
  BY <1>0 DEF handle_request, clientVars, Typed, TypeOK
<1>2. r \in Request /\ 1 \in DOMAIN recv_buf /\ recv_buf[1] = r
  BY <1>0, <1>1
<1>3. r.c \in Clients /\ r.op \in {"CREATE", "LIST", "CONNECT"} /\ r = [op |-> r.op, c |-> r.c]
  BY <1>0, <1>2 DEF Request
<1>4. Pending(r.c, r.op)
  BY <1>2, <1>3 DEF Pending
<1>5. pc[r.c] \notin Early /\ op[r.c] = r.op /\ (r.op = "CREATE" => creator # r.c)
  BY <1>3, <1>4 DEF RequestInv
<1>6. /\ pieces # <<>> /\ (r.op # "LIST" => pieces = <<<<"header", status>>>>)
      /\ r.op = "LIST" => \A i \in 1 .. Len(pieces) : pieces[i][2] = 0
  BY <1>0, <1>2, AnswerFacts
<1>7. CASE r.op = "LIST"
  <2>1. \A i \in 1 .. Len(pieces) : PieceTrue(r.c, pieces[i])'
    BY <1>1, <1>5, <1>6, <1>7 DEF PieceTrue
  <2> QED
    BY <1>1, <1>3, <1>5, <1>6, <2>1
<1>8. CASE r.op # "LIST"
  <2>1. status \in {0, 2} /\ StatusTrue(r.c, status)'
    <3>1. CASE r.op = "CREATE" /\ creator = Nil
      <4>1. status = 0 /\ creator' = r.c
        BY <1>0, <1>1, <3>1 DEF Status, StatusCode
      <4> QED
        BY <1>1, <1>3, <1>5, <3>1, <4>1 DEF StatusTrue
    <3>2. CASE r.op = "CREATE" /\ creator # Nil
      <4>1. status = 2 /\ creator' = creator
        BY <1>0, <1>1, <3>2 DEF Status, StatusCode
      <4> QED
        BY <1>1, <1>5, <3>2, <4>1 DEF StatusTrue
    <3>3. CASE r.op = "CONNECT" /\ creator # Nil
      <4>1. status = 0 /\ creator' = creator
        BY <1>0, <1>1, <3>3 DEF Status, StatusCode
      <4> QED
        BY <1>1, <1>5, <3>3, <4>1 DEF StatusTrue
    <3>4. CASE r.op = "CONNECT" /\ creator = Nil
      <4>1. status = 2 /\ creator' = creator
        BY <1>0, <1>1, <3>4 DEF Status, StatusCode
      <4> QED
        BY <1>1, <1>3, <1>5, <3>4, <4>1, ExchangeAssumption DEF StatusTrue
    <3> QED
      BY <1>3, <1>8, <3>1, <3>2, <3>3, <3>4
  <2>2. PieceTrue(r.c, <<"header", status>>)'
    BY <1>1, <1>5, <1>8, <2>1 DEF PieceTrue
  <2>3. Len(pieces) = 1 /\ pieces[1] = <<"header", status>>
    BY <1>6, <1>8
  <2>4. \A i \in 1 .. Len(pieces) : PieceTrue(r.c, pieces[i])'
    BY <2>2, <2>3
  <2> QED
    BY <1>1, <1>3, <1>5, <1>6, <2>4
<1> QED
  BY <1>7, <1>8

(* What is being sent, and what has been, stays true. *)
LEMMA AnswerServer ==
  ASSUME Typed, RequestInv, AnswerInv, Serve \/ Stop \/ crash
  PROVE  AnswerInv'
<1>1. UNCHANGED <<pc, op>>
  BY ServerStep DEF clientVars
<1>2. ASSUME NEW c \in Clients, NEW x, PieceTrue(c, x) PROVE PieceTrue(c, x)'
  BY <1>1, <1>2, StatusStable DEF PieceTrue
<1>3. ASSUME UNCHANGED inbox
      PROVE  \A c \in Clients : /\ pc'[c] \in Early => inbox'[c] = <<>>
                                /\ \A i \in 1 .. Len(inbox'[c]) : PieceTrue(c, inbox[c][i])'
  BY <1>1, <1>2, <1>3 DEF AnswerInv
<1>4. ASSUME UNCHANGED handling, handling # Nil
      PROVE  /\ pc'[handling'.c] \notin Early /\ handling'.pieces # <<>>
             /\ \A i \in 1 .. Len(handling'.pieces) : PieceTrue(handling.c, handling.pieces[i])'
  <2>1. PICK d, pieces : d = handling.c /\ pieces = handling.pieces
    OBVIOUS
  <2>2. d \in Clients /\ pc[d] \notin Early /\ pieces # <<>>
    BY <1>4, <2>1, HandlingFacts DEF AnswerInv, Typed
  <2>3. \A i \in 1 .. Len(pieces) : PieceTrue(d, pieces[i])'
    BY <1>2, <1>4, <2>1, <2>2 DEF AnswerInv
  <2>4. handling'.c = d /\ handling'.pieces = pieces
    BY <1>4, <2>1
  <2> QED
    BY <1>1, <2>2, <2>3, <2>4
<1>5. CASE UNCHANGED <<handling, inbox>> \/ (handling' = Nil /\ UNCHANGED inbox)
  BY <1>3, <1>4, <1>5 DEF AnswerInv
<1>6. CASE handle_request
  <2>1. UNCHANGED inbox
    BY <1>6 DEF handle_request
  <2>2. CASE Head(recv_buf).op = "PRODUCE"
    BY <1>5, <1>6, <2>1, <2>2 DEF handle_request
  <2>3. CASE Head(recv_buf).op # "PRODUCE"
    <3>1. PICK d, pieces :
            /\ d \in Clients /\ pc[d] \notin Early
            /\ handling' = [c |-> d, pieces |-> pieces, fd |-> FALSE]
            /\ pieces # <<>>
            /\ \A i \in 1 .. Len(pieces) : PieceTrue(d, pieces[i])'
      BY <1>6, <2>3, AnswerTrue
    <3>2. handling'.c = d /\ handling'.pieces = pieces
      BY <3>1
    <3>3. \A i \in 1 .. Len(handling'.pieces) : PieceTrue(handling.c, handling.pieces[i])'
      BY <3>1, <3>2
    <3> QED
      BY <1>1, <1>3, <2>1, <3>1, <3>2, <3>3 DEF AnswerInv
  <2> QED
    BY <2>2, <2>3
<1>7. CASE respond_open
  <2>1. UNCHANGED inbox /\ handling # Nil
    BY <1>7 DEF respond_open
  <2>2. CASE handling' = Nil
    BY <1>5, <2>1, <2>2
  <2>3. CASE handling' = [handling EXCEPT !.fd = TRUE]
    <3>1. PICK d, pieces : d = handling.c /\ pieces = handling.pieces
      OBVIOUS
    <3>2. d \in Clients /\ pc[d] \notin Early /\ pieces # <<>>
      BY <2>1, <3>1, HandlingFacts DEF AnswerInv, Typed
    <3>3. \A i \in 1 .. Len(pieces) : PieceTrue(d, pieces[i])'
      BY <1>2, <2>1, <3>1, <3>2 DEF AnswerInv
    <3>4. handling'.c = d /\ handling'.pieces = pieces
      BY <2>1, <2>3, <3>1 DEF Typed, TypeOK
    <3>5. \A i \in 1 .. Len(handling'.pieces) : PieceTrue(handling.c, handling.pieces[i])'
      BY <3>3, <3>4
    <3> QED
      BY <1>1, <1>3, <2>1, <3>2, <3>4, <3>5 DEF AnswerInv
  <2> QED
    BY <1>7, <2>2, <2>3 DEF respond_open
<1>8. CASE respond_write
  <2>1. PICK d, pieces : d = handling.c /\ pieces = handling.pieces
    OBVIOUS
  <2>2. handling # Nil
    BY <1>8 DEF respond_write
  <2>3. /\ d \in Clients /\ pieces \in Seq(Piece) /\ pc[d] \notin Early /\ pieces # <<>>
        /\ \A i \in 1 .. Len(pieces) : PieceTrue(d, pieces[i])'
    <3>1. d \in Clients /\ pieces \in Seq(Piece)
      BY <2>1, <2>2, HandlingFacts DEF Typed
    <3> QED
      BY <1>2, <2>1, <2>2, <3>1 DEF AnswerInv
  <2>4. CASE fifo[d] # "read"
    <3>1. handling' = Nil /\ UNCHANGED inbox
      BY <1>8, <2>1, <2>4 DEF respond_write
    <3> QED
      BY <1>5, <3>1
  <2>5. CASE fifo[d] = "read"
    <3>1. /\ inbox' = [inbox EXCEPT ![d] = Append(inbox[d], Head(pieces))]
          /\ handling' = IF Tail(pieces) = <<>> THEN Nil ELSE [handling EXCEPT !.pieces = Tail(pieces)]
      BY <1>8, <2>1, <2>5 DEF respond_write
    <3>2. /\ Head(pieces) = pieces[1] /\ 1 \in 1 .. Len(pieces)
          /\ \A i \in 1 .. Len(Tail(pieces)) : /\ Tail(pieces)[i] = pieces[i + 1]
                                               /\ i + 1 \in 1 .. Len(pieces)
      BY <2>3
    <3>3. /\ inbox \in [Clients -> Seq(Piece)] /\ inbox[d] \in Seq(Piece)
      BY <2>3 DEF Typed, TypeOK
    <3>4. ASSUME NEW c \in Clients
          PROVE  /\ pc'[c] \in Early => inbox'[c] = <<>>
                 /\ \A i \in 1 .. Len(inbox'[c]) : PieceTrue(c, inbox[c][i])'
      <4>1. CASE c # d
        <5>1. inbox'[c] = inbox[c]
          BY <3>1, <3>3, <4>1
        <5> QED
          BY <1>1, <1>2, <5>1 DEF AnswerInv
      <4>2. CASE c = d
        <5>1. /\ Len(inbox[d]) \in Nat /\ Len(inbox'[d]) = Len(inbox[d]) + 1
              /\ \A i \in 1 .. Len(inbox[d]) : inbox'[d][i] = inbox[d][i]
              /\ inbox'[d][Len(inbox[d]) + 1] = pieces[1]
          BY <2>3, <3>1, <3>2, <3>3
        <5>2. ASSUME NEW i \in 1 .. Len(inbox'[d]) PROVE PieceTrue(d, inbox[d][i])'
          <6>1. CASE i \in 1 .. Len(inbox[d])
            <7>1. PieceTrue(d, inbox[d][i])
              BY <2>3, <6>1 DEF AnswerInv
            <7>2. PICK x : x = inbox[d][i]
              OBVIOUS
            <7>3. PieceTrue(d, x)' /\ x = inbox'[d][i]
              BY <1>2, <2>3, <5>1, <6>1, <7>1, <7>2
            <7> QED
              BY <7>3
          <6>2. CASE i = Len(inbox[d]) + 1
            <7>1. PieceTrue(d, pieces[1])' /\ inbox'[d][i] = pieces[1]
              BY <2>3, <3>2, <5>1, <6>2
            <7> QED
              BY <7>1
          <6> QED
            BY <5>1, <6>1, <6>2
        <5> QED
          BY <1>1, <2>3, <4>2, <5>2
      <4> QED
        BY <4>1, <4>2
    <3>5. ASSUME handling' # Nil
          PROVE  /\ pc'[handling'.c] \notin Early /\ handling'.pieces # <<>>
                 /\ \A i \in 1 .. Len(handling'.pieces) : PieceTrue(handling.c, handling.pieces[i])'
      <4>1. handling'.c = d /\ handling'.pieces = Tail(pieces) /\ Tail(pieces) # <<>>
        BY <2>1, <2>2, <3>1, <3>5 DEF Typed, TypeOK
      <4>2. \A i \in 1 .. Len(Tail(pieces)) : PieceTrue(d, Tail(pieces)[i])'
        BY <2>3, <3>2
      <4> QED
        BY <1>1, <2>3, <4>1, <4>2
    <3> QED
      BY <3>4, <3>5 DEF AnswerInv
  <2> QED
    BY <2>4, <2>5
<1> QED
  BY <1>5, <1>6, <1>7, <1>8
  DEF Serve, Stop, crash, make_fifo, open_fifo, read_requests, stop_unlink, stop_wake, stop_close, exit

(* A client only takes pieces out of its FIFO. *)
LEMMA ClientInbox ==
  ASSUME Typed, NEW c \in Clients, create_fifo(c) \/ Command(c) \/ crash_client(c)
  PROVE  \/ inbox'[c] = inbox[c] \/ inbox'[c] = <<>>
         \/ inbox[c] # <<>> /\ inbox'[c] = Tail(inbox[c]) /\ pc[c] \notin Early
<1> USE DEF At, Receive, Early
<1>0. DOMAIN inbox = Clients
  BY DEF Typed, TypeOK
<1>1. CASE read_header(c) \/ read_payload(c)
  BY <1>0, <1>1 DEF read_header, read_payload
<1>2. CASE close_fd(c) \/ crash_client(c)
  BY <1>0, <1>2 DEF close_fd, crash_client
<1>3. CASE UNCHANGED inbox
  BY <1>3
<1> QED
  BY <1>1, <1>2, <1>3
  DEF Command, create_fifo, connect, connect_times_out, write, write_fails,
      read_times_out, close_unlink, read_record, end_of_input, bad_record, publish, publish_fails

(* Nothing a client does makes an answer false. *)
LEMMA AnswerClient ==
  ASSUME Typed, AnswerInv, NEW c \in Clients,
         create_fifo(c) \/ Command(c) \/ crash_client(c)
  PROVE  AnswerInv'
<1>1. UNCHANGED <<creator, handling>>
  BY ClientStep
<1>2. ASSUME NEW d \in Clients, NEW x, pc[d] # "start", PieceTrue(d, x)
      PROVE  PieceTrue(d, x)'
  <2>1. op'[d] = op[d]
    BY <1>2, ClientStep
  <2> QED
    BY <1>1, <1>2, <2>1 DEF PieceTrue, StatusTrue
<1>3. ASSUME handling' # Nil
      PROVE  /\ pc'[handling'.c] \notin Early /\ handling'.pieces # <<>>
             /\ \A i \in 1 .. Len(handling'.pieces) : PieceTrue(handling.c, handling.pieces[i])'
  <2>1. PICK d, pieces : d = handling.c /\ pieces = handling.pieces
    OBVIOUS
  <2>2. /\ d \in Clients /\ pc[d] \notin Early /\ pieces # <<>>
        /\ \A i \in 1 .. Len(pieces) : PieceTrue(d, pieces[i])
    BY <1>1, <1>3, <2>1, HandlingFacts DEF AnswerInv, Typed
  <2>3. pc'[d] \notin Early /\ pc[d] # "start"
    BY <2>2, ClientStep DEF Early
  <2>4. \A i \in 1 .. Len(pieces) : PieceTrue(d, pieces[i])'
    BY <1>2, <2>2, <2>3
  <2>5. handling'.c = d /\ handling'.pieces = pieces
    BY <1>1, <2>1
  <2> QED
    BY <2>2, <2>3, <2>4, <2>5
<1>4. ASSUME NEW d \in Clients
      PROVE  /\ pc'[d] \in Early => inbox'[d] = <<>>
             /\ \A i \in 1 .. Len(inbox'[d]) : PieceTrue(d, inbox[d][i])'
  <2>0. inbox[d] \in Seq(Piece)
    BY DEF Typed, TypeOK
  <2>1. CASE inbox'[d] = <<>>
    BY <2>1
  <2>2. CASE inbox'[d] # <<>>
    <3>1. inbox[d] # <<>> /\ (inbox'[d] = inbox[d] \/ inbox'[d] = Tail(inbox[d]))
      BY <2>2, ClientStep, ClientInbox
    <3>2. pc[d] \notin Early
      BY <3>1 DEF AnswerInv
    <3>3. pc'[d] \notin Early /\ pc[d] # "start"
      BY <3>2, ClientStep DEF Early
    <3>4. ASSUME NEW i \in 1 .. Len(inbox'[d]) PROVE PieceTrue(d, inbox[d][i])'
      <4>1. PICK j \in 1 .. Len(inbox[d]) : inbox'[d][i] = inbox[d][j]
        <5>1. CASE inbox'[d] = inbox[d]
          BY <3>4, <5>1
        <5>2. CASE inbox'[d] = Tail(inbox[d])
          <6>1. i + 1 \in 1 .. Len(inbox[d]) /\ Tail(inbox[d])[i] = inbox[d][i + 1]
            BY <2>0, <3>1, <3>4, <5>2
          <6> QED
            BY <5>2, <6>1
        <5> QED
          BY <3>1, <5>1, <5>2
      <4>2. PICK x : x = inbox[d][j]
        OBVIOUS
      <4>3. PieceTrue(d, x)' /\ x = inbox'[d][i]
        BY <1>2, <3>3, <4>1, <4>2 DEF AnswerInv
      <4> QED
        BY <4>3
    <3> QED
      BY <3>3, <3>4
  <2> QED
    BY <2>1, <2>2
<1> QED
  BY <1>3, <1>4 DEF AnswerInv

(* A handler only carries out what its client has asked for. *)
LEMMA EffectServer ==
  ASSUME Typed, RequestInv, EffectInv, Serve \/ Stop \/ crash
  PROVE  EffectInv'
<1>1. UNCHANGED <<pc, op, records>>
  BY ServerStep DEF clientVars
<1>2. ASSUME NEW c \in Clients, creator' = c PROVE op'[c] = "CREATE" /\ pc'[c] \notin Early
  BY <1>1, <1>2, CreatorStep DEF EffectInv
<1>3. ASSUME NEW c \in Clients, published'[c] > 0
      PROVE  op'[c] = "CONNECT" /\ records'[c] > 0 /\ pc'[c] \notin Early
  <2>1. CASE published[c] > 0
    BY <1>1, <2>1 DEF EffectInv
  <2>2. CASE ~(published[c] > 0)
    <3>1. handle_request
      BY <1>3, <2>2, ServerStep
    <3>2. /\ recv_buf \in Seq(Request) /\ recv_buf # <<>>
          /\ Head(recv_buf).op = "PRODUCE" /\ Head(recv_buf).c = c
      BY <1>3, <2>2, <3>1 DEF handle_request, Count, Typed, TypeOK
    <3>3. Head(recv_buf) \in Request /\ 1 \in DOMAIN recv_buf /\ recv_buf[1] = Head(recv_buf)
      BY <3>2
    <3>4. recv_buf[1] = [op |-> "PRODUCE", c |-> c]
      BY <3>2, <3>3 DEF Request
    <3>5. Pending(c, "PRODUCE")
      BY <3>3, <3>4 DEF Pending
    <3> QED
      BY <1>1, <3>5 DEF RequestInv
  <2> QED
    BY <2>1, <2>2
<1> QED
  BY <1>2, <1>3 DEF EffectInv

(* What has been carried out stays the client's own doing. *)
LEMMA EffectClient ==
  ASSUME Typed, EffectInv, NEW c \in Clients,
         create_fifo(c) \/ Command(c) \/ crash_client(c)
  PROVE  EffectInv'
<1> SUFFICES ASSUME NEW d \in Clients
             PROVE  /\ creator' = d => op'[d] = "CREATE" /\ pc'[d] \notin Early
                    /\ published'[d] > 0 =>
                         op'[d] = "CONNECT" /\ records'[d] > 0 /\ pc'[d] \notin Early
  BY DEF EffectInv
<1>1. UNCHANGED <<creator, published>>
  BY ClientStep
<1>2. ASSUME creator = d PROVE op'[d] = "CREATE" /\ pc'[d] \notin Early
  <2>1. op[d] = "CREATE" /\ pc[d] \notin Early
    BY <1>2 DEF EffectInv
  <2> QED
    BY <2>1, ClientStep DEF Early
<1>3. ASSUME published[d] > 0
      PROVE  op'[d] = "CONNECT" /\ records'[d] > 0 /\ pc'[d] \notin Early
  <2>1. op[d] = "CONNECT" /\ records[d] > 0 /\ pc[d] \notin Early
    BY <1>3 DEF EffectInv
  <2>2. pc[d] # "start"
    BY <2>1 DEF Early
  <2> QED
    BY <2>1, <2>2, ClientStep DEF Early
<1> QED
  BY <1>1, <1>2, <1>3

(* A code that is set stays true whatever the server does. *)
LEMMA CodeServer ==
  ASSUME Typed, RequestInv, CodeInv, Serve \/ Stop \/ crash
  PROVE  CodeInv'
<1>1. UNCHANGED <<pc, op, code>>
  BY ServerStep DEF clientVars
<1> SUFFICES ASSUME NEW c \in Clients
             PROVE  /\ pc'[c] = "payload" => op'[c] = "LIST"
                    /\ pc'[c] \in {"close", "unlink", "exited"} =>
                         /\ code'[c] \in {0, 2} => StatusTrue(c, code[c])'
                         /\ code'[c] = 1 => creator' # c /\ ~Pending(c, "CREATE")'
                    /\ pc'[c] \in {"reconnect", "input", "publish"} =>
                         op'[c] = "CONNECT" /\ code'[c] = 0 /\ creator' # Nil
  BY DEF CodeInv, CodeTrue
<1>2. ASSUME pc[c] \in {"close", "unlink", "exited"}, code[c] \in {0, 2}
      PROVE  StatusTrue(c, code[c])'
  <2>1. PICK n : n = code[c]
    OBVIOUS
  <2>2. StatusTrue(c, n)' /\ n = code'[c]
    BY <1>1, <1>2, <2>1, StatusStable DEF CodeInv, CodeTrue
  <2> QED
    BY <2>2
<1>3. ASSUME pc[c] \in {"close", "unlink", "exited"}, code[c] = 1
      PROVE  creator' # c /\ ~Pending(c, "CREATE")'
  BY <1>3, ServerStep, CreatorStep DEF CodeInv, CodeTrue
<1>4. ASSUME creator # Nil PROVE creator' # Nil
  BY <1>4, CreatorStep
<1> QED
  BY <1>1, <1>2, <1>3, <1>4 DEF CodeInv, CodeTrue

(* The code a client chooses is true: on a status it has received, on a    *)
(* timeout before anything was sent, or because it promises nothing.       *)
LEMMA CodeChosen ==
  ASSUME Typed, RequestInv, AnswerInv, EffectInv, CodeInv, NEW c \in Clients,
         create_fifo(c) \/ Command(c) \/ crash_client(c)
  PROVE  CodeTrue(c)'
<1> USE DEF At, Goto, Return, Receive
<1>0. /\ DOMAIN pc = Clients /\ DOMAIN code = Clients
      /\ creator' = creator /\ (pc[c] # "start" => op'[c] = op[c])
      /\ pc[c] # "start" => op[c] \in {"CREATE", "LIST", "CONNECT"}
  BY ClientStep, ClientFacts DEF Typed, TypeOK
<1>1. CodeTrue(c)
  BY DEF CodeInv
<1>2. ASSUME NEW s, StatusTrue(c, s), pc[c] # "start" PROVE StatusTrue(c, s)'
  BY <1>0, <1>2 DEF StatusTrue
<1>3. ASSUME pc'[c] \in {"connect", "write", "header", "crashed"} PROVE CodeTrue(c)'
  BY <1>3 DEF CodeTrue
<1>4. CASE create_fifo(c) \/ crash_client(c) \/ write(c)
  BY <1>0, <1>3, <1>4 DEF create_fifo, crash_client, write
<1>5. CASE connect(c)
  <2>1. CASE At(c, "connect")
    BY <1>0, <1>3, <1>5, <2>1 DEF connect
  <2>2. CASE At(c, "reconnect")
    <3>1. pc'[c] = "input" /\ code'[c] = code[c]
      BY <1>0, <1>5, <2>2 DEF connect
    <3> QED
      BY <1>0, <1>1, <2>2, <3>1 DEF CodeTrue
  <2> QED
    BY <1>5, <2>1, <2>2 DEF connect
<1>6. CASE connect_times_out(c)
  <2>1. pc[c] \in {"connect", "reconnect"} /\ pc'[c] \in {"close", "exited"} /\ code'[c] = 1
    BY <1>0, <1>6 DEF connect_times_out
  <2>2. creator # c
    BY <1>1, <2>1 DEF EffectInv, CodeTrue, Early
  <2>3. ~Pending(c, "CREATE")'
    BY <1>1, <2>1, ClientPending DEF RequestInv, CodeTrue, Early
  <2> QED
    BY <1>0, <2>1, <2>2, <2>3 DEF CodeTrue
<1>7. CASE write_fails(c) \/ read_times_out(c) \/ publish_fails(c)
  <2>1. pc'[c] \in {"close", "exited"} /\ code'[c] = 3
    BY <1>0, <1>7 DEF write_fails, read_times_out, publish_fails
  <2> QED
    BY <2>1 DEF CodeTrue
<1>8. CASE read_header(c)
  <2>1. pc[c] = "header" /\ inbox[c] # <<>> /\ inbox[c] \in Seq(Piece)
    BY <1>8 DEF read_header, Typed, TypeOK
  <2>2. CASE op[c] = "LIST"
    <3>1. Head(inbox[c])[2] = 0
      <4>1. 1 \in 1 .. Len(inbox[c]) /\ Head(inbox[c]) = inbox[c][1]
        BY <2>1
      <4> QED
        BY <2>2, <4>1 DEF AnswerInv, PieceTrue
    <3>2. pc'[c] = "payload" \/ (pc'[c] = "close" /\ code'[c] = 0)
      BY <1>0, <1>8, <3>1 DEF read_header, exit_code_from_response_code
    <3>3. StatusTrue(c, 0)'
      BY <1>0, <2>1, <2>2 DEF StatusTrue
    <3> QED
      BY <1>0, <2>1, <2>2, <3>2, <3>3 DEF CodeTrue
  <2>3. CASE op[c] # "LIST"
    <3>1. 1 \in 1 .. Len(inbox[c]) /\ Head(inbox[c]) = inbox[c][1]
      BY <2>1
    <3>2. PICK s \in {0, 2} : Head(inbox[c]) = <<"header", s>> /\ StatusTrue(c, s)
      BY <2>3, <3>1 DEF AnswerInv, PieceTrue
    <3>3. Head(inbox[c])[1] = "header" /\ Head(inbox[c])[2] = s
      BY <3>2
    <3>4. pc'[c] = "close" /\ code'[c] = s
      BY <1>0, <1>8, <2>3, <3>3 DEF read_header, exit_code_from_response_code
    <3>5. StatusTrue(c, s)'
      BY <1>2, <2>1, <3>2
    <3> QED
      BY <3>4, <3>5 DEF CodeTrue
  <2> QED
    BY <2>2, <2>3
<1>9. CASE read_payload(c)
  <2>1. pc[c] = "payload" /\ pc'[c] = "close" /\ code'[c] = 0
    BY <1>0, <1>9 DEF read_payload
  <2>2. op[c] = "LIST" /\ op'[c] = "LIST"
    BY <1>0, <1>1, <2>1 DEF CodeTrue
  <2>3. StatusTrue(c, 0)'
    BY <2>2 DEF StatusTrue
  <2> QED
    BY <2>1, <2>3 DEF CodeTrue
<1>10. CASE close_fd(c) \/ close_unlink(c)
  <2>1. /\ pc[c] \in {"close", "unlink"} /\ code'[c] = code[c]
        /\ pc'[c] \in {"unlink", "reconnect", "exited"}
        /\ pc'[c] = "reconnect" => op[c] = "CONNECT" /\ code[c] = 0
    BY <1>0, <1>10 DEF close_fd, close_unlink
  <2>2. CASE pc'[c] = "reconnect"
    <3>1. StatusTrue(c, 0)
      BY <1>1, <2>1, <2>2 DEF CodeTrue
    <3> QED
      BY <1>0, <2>1, <2>2, <3>1 DEF CodeTrue, StatusTrue
  <2>3. CASE pc'[c] \in {"unlink", "exited"}
    <3>1. code'[c] \in {0, 2} => StatusTrue(c, code[c])'
      <4>1. PICK n : n = code[c]
        OBVIOUS
      <4>2. n \in {0, 2} => StatusTrue(c, n)'
        BY <1>1, <1>2, <2>1, <4>1 DEF CodeTrue
      <4> QED
        BY <2>1, <4>1, <4>2
    <3>2. code'[c] = 1 => creator' # c /\ ~Pending(c, "CREATE")'
      BY <1>0, <1>1, <2>1, ClientPending DEF CodeTrue
    <3> QED
      BY <2>3, <3>1, <3>2 DEF CodeTrue
  <2> QED
    BY <2>1, <2>2, <2>3
<1>11. CASE read_record(c) \/ publish(c)
  <2>1. pc[c] \in {"input", "publish"} /\ pc'[c] \in {"input", "publish"} /\ code'[c] = code[c]
    BY <1>0, <1>11 DEF read_record, publish
  <2> QED
    BY <1>0, <1>1, <2>1 DEF CodeTrue
<1>12. CASE end_of_input(c) \/ bad_record(c)
  <2>1. pc[c] = "input" /\ pc'[c] = "exited" /\ code'[c] \in {code[c], 1}
    BY <1>0, <1>12 DEF end_of_input, bad_record
  <2>2. op[c] = "CONNECT" /\ code[c] = 0 /\ creator # Nil
    BY <1>1, <2>1 DEF CodeTrue
  <2>3. StatusTrue(c, 0)'
    BY <1>0, <2>1, <2>2 DEF StatusTrue
  <2>4. creator' # c
    BY <1>0, <2>2 DEF EffectInv
  <2>5. ~Pending(c, "CREATE")'
    BY <2>1, <2>2, ClientPending DEF RequestInv
  <2> QED
    BY <2>1, <2>2, <2>3, <2>4, <2>5 DEF CodeTrue
<1> QED
  BY <1>4, <1>5, <1>6, <1>7, <1>8, <1>9, <1>10, <1>11, <1>12 DEF Command

(* No client makes the code of another one false. *)
LEMMA CodeClient ==
  ASSUME Typed, RequestInv, AnswerInv, EffectInv, CodeInv, NEW c \in Clients,
         create_fifo(c) \/ Command(c) \/ crash_client(c)
  PROVE  CodeInv'
<1>1. ASSUME NEW d \in Clients \ {c} PROVE CodeTrue(d)'
  <2>1. /\ pc'[d] = pc[d] /\ op'[d] = op[d] /\ code'[d] = code[d] /\ creator' = creator
    BY ClientStep
  <2>2. Pending(d, "CREATE")' => Pending(d, "CREATE")
    BY ClientPending
  <2>3. CodeTrue(d)
    BY DEF CodeInv, CodeTrue
  <2> QED
    BY <2>1, <2>2, <2>3 DEF CodeTrue, StatusTrue
<1>2. CodeTrue(c)'
  BY CodeChosen
<1> QED
  BY <1>1, <1>2 DEF CodeInv, CodeTrue

-----------------------------------------------------------------------------
(* Every step preserves the invariant. *)
LEMMA ExchangeNext == ExchangeInv /\ [Next]_vars => ExchangeInv'
<1> SUFFICES ASSUME ExchangeInv, [Next]_vars PROVE ExchangeInv'
  OBVIOUS
<1>0. Typed /\ RequestInv /\ CreateOnce /\ AnswerInv /\ EffectInv /\ CodeInv
  BY DEF ExchangeInv, Typed
<1>1. CASE Serve \/ Stop \/ crash
  BY <1>0, <1>1, TypedServer, RequestServer, OnceServer, AnswerServer, EffectServer, CodeServer
  DEF ExchangeInv, Typed
<1>2. ASSUME NEW c \in Clients, create_fifo(c) \/ Command(c) \/ crash_client(c)
      PROVE  ExchangeInv'
  BY <1>0, <1>2, TypedClient, RequestClient, OnceClient, AnswerClient, EffectClient, CodeClient
  DEF ExchangeInv, Typed
<1>3. CASE UNCHANGED vars
  <2>1. UNCHANGED <<server, ipc_path, recv_buf, handling, creator, published,
                    pc, op, fifo, records, code, queue, inbox>>
    BY <1>3 DEF vars, serverVars, clientVars
  <2>2. TypeOK' /\ NoWakeByte' /\ NothingLeftBehind'
    BY <1>0, <2>1 DEF Typed, TypeOK, NoWakeByte, NothingLeftBehind
  <2>3. RequestInv' /\ CreateOnce'
    BY <1>0, <2>1 DEF RequestInv, CreateOnce, Pending
  <2>4. AnswerInv'
    BY <1>0, <2>1 DEF AnswerInv, PieceTrue, StatusTrue
  <2>5. EffectInv' /\ CodeInv'
    BY <1>0, <2>1 DEF EffectInv, CodeInv, CodeTrue, Pending, StatusTrue
  <2> QED
    BY <2>2, <2>3, <2>4, <2>5 DEF ExchangeInv
<1> QED
  BY <1>1, <1>2, <1>3 DEF Next

(* The invariant holds throughout, and with it the types: in particular    *)
(* the server never finds a byte of stop() among its requests.             *)
THEOREM ExchangeInvariance == Spec => []ExchangeInv
  BY ExchangeInit, ExchangeNext, PTL DEF Spec

(* An exit code of create, list or produce tells the truth, whatever the   *)
(* server and the other clients do, crash or leave undone.                 *)
THEOREM ExitCodesTell == Spec => []ExitCodeTells
<1>1. ExchangeInv => ExitCodeTells
  <2> SUFFICES ASSUME ExchangeInv, NEW c \in Clients
               PROVE  /\ Exited(c, 0) => /\ op[c] = "CREATE" => creator = c
                                         /\ op[c] = "CONNECT" => creator # Nil
                      /\ Exited(c, 2) => /\ op[c] # "LIST" /\ creator # c
                                         /\ op[c] = "CREATE" => creator # Nil
                      /\ Exited(c, 1) => /\ creator # c /\ ~Pending(c, "CREATE")
                                         /\ \/ records[c] > 0
                                            \/ published[c] = 0 /\ ~Pending(c, "PRODUCE")
    BY DEF ExitCodeTells
  <2>1. Exited(c, 0) => StatusTrue(c, 0)
    BY DEF ExchangeInv, CodeInv, CodeTrue, Exited
  <2>2. Exited(c, 2) => StatusTrue(c, 2)
    BY DEF ExchangeInv, CodeInv, CodeTrue, Exited
  <2>3. ASSUME Exited(c, 1)
        PROVE  /\ creator # c /\ ~Pending(c, "CREATE")
               /\ records[c] > 0 \/ (published[c] = 0 /\ ~Pending(c, "PRODUCE"))
    BY <2>3 DEF ExchangeInv, TypeOK, CodeInv, CodeTrue, EffectInv, RequestInv, Exited
  <2> QED
    BY <2>1, <2>2, <2>3 DEF StatusTrue
<1> QED
  BY <1>1, ExchangeInvariance, PTL

(* No client that returns leaves its FIFO behind, nor does a server that   *)
(* has begun to stop.                                                      *)
THEOREM FilesRemoved == Spec => []NothingLeftBehind
<1>1. ExchangeInv => NothingLeftBehind
  BY DEF ExchangeInv
<1> QED
  BY <1>1, ExchangeInvariance, PTL
=============================================================================
