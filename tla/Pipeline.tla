------------------------------ MODULE Pipeline -------------------------------
(***************************************************************************)
(* A message from end to end: from the standard input of a producer        *)
(* (producer_command.cpp), as a PRODUCE frame, through the log of a topic, *)
(* as a delivery frame, to the standard output of a subscriber             *)
(* (subscriber_command.cpp, message_output.cpp), each in text or in raw    *)
(* form.  Five places along the way measure the message against            *)
(* MAX_PAYLOAD_SIZE, each in its own arithmetic.                           *)
(*                                                                         *)
(* Requests arrive whole (RequestStream).  The subscriber is attached from *)
(* offset 0 on with the empty prefix.  Its pipe may fill up, its standard  *)
(* output may fail, and the server may be gone before it acknowledges.     *)
(***************************************************************************)
EXTENDS Protocol
LOCAL INSTANCE SequencesExt

CONSTANTS
  COLON, NEWLINE,    \* the bytes ':' and '\n'
  TextInputs,        \* what a producer is given to read
  RawInputs,         \* the same, with --raw
  Topic,             \* name of the topic
  PipeSize           \* bytes the subscriber's FIFO holds, any one frame at least

ASSUME PipelineAssumption ==
  /\ {COLON, NEWLINE} \subseteq Bytes /\ COLON # NEWLINE
  /\ TextInputs \cup RawInputs \subseteq Seq(Bytes)
  /\ Topic \in Seq(Bytes) /\ PipeSize \in Nat
  /\ PipeSize >= 12 + MAX_PAYLOAD_SIZE

VARIABLES
  raw_in, input,   \* the producer's --raw and what its standard input holds
  stdin,           \* what it has not read yet
  producer,        \* Publishing or its exit code
  requests,        \* frames on their way to the server
  messages,        \* the log: <<key, value>>
  cursor,          \* the subscriber's next_offset
  fifo,            \* bytes in the subscriber's FIFO
  attached,        \* the topic has a descriptor for it (fifo_fd is not -1)
  shut,            \* the topic has been shut down
  raw_out,         \* the subscriber's --raw
  reading,         \* what the subscriber reads next, and what it has read
  stdout,          \* what it has written
  output_failed,   \* ! std::cout.good()
  acked            \* the next_offset it acknowledged last

vars == <<raw_in, input, stdin, producer, requests, messages, cursor, fifo,
          attached, shut, raw_out, reading, stdout, output_failed, acked>>
serverVars == <<messages, cursor, fifo, attached, shut>>
subscriberVars == <<raw_out, reading, stdout, output_failed, acked>>
producerVars == <<raw_in, input, stdin, producer>>

Publishing == [at |-> "publishing"]
Poll == [at |-> "poll"]
Exit(code) == [at |-> "exit", code |-> code]

(* The subscriber ends with 3 too, but says "IPC communication error". *)
Unacked == [at |-> "unacked", code |-> 3]

TypeOK ==
  /\ raw_in \in BOOLEAN /\ raw_out \in BOOLEAN
  /\ shut \in BOOLEAN /\ attached \in BOOLEAN /\ output_failed \in BOOLEAN
  /\ input \in Seq(Bytes) /\ stdin \in Seq(Bytes)
  /\ producer \in {Publishing, Exit(0), Exit(1)}
  /\ requests \in Seq(Seq(Bytes))
  /\ messages \in Seq(Seq(Bytes) \X Seq(Bytes)) /\ cursor \in 0 .. Len(messages)
  /\ fifo \in Seq(Bytes) /\ stdout \in Seq(Bytes) /\ acked \in 0 .. U32 - 1
  /\ reading.at \in {"poll", "key", "value", "exit", "unacked"}

Init ==
  /\ raw_in \in BOOLEAN /\ raw_out \in BOOLEAN
  /\ input \in IF raw_in THEN RawInputs ELSE TextInputs
  /\ stdin = input /\ producer = Publishing
  /\ requests = <<>> /\ messages = <<>> /\ cursor = 0
  /\ fifo = <<>> /\ attached = TRUE /\ shut = FALSE
  /\ reading = Poll /\ stdout = <<>> /\ output_failed = FALSE /\ acked = 0
-----------------------------------------------------------------------------
(* The producer.                                                           *)

First(s, b) == SelectInSeq(s, LAMBDA c : c = b)
Rest(s, n) == SubSeq(s, n + 1, Len(s))

Failed == [ok |-> FALSE, key |-> <<>>, value |-> <<>>, rest |-> <<>>]

(* execute_publish_text: getline, cut at the first ':'; a line without one *)
(* or longer than the limit ends the command.                              *)
TextRecord(s) ==
  LET newline == First(s, NEWLINE)
      line == IF newline = 0 THEN s ELSE SubSeq(s, 1, newline - 1)
      separator == First(line, COLON)
      key == SubSeq(line, 1, separator - 1)
      value == Rest(line, separator)
  IN  IF separator = 0 \/ Len(key) > MAX_PAYLOAD_SIZE
           \/ Len(value) > MAX_PAYLOAD_SIZE - Len(key)
      THEN Failed
      ELSE [ok |-> TRUE, key |-> key, value |-> value,
            rest |-> IF newline = 0 THEN <<>> ELSE Rest(s, newline)]

(* Mutant: the value is measured by itself. *)
ValueFitsAlone(key_size, val_size) == val_size <= MAX_PAYLOAD_SIZE

ValueFits(key_size, val_size) == val_size <= MAX_PAYLOAD_SIZE - key_size

(* execute_publish_raw: length, key, length, value; a size beyond the      *)
(* limit or the end of the input in between ends the command.              *)
RawRecord(s) ==
  LET key_size == read_uint32_le(s, 0)
      val_size == read_uint32_le(s, 4 + key_size)
      begin == 8 + key_size
  IN  IF Len(s) >= 4 /\ key_size <= MAX_PAYLOAD_SIZE /\ Len(s) >= begin
           /\ ValueFits(key_size, val_size) /\ Len(s) >= begin + val_size
      THEN [ok |-> TRUE, key |-> SubSeq(s, 5, 4 + key_size),
            value |-> SubSeq(s, begin + 1, begin + val_size),
            rest |-> Rest(s, begin + val_size)]
      ELSE Failed

(* One turn of the loop: a record is read and its frame written, or the    *)
(* command ends, with 0 at the end of the input.                           *)
publish ==
  LET record == IF raw_in THEN RawRecord(stdin) ELSE TextRecord(stdin)
  IN  /\ producer = Publishing /\ stdin # <<>>
      /\ IF record.ok
         THEN /\ requests' = Append(requests, serialize(<<"PRODUCE", Topic, record.key, record.value>>))
              /\ stdin' = record.rest /\ UNCHANGED producer
         ELSE producer' = Exit(1) /\ UNCHANGED <<requests, stdin>>
      /\ UNCHANGED <<raw_in, input, serverVars, subscriberVars>>

end_of_input ==
  /\ producer = Publishing /\ stdin = <<>>
  /\ producer' = Exit(0)
  /\ UNCHANGED <<raw_in, input, stdin, requests, serverVars, subscriberVars>>
-----------------------------------------------------------------------------
(* The server.                                                             *)

(* A payload that does not parse is dropped without a trace. *)
handle_publish ==
  /\ requests # <<>>
  /\ requests' = Tail(requests)
  /\ LET parsed == parse("PRODUCE", Rest(Head(requests), 5))
     IN  messages' = IF parsed = {} THEN messages
                     ELSE LET r == CHOOSE r \in parsed : TRUE IN Append(messages, <<r[3], r[4]>>)
  /\ UNCHANGED <<producerVars, subscriberVars, cursor, fifo, attached, shut>>

(* write() on a non-blocking descriptor: all or nothing, and nothing too   *)
(* once the reader is gone.                                                *)
Writable(frame) ==
  /\ attached /\ reading.at \in {"poll", "key", "value"}
  /\ Len(fifo) + Len(frame) <= PipeSize

Written(frame) == fifo' = IF Writable(frame) THEN fifo \o frame ELSE fifo

(* Mutant: the last message does not count as work. *)
has_work_ButLast == cursor + 1 < Len(messages)

has_work == cursor < Len(messages)

(* Topic::run, one message: if the write fails the descriptor is closed,   *)
(* and the cursor moves on all the same.                                   *)
deliver ==
  LET m == messages[cursor + 1]
      frame == serialize_delivery(cursor % U32, m[1], m[2])
  IN  /\ ~shut /\ has_work
      /\ Written(frame)
      /\ attached' = Writable(frame)
      /\ cursor' = cursor + 1
      /\ UNCHANGED <<producerVars, requests, subscriberVars, messages, shut>>

(* Topic::shutdown: whether the sentinel was written is not looked at.     *)
shutdown ==
  /\ ~shut /\ shut' = TRUE
  /\ Written(serialize_shutdown)
  /\ attached' = FALSE
  /\ UNCHANGED <<producerVars, requests, subscriberVars, messages, cursor>>
-----------------------------------------------------------------------------
(* The subscriber.  read_exact returns false if the bytes do not come.     *)

Leave(code) == reading' = Exit(code) /\ UNCHANGED <<fifo, stdout, output_failed, acked>>

(* Mutant: the limit itself is refused. *)
SizesValid_Below(key_len, val_len) == (key_len + val_len) % U32 < MAX_PAYLOAD_SIZE

SizesValid(key_len, val_len) == (key_len + val_len) % U32 <= MAX_PAYLOAD_SIZE

read_header ==
  LET offset == read_uint32_le(fifo, 0)
      key_len == read_uint32_le(fifo, 4)
      val_len == read_uint32_le(fifo, 8)
  IN  /\ reading.at = "poll" /\ fifo # <<>>
      /\ IF Len(fifo) < 12 THEN Leave(3)
         ELSE IF is_shutdown(offset) THEN Leave(0)
         ELSE IF ~SizesValid(key_len, val_len) THEN Leave(3)
         ELSE /\ reading' = [at |-> "key", offset |-> offset,
                             key_len |-> key_len, val_len |-> val_len]
              /\ fifo' = Rest(fifo, 12)
              /\ UNCHANGED <<stdout, output_failed, acked>>
      /\ UNCHANGED <<producerVars, requests, messages, cursor, attached, shut, raw_out>>

read_key ==
  /\ reading.at = "key"
  /\ IF Len(fifo) < reading.key_len THEN Leave(3)
     ELSE /\ reading' = [at |-> "value", offset |-> reading.offset,
                         key |-> SubSeq(fifo, 1, reading.key_len),
                         val_len |-> reading.val_len]
          /\ fifo' = Rest(fifo, reading.key_len)
          /\ UNCHANGED <<stdout, output_failed, acked>>
  /\ UNCHANGED <<producerVars, requests, messages, cursor, attached, shut, raw_out>>

format_text_message(m) == m[1] \o <<COLON>> \o m[2] \o <<NEWLINE>>

(* A record of raw input is one of raw output without its offset. *)
RawForm(m) ==
  write_uint32_le(Len(m[1])) \o m[1] \o write_uint32_le(Len(m[2])) \o m[2]

write_raw_message(offset, m) == write_uint32_le(offset) \o RawForm(m)

Formatted(offset, m) ==
  IF raw_out THEN write_raw_message(offset, m) ELSE format_text_message(m)

(* The message reaches standard output, or std::cout fails with any part   *)
(* of it written; what has failed stays failed and takes nothing any more. *)
Prints(text) ==
  ~output_failed /\ stdout' = stdout \o text /\ UNCHANGED output_failed

OutputFails(text) ==
  /\ output_failed' = TRUE
  /\ IF output_failed THEN UNCHANGED stdout
     ELSE \E n \in 0 .. Len(text) : stdout' = stdout \o SubSeq(text, 1, n)

(* The next offset is acknowledged.  The write fails if the server is gone. *)
Acknowledges ==
  \/ reading' = Poll /\ acked' = (reading.offset + 1) % U32
  \/ shut /\ reading' = Unacked /\ UNCHANGED acked

(* The value is read and the message written.  Only the writes of raw      *)
(* output are looked at, before the flush: text, and a raw message whose   *)
(* flush alone failed, are acknowledged all the same.                      *)
read_value ==
  LET text == Formatted(reading.offset,
                        <<reading.key, SubSeq(fifo, 1, reading.val_len)>>)
  IN  /\ reading.at = "value"
      /\ \/ Len(fifo) < reading.val_len /\ Leave(3)
         \/ /\ Len(fifo) >= reading.val_len
            /\ fifo' = Rest(fifo, reading.val_len)
            /\ \/ Prints(text) /\ Acknowledges
               \/ (raw_out => ~output_failed) /\ OutputFails(text) /\ Acknowledges
               \/ raw_out /\ OutputFails(text) /\ reading' = Exit(1) /\ UNCHANGED acked
      /\ UNCHANGED <<producerVars, requests, messages, cursor, attached, shut, raw_out>>

Next ==
  \/ publish \/ end_of_input
  \/ handle_publish \/ deliver \/ shutdown
  \/ read_header \/ read_key \/ read_value

Fairness ==
  /\ WF_vars(publish \/ end_of_input)
  /\ WF_vars(handle_publish) /\ WF_vars(deliver)
  /\ WF_vars(read_header \/ read_key \/ read_value)

Spec == Init /\ [][Next]_vars /\ Fairness
-----------------------------------------------------------------------------
(* Correctness.                                                            *)

(* The input that consists of these messages. *)
AsInput(ms) ==
  FlattenSeq([i \in DOMAIN ms |-> IF raw_in THEN RawForm(ms[i]) ELSE format_text_message(ms[i])])

(* getline() makes no difference between a last line and one that is ended. *)
Terminated(s) ==
  IF raw_in \/ s = <<>> \/ Last(s) = NEWLINE THEN s ELSE Append(s, NEWLINE)

(* The log holds the records of the producer's input, in order, cut where  *)
(* the format says; a producer that exits with 0 has published all of it.  *)
InputPublished ==
  /\ IsPrefix(AsInput(messages), Terminated(input))
  /\ producer = Exit(0) /\ requests = <<>> => AsInput(messages) = Terminated(input)
  /\ ~raw_in => \A i \in DOMAIN messages : First(messages[i][1], COLON) = 0

Printed(n) == FlattenSeq([i \in 1 .. n |-> Formatted(i - 1, messages[i])])

(* The subscriber's output is the log up to what it has acknowledged, in   *)
(* the format asked for, with its offsets, or one message further if that  *)
(* one could not be acknowledged.  If the output has failed it is still a  *)
(* beginning of the log, and with --raw at most one message has been       *)
(* acknowledged and not printed (in text there is no such limit).          *)
OutputIsLog ==
  /\ acked <= Len(messages)
  /\ IsPrefix(stdout, Printed(Len(messages)))
  /\ ~output_failed => stdout = Printed(IF reading = Unacked THEN acked + 1 ELSE acked)
  /\ raw_out => IsPrefix(Printed(acked - 1), stdout)

(* A message that the producer lets through is accepted everywhere after   *)
(* it: the subscriber never ends with 3 for a message it does not like.    *)
LimitsAgree == reading # Exit(3)

(* As long as the topic keeps the descriptor (the pipe never overflows and *)
(* the topic is not shut down) and the output does not fail, every record  *)
(* the producer reads is printed and acknowledged.                         *)
AllPrinted ==
  [](attached /\ ~output_failed)
    => <>[](requests = <<>> /\ acked = Len(messages) /\ producer # Publishing)
=============================================================================
