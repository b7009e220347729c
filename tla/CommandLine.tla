----------------------------- MODULE CommandLine -----------------------------
(***************************************************************************)
(* The command line of the client (client/src/command.cpp): parse_command, *)
(* and one step per turn of the loop over the options of subscribe.        *)
(*                                                                         *)
(* An argument is a sequence of characters; a word of the language         *)
(* ("create", "--raw") counts as one character, which a name may contain.  *)
(* argv begins with the IPC identifier: argc is Len(argv) + 1.             *)
(***************************************************************************)
EXTENDS Integers, Sequences
LOCAL INSTANCE SequencesExt
LOCAL INSTANCE FiniteSetsExt

CONSTANTS
  ArgVectors,   \* command lines
  NameChars,    \* letters, digits, '_', '.', '-'
  Digit,        \* value of a character that is a digit
  MaxName,      \* 32
  UINT32_MAX

ASSUME CommandLineAssumption ==
  /\ MaxName \in Nat /\ UINT32_MAX \in Nat
  /\ DOMAIN Digit \subseteq NameChars /\ \A ch \in DOMAIN Digit : Digit[ch] \in 0 .. 9

VARIABLES
  argv,
  index,     \* the option parse_subscribe looks at
  seen,      \* options it has accepted
  command,
  status     \* "start", "options", or the result: "ok" or "failed"

vars == <<argv, index, seen, command, status>>

CommandType ==
  [create |-> "CREATE", list |-> "LIST", produce |-> "CONNECT",
   subscribe |-> "SUBSCRIBE", info |-> "INFO"]

make_empty_command ==
  [type |-> "CREATE", topic |-> <<>>, subscriber |-> <<>>, prefix |-> <<>>,
   offset |-> 0, has_offset |-> FALSE, raw |-> FALSE]

TypeOK ==
  /\ argv \in ArgVectors /\ index \in 0 .. Len(argv) + 1
  /\ seen \subseteq {"--raw", "--prefix", "--offset"}
  /\ status \in {"start", "options", "ok", "failed"}
  /\ command.offset \in 0 .. UINT32_MAX
  /\ command.raw \in BOOLEAN /\ command.has_offset \in BOOLEAN

Init ==
  /\ argv \in ArgVectors
  /\ index = 0 /\ seen = {} /\ command = make_empty_command /\ status = "start"
-----------------------------------------------------------------------------
is_valid_name(value) ==
  Len(value) \in 1 .. MaxName /\ \A i \in DOMAIN value : value[i] \in NameChars

InRange(number) == number <= UINT32_MAX

(* The number after every digit; none of them may exceed the range. *)
parse_offset(value) ==
  LET number[i \in 0 .. Len(value)] ==
        IF i = 0 THEN 0 ELSE number[i - 1] * 10 + Digit[value[i]]
  IN  IF /\ value # <<>>
         /\ \A i \in DOMAIN value : value[i] \in DOMAIN Digit
         /\ \A i \in DOMAIN value : InRange(number[i])
      THEN {number[Len(value)]} ELSE {}

Operation == argv[2][1]

(* What parse_command demands of each operation. *)
Accepted ==
  /\ Len(argv) >= 2 /\ argv[1] # <<>>
  /\ Len(argv[2]) = 1 /\ Operation \in DOMAIN CommandType
  /\ CASE Operation = "create"    -> Len(argv) = 3 /\ is_valid_name(argv[3])
       [] Operation = "list"      -> Len(argv) = 2
       [] Operation = "produce"   -> /\ Len(argv) \in 3 .. 4 /\ is_valid_name(argv[3])
                                     /\ Len(argv) = 4 => argv[4] = <<"--raw">>
       [] Operation = "subscribe" -> Len(argv) >= 4 /\ is_valid_name(argv[3])
                                     /\ is_valid_name(argv[4])
       [] Operation = "info"      -> Len(argv) = 3 /\ is_valid_name(argv[3])

Finish(result) == status' = result /\ UNCHANGED <<argv, index, seen, command>>

parse_command ==
  /\ status = "start" /\ Accepted
  /\ command' =
       [make_empty_command EXCEPT
          !.type = CommandType[Operation],
          !.topic = IF Operation \in {"create", "produce", "subscribe"} THEN argv[3] ELSE <<>>,
          !.subscriber = IF Operation = "info" THEN argv[3]
                         ELSE IF Operation = "subscribe" THEN argv[4] ELSE <<>>,
          !.raw = Operation = "produce" /\ Len(argv) = 4]
  /\ status' = IF Operation = "subscribe" THEN "options" ELSE "ok"
  /\ index' = IF Operation = "subscribe" THEN 5 ELSE index
  /\ UNCHANGED <<argv, seen>>

make_failure == status = "start" /\ ~Accepted /\ Finish("failed")

(* parse_subscribe: the option at index, and the argument after it. *)
Option(o) == status = "options" /\ index <= Len(argv) /\ argv[index] = <<o>>
HasValue == index + 1 <= Len(argv)

Take(o, arguments) ==
  index' = index + arguments /\ seen' = seen \cup {o} /\ UNCHANGED <<argv, status>>

option_raw ==
  /\ Option("--raw")
  /\ IF command.raw THEN Finish("failed")
     ELSE Take("--raw", 1) /\ command' = [command EXCEPT !.raw = TRUE]

option_prefix ==
  /\ Option("--prefix")
  /\ IF "--prefix" \in seen \/ ~HasValue THEN Finish("failed")
     ELSE Take("--prefix", 2) /\ command' = [command EXCEPT !.prefix = argv[index + 1]]

(* Mutant: the second --offset wins. *)
option_offset_Repeats ==
  /\ Option("--offset")
  /\ IF ~HasValue THEN Finish("failed")
     ELSE IF parse_offset(argv[index + 1]) = {} THEN Finish("failed")
     ELSE /\ Take("--offset", 2)
          /\ \E offset \in parse_offset(argv[index + 1]) :
               command' = [command EXCEPT !.offset = offset, !.has_offset = TRUE]

option_offset ==
  /\ Option("--offset")
  /\ IF "--offset" \in seen \/ ~HasValue THEN Finish("failed")
     ELSE IF parse_offset(argv[index + 1]) = {} THEN Finish("failed")
     ELSE /\ Take("--offset", 2)
          /\ \E offset \in parse_offset(argv[index + 1]) :
               command' = [command EXCEPT !.offset = offset, !.has_offset = TRUE]

option_unknown ==
  /\ status = "options" /\ index <= Len(argv)
  /\ argv[index] \notin {<<"--raw">>, <<"--prefix">>, <<"--offset">>}
  /\ Finish("failed")

make_success == status = "options" /\ index > Len(argv) /\ Finish("ok")

Next ==
  \/ parse_command \/ make_failure \/ make_success
  \/ option_raw \/ option_prefix \/ option_offset \/ option_unknown

Spec == Init /\ [][Next]_vars
-----------------------------------------------------------------------------
(* Correctness.                                                            *)

(* The decimal value of a numeral, its digits weighed from the right. *)
Numeral(value) == value # <<>> /\ \A i \in DOMAIN value : value[i] \in DOMAIN Digit
ValueOf(value) ==
  MapThenSumSet(LAMBDA i : Digit[value[i]] * 10 ^ (Len(value) - i), DOMAIN value)

(* A command line of subscribe after the names: options in some order,     *)
(* none twice, with their values.                                          *)
Options == {"--raw", "--prefix", "--offset"}
Spelled(line) ==
  FlattenSeq([i \in DOMAIN line.options |->
    CASE line.options[i] = "--raw"    -> <<<<"--raw">>>>
      [] line.options[i] = "--prefix" -> <<<<"--prefix">>, line.prefix>>
      [] line.options[i] = "--offset" -> <<<<"--offset">>, line.offset>>])

Lines(rest) ==
  LET Values == Range(rest) \cup {<<>>}
  IN  {line \in [options : UNION {SetToSeqs(S) : S \in SUBSET Options},
                 prefix : Values, offset : Values] : Spelled(line) = rest}

(* The command of such a line. *)
Says(line, cmd) ==
  LET given == Range(line.options)
  IN  /\ cmd.raw = ("--raw" \in given)
      /\ cmd.has_offset = ("--offset" \in given)
      /\ cmd.prefix = IF "--prefix" \in given THEN line.prefix ELSE <<>>
      /\ cmd.has_offset => /\ Numeral(line.offset) /\ ValueOf(line.offset) <= UINT32_MAX
                           /\ cmd.offset = ValueOf(line.offset)

Usable(line) ==
  "--offset" \in Range(line.options)
    => Numeral(line.offset) /\ ValueOf(line.offset) <= UINT32_MAX

(* parse_subscribe, which reads from left to right and takes whatever      *)
(* follows --prefix as its value, accepts the lines that consist of        *)
(* options and their values, each option at most once and in any order,    *)
(* with an offset of 32 bits, and no other; and its command says what the  *)
(* line says.                                                              *)
SubscribeReadsLine ==
  LET lines == Lines(SubSeq(argv, 5, Len(argv)))
  IN  status \in {"ok", "failed"} /\ index >= 5 /\ Operation = "subscribe" =>
        IF status = "ok" THEN \E line \in lines : Says(line, command)
        ELSE \A line \in lines : ~Usable(line)
=============================================================================
