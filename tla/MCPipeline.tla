----------------------------- MODULE MCPipeline ------------------------------
(* A small instance of Pipeline for TLC.  Bytes have 16 values, a message  *)
(* is at most two bytes long.                                              *)
EXTENDS Pipeline, TLC
LOCAL INSTANCE SequencesExt

Strings(S, n) == UNION {[1 .. k -> S] : k \in 0 .. n}

(* All texts of up to four characters: missing and repeated separators,    *)
(* empty keys and values, lines at and above the limit, no last newline.   *)
MCText == Strings({COLON, NEWLINE, 9}, 4)

(* A record with a key and a value of up to three bytes, ':' and '\n'      *)
(* among them, alone or after another record, cut off anywhere.            *)
MCRecord(k, v) == write_uint32_le(Len(k)) \o k \o write_uint32_le(Len(v)) \o v
MCRecords == {MCRecord(k, v) : k, v \in {<<>>, <<COLON>>, <<9, NEWLINE>>, <<9, 9, 9>>}}
MCFirst == MCRecord(<<9>>, <<NEWLINE>>)
MCRaw == UNION {{SubSeq(r, 1, n) : n \in 0 .. Len(r)} :
                  r \in MCRecords \cup {MCFirst \o a : a \in MCRecords}}
MCTopic == <<9>>
=============================================================================
