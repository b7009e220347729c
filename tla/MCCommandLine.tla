---------------------------- MODULE MCCommandLine ----------------------------
(* A small instance of CommandLine for TLC: names have at most two         *)
(* characters, numbers go up to 31.                                        *)
EXTENDS CommandLine, TLC

MCDigit == "0" :> 0 @@ "1" :> 1 @@ "3" :> 3
MCNameChars == {"a", "create", "list", "--raw", "--prefix", "--offset"} \cup DOMAIN MCDigit

Strings(S, n) == UNION {[1 .. k -> S] : k \in 0 .. n}

Words == {<<w>> : w \in {"create", "list", "produce", "subscribe", "info", "--raw"}}
MCName == {<<"a">>, <<"a", "1">>}
BadName == {<<>>, <<"a", " ">>, <<"a", "a", "a">>}

(* Everything up to four arguments. *)
Short == Strings(Words \cup {<<"a">>} \cup BadName, 4)

Subscription == <<<<"a">>, <<"subscribe">>, <<"a">>, <<"a", "1">>>>

(* Options in any order and number. *)
Lists == {Subscription \o rest :
            rest \in Strings({<<"--raw">>, <<"--prefix">>, <<"--offset">>, <<"1">>, <<"a">>}, 5)}

(* All numerals of up to four characters, one of them not a digit. *)
Offsets == {Subscription \o <<<<"--offset">>, n>> : n \in Strings({"0", "1", "3", "a"}, 4)}

MCArgVectors == Short \cup Lists \cup Offsets
=============================================================================
