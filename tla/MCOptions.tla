------------------------------ MODULE MCOptions ------------------------------
(* Prompt and Options for TLC: the options of a digest, of base64 and of a   *)
(* cipher, command lines of up to three words, and lines typed one after     *)
(* another, some of which do not end in white space.                         *)
EXTENDS Prompt

\* parse_args_md5.c, lines 8 to 25.
DigestMap ==
    <<[id |-> "echo", short |-> "p", long |-> <<"e", "c", "h", "o">>, arg |-> FALSE],
      [id |-> "quiet", short |-> "q", long |-> <<"q", "u", "i", "e", "t">>, arg |-> FALSE],
      [id |-> "reverse", short |-> "r", long |-> <<"r", "e", "v", "e", "r", "s", "e">>, arg |-> FALSE],
      [id |-> "sum", short |-> "s", long |-> <<"s", "u", "m">>, arg |-> TRUE]>>
\* parse_args_des.c, lines 17 to 64, without those that behave like these.
CipherMap ==
    <<[id |-> "decode", short |-> "d", long |-> <<"d", "e", "c", "o", "d", "e">>, arg |-> FALSE],
      [id |-> "input", short |-> "i", long |-> <<"i", "n", "p", "u", "t">>, arg |-> TRUE],
      [id |-> "key", short |-> "k", long |-> <<"k", "e", "y">>, arg |-> TRUE],
      [id |-> "pass", short |-> "p", long |-> <<"p", "a", "s", "s">>, arg |-> TRUE],
      [id |-> "iv", short |-> "v", long |-> <<"i", "v">>, arg |-> TRUE],
      [id |-> "print", short |-> "P", long |-> <<"p", "r", "i", "n", "t">>, arg |-> FALSE]>>
\* parse_args_base64.c, lines 8 to 27.
Base64Map ==
    <<[id |-> "encode", short |-> "e", long |-> <<"e", "n", "c", "o", "d", "e">>, arg |-> FALSE],
      [id |-> "decode", short |-> "d", long |-> <<"d", "e", "c", "o", "d", "e">>, arg |-> FALSE],
      [id |-> "input", short |-> "i", long |-> <<"i", "n", "p", "u", "t">>, arg |-> TRUE],
      [id |-> "output", short |-> "o", long |-> <<"o", "u", "t", "p", "u", "t">>, arg |-> TRUE]>>

\* No hexadecimal number begins with x.
NotHex(id, value) == id \in {"key", "iv"} /\ Len(value) > 0 /\ value[1] = "x"

DigestWords == {<<"f">>, <<"-">>, <<"-", "-">>, <<"-", "p">>, <<"-", "s">>, <<"-", "q", "s">>,
                <<"-", "s", "p">>, <<"-", "z">>, <<"-", "-", "s">>, <<"-", "-", "s", "=", "f">>,
                <<"-", "-", "q">>, <<"-", "-", "q", "=", "f">>, <<"-", "-", "x">>, <<"-", "-", " ", "s">>, <<>>}
CipherWords == {<<"f">>, <<"-", "-">>, <<"-", "d">>, <<"-", "d", "i">>, <<"-", "k">>, <<"-", "k", "x">>,
                <<"-", "-", "i">>, <<"-", "-", "i", "n">>, <<"-", "-", "p", "=", "f">>, <<"x">>,
                <<"-", "-", "p", "a">>, <<"-", "-", "k", "=", "f">>, <<"-", "-", "p", "r">>}
Base64Words == {<<"-", "e">>, <<"-", "d", "e">>, <<"-", "d", "i">>, <<"-", "-", "o">>, <<"-", "-", "e", "=">>, <<"f">>}
CommandLines(vocabulary) == UNION {[1 .. n -> vocabulary] : n \in 0 .. 3}
DigestLines == CommandLines(DigestWords)
CipherLines == CommandLines(CipherWords)
Base64Lines == CommandLines(Base64Words)

MCMap == [digest |-> DigestMap, base64 |-> Base64Map, cipher |-> CipherMap]
MCArgvs == [digest |-> DigestLines, base64 |-> Base64Lines, cipher |-> CipherLines]

MCName == [digest |-> <<"m">>, base64 |-> <<"b">>, cipher |-> <<"d">>]
Typings == {<<"m", "NL">>, <<"m", " ", "f", "NL">>, <<"m", " ", "-", "p", "NL">>, <<"NL">>, <<" ", " ", "NL">>,
            <<"b", " ", "-", "e", " ", "NL">>, <<" ", "d", "NL">>, <<"z", "NL">>,
            <<"m">>, <<"m", " ", "f">>, <<"b", " ", "-", "d", " ", "f">>, <<" ">>}
MCGarbage == {[k \in 1 .. 7 |-> Nul], [k \in 1 .. 7 |-> "f"],
              [k \in 1 .. 7 |-> IF k \in {3, 5} THEN "f" ELSE IF k = 4 THEN " " ELSE Nul]}
=============================================================================
