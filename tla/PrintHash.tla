------------------------------ MODULE PrintHash ------------------------------
(***************************************************************************)
(* What ft_printf promises, and the lines that the print_hash of the four  *)
(* digests prints with it.  A call is about the pieces that its format was *)
(* made of, or about a digest.                                             *)
(***************************************************************************)
EXTENDS Printf

Text(chars) == [kind |-> "text", text |-> chars]
Field(flags, width, precision, conversion, index) ==
    [kind |-> "field", flags |-> flags, width |-> width, precision |-> precision,
     conversion |-> conversion, index |-> index]
Absent == -1    \* no precision
Star == -2      \* a width or precision that is an argument

\* A star stands for the argument in front, which has to be named where the others are.
Number(n, index) == IF n # Star THEN put_nbr(n)
                    ELSE <<"*">> \o IF index = 0 THEN <<>> ELSE put_nbr(index - 1) \o <<"$">>
Conversion == [c |-> <<"c">>, s |-> <<"s">>, p |-> <<"p">>, d |-> <<"d">>, i |-> <<"i">>, u |-> <<"u">>,
               x |-> <<"x">>, X |-> <<"X">>, ld |-> <<"l", "d">>, lu |-> <<"l", "u">>,
               lx |-> <<"l", "x">>, lX |-> <<"l", "X">>]
Written(piece) ==
    IF piece.kind = "text" THEN IF piece.text = <<"%">> THEN <<"%", "%">> ELSE piece.text
    ELSE <<"%">> \o (IF piece.index = 0 THEN <<>> ELSE put_nbr(piece.index) \o <<"$">>)
                 \o SetToSeq(piece.flags)
                 \o (IF piece.width = 0 THEN <<>> ELSE Number(piece.width, piece.index))
                 \o (IF piece.precision = Absent THEN <<>> ELSE <<".">> \o Number(piece.precision, piece.index))
                 \o Conversion[piece.conversion]
Call(pieces, args, short) ==
    [format |-> FlattenSeq([k \in DOMAIN pieces |-> Written(pieces[k])]), args |-> args, short |-> short,
     about |-> [kind |-> "pieces", pieces |-> pieces]]

-----------------------------------------------------------------------------
(* What was asked for.                                                         *)
asked == call.about.pieces
FieldsAsked == {k \in DOMAIN asked : asked[k].kind = "field"}
Wants(piece) == IF piece.kind = "text" THEN 0
                ELSE 1 + Cardinality({m \in {"width", "precision"} : piece[m] = Star})
UpTo(k) == FoldLeft(LAMBDA n, piece : n + Wants(piece), 0, SubSeq(asked, 1, k))
IndexOf(k) == IF asked[k].index = 0 THEN UpTo(k) ELSE asked[k].index

Signs == {"d", "i", "ld"}
Hex == {"x", "X", "lx", "lX"}
Ints == Signs \cup Hex \cup {"u", "lu"}
Halves == {"c", "d", "i", "u", "x", "X"}
GroupOf(conversion) == IF conversion \in {"c", "s"} THEN conversion ELSE "number"

Malformed ==
    \/ \E j, k \in FieldsAsked : asked[j].index = 0 /\ asked[k].index # 0
    \/ \E j, k \in FieldsAsked :
          IndexOf(j) = IndexOf(k) /\ GroupOf(asked[j].conversion) # GroupOf(asked[k].conversion)
    \/ \E j \in FieldsAsked : \E n \in 1 .. asked[j].index : \A k \in FieldsAsked : asked[k].index # n

Refused ==
    \E k \in FieldsAsked :
        LET flags == asked[k].flags   conversion == asked[k].conversion
        IN  \/ "#" \in flags /\ conversion \notin Hex
            \/ flags \cap {"0", " ", "+"} # {} /\ conversion \notin Ints
            \/ asked[k].precision > 0 /\ conversion \in {"p", "c"}

NumberAsked(conversion, v) ==
    LET whole == IF conversion \in Halves THEN v.lo ELSE Full(v)
    IN  IF conversion \in Signs THEN Signed(whole, IF conversion = "ld" THEN HalfMod * HalfMod ELSE HalfMod) ELSE whole
Repeat(n, c) == [k \in 1 .. n |-> c]
Sized(n) == IF n < 0 THEN 0 ELSE n

\* The characters of a field, as the comment over ft_printf describes them.
Documented(piece, width, precision, v) ==
    LET conversion == piece.conversion
        n == NumberAsked(conversion, v)
        digits == IF conversion \in Hex THEN InBase(n, IF conversion \in {"X", "lX"} THEN DIGITS16 ELSE Digits16)
                  ELSE put_nbr(IF n < 0 THEN -n ELSE n)
        prefix == IF conversion \in Signs /\ n < 0 THEN <<"-">>
                  ELSE IF conversion \in Signs /\ "+" \in piece.flags THEN <<"+">>
                  ELSE IF conversion \in Signs /\ " " \in piece.flags THEN <<" ">>
                  ELSE IF "#" \in piece.flags /\ n # 0
                  THEN <<"0", IF conversion \in {"X", "lX"} THEN "X" ELSE "x">> ELSE <<>>
        text == CASE conversion = "c" -> IF v.lo = 0 THEN <<NUL>> ELSE <<Character[v.lo]>>
                  [] conversion = "p" -> IF Full(v) = 0 THEN <<"(", "n", "i", "l", ")">>
                                         ELSE <<"0", "x">> \o InBase(Full(v), Digits16)
                  [] conversion = "s" -> LET s == IF Full(v) = 0 THEN <<"(", "n", "u", "l", "l", ")">> ELSE Heap[Full(v)]
                                         IN  IF precision < 0 THEN s
                                             ELSE IF Full(v) = 0 /\ precision < 6 THEN <<>>
                                             ELSE SubSeq(s, 1, IF precision < Len(s) THEN precision ELSE Len(s))
                  [] OTHER -> IF precision = 0 /\ n = 0 THEN <<>> ELSE Repeat(Sized(precision - Len(digits)), "0") \o digits
        number == conversion \in Ints
        before == IF number THEN prefix ELSE <<>>
        missing == Sized(width - Len(before \o text))
    IN  IF "-" \in piece.flags THEN before \o text \o Repeat(missing, " ")
        ELSE IF number /\ "0" \in piece.flags /\ precision = Absent THEN before \o Repeat(missing, "0") \o text
        ELSE Repeat(missing, " ") \o before \o text

PieceAsked(k) ==
    LET piece == asked[k]
        v == call.args[IndexOf(k)]
        precision == IF piece.precision = Star THEN Signed(call.args[IndexOf(k) - 1].lo, HalfMod) ELSE piece.precision
        width == IF piece.width = Star THEN call.args[UpTo(k - 1) + 1].lo ELSE piece.width
    IN  IF piece.kind = "text" THEN piece.text
        ELSE Documented(piece, width, IF precision < 0 THEN Absent ELSE precision, v)
Asked(k) == FlattenSeq([j \in 1 .. k |-> PieceAsked(j)])

-----------------------------------------------------------------------------
\* Fields of which nothing is claimed.  Of - with 0 and of + with a blank the comments over
\* ft_printf and t_flags say that one overrides the other, the one over check_flag_conflict
\* that they exclude each other.  Zeros stand in front of a blank or of 0x; an int of zero
\* behind a pointer or long of which the upper half is in use is not known for zero; and a
\* precision that is an argument takes the type away from its field.
Disputed ==
    \E k \in FieldsAsked :
        LET piece == asked[k]   mine == IndexOf(k)
        IN  \/ {"-", "0"} \subseteq piece.flags \/ {"+", " "} \subseteq piece.flags
            \/ "0" \in piece.flags /\ piece.flags \cap {" ", "#"} # {}
            \/ piece.precision = Star
            \/ /\ piece.conversion \in Halves /\ call.args[mine].lo = 0
               /\ \E j \in FieldsAsked : /\ IndexOf(j) < mine /\ asked[j].conversion \notin Halves
                                         /\ call.args[IndexOf(j)].hi # 0

\* What a call prints and returns is what its format asks for, whatever calls were made
\* before it and however they failed; one whose flags do not go with a conversion prints
\* nothing and returns 0, one that mixes two ways to number its arguments prints nothing and
\* returns -1.  One that lacks memory prints whole fields: whether it then returns -1 or
\* crashes is not claimed, but no other call crashes.
PrintedAsAsked ==
    stage \in {"done", "crashed"} /\ call.about.kind = "pieces" /\ ~Disputed =>
        \/ /\ stage = "done"
           /\ \/ Malformed /\ out = <<>> /\ nbr_chars = -1
              \/ ~Malformed /\ Refused /\ out = <<>> /\ nbr_chars = 0
              \/ ~Malformed /\ ~Refused /\ out = Asked(Len(asked)) /\ nbr_chars = Len(out)
        \/ /\ call.short /\ (stage = "done" => nbr_chars = -1)
           /\ \E k \in 0 .. Len(asked) : out = Asked(k)

\* The comment over ft_printf, without the exceptions.
DocumentedOutput ==
    stage \in {"done", "crashed"} /\ ~call.short /\ ~Malformed /\ ~Refused =>
        stage = "done" /\ out = Asked(Len(asked))

-----------------------------------------------------------------------------
(* print_hash of md5.c, sha224.c, sha256.c and sha512.c.  A word of a digest has as many *)
(* digits as fill it: two, or four for the longs of SHA-512, with the halves of HashBits. *)
CONSTANT HashName   \* the names of the digests as they are printed, by their algorithms

Long(algorithm) == algorithm = "sha512"
\* Fault: the zeros in front of a word are not printed.
WordFormatBare(algorithm) == IF Long(algorithm) THEN <<"%", "l", "x">> ELSE <<"%", "x">>
WordFormat(algorithm) == IF Long(algorithm) THEN <<"%", "0", "4", "l", "x">> ELSE <<"%", "0", "2", "x">>

\* name is the address of a name, 0 for the NULL that asks for the digest alone.
print_hash(algorithm, digest, name, quote, quiet, reverse) ==
    LET words == FlattenSeq([k \in DOMAIN digest |-> WordFormat(algorithm)])
        mark == [hi |-> 0, lo |-> IF quote THEN 34 ELSE 0]
        named == <<mark, [hi |-> name \div HalfMod, lo |-> name % HalfMod], mark>>
        about == [kind |-> "hash", algorithm |-> algorithm, digest |-> digest, name |-> name,
                  quote |-> quote, quiet |-> quiet, reverse |-> reverse]
        ft_dprintf(fmt, args) == [format |-> fmt, args |-> args, short |-> FALSE, about |-> about]
    IN  IF name = 0 THEN ft_dprintf(words, digest)
        ELSE IF quiet THEN ft_dprintf(words \o <<"\n">>, digest)
        ELSE IF ~reverse
        THEN ft_dprintf(HashName[algorithm] \o <<"(", "%", "c", "%", "s", "%", "c", ")", "=", " ">> \o words \o <<"\n">>,
                        named \o digest)
        ELSE ft_dprintf(words \o <<" ", "%", "c", "%", "s", "%", "c", "\n">>, digest \o named)

\* The digits of all words of a digest, in order.
HexOf(about) ==
    LET digits(w) == IF Long(about.algorithm) THEN InBase(Full(w), Digits16) ELSE InBase(w.lo, Digits16)
        size == IF Long(about.algorithm) THEN 4 ELSE 2
    IN  FlattenSeq([k \in DOMAIN about.digest |->
            Repeat(size - Len(digits(about.digest[k])), "0") \o digits(about.digest[k])])

\* The line of a digest is printed and holds every digit of it, zeros in front included, and as much of
\* the name as was asked for, between quotes exactly when it is the text that was hashed;
\* the zeros that stand for missing quotes are not looked at, so nothing is claimed of them.
HashLine ==
    stage \in {"done", "crashed"} /\ call.about.kind = "hash" =>
        LET about == call.about
            quotes == IF about.quote THEN <<"\"">> ELSE <<>>
            name == quotes \o Heap[about.name] \o quotes
        IN  /\ stage = "done"
            /\ SelectSeq(out, LAMBDA c : c # NUL)
               = IF about.name = 0 THEN HexOf(about)
                 ELSE IF about.quiet THEN HexOf(about) \o <<"\n">>
                 ELSE IF about.reverse THEN HexOf(about) \o <<" ">> \o name \o <<"\n">>
                 ELSE HashName[about.algorithm] \o <<"(">> \o name \o <<")", "=", " ">> \o HexOf(about) \o <<"\n">>
=============================================================================
