------------------------------ MODULE MCPrintf -------------------------------
(* Calls of ft_printf for TLC: every conversion with every set of flags, widths *)
(* and precisions around the lengths of the numbers; formats that number their  *)
(* arguments one way, the other, or wrongly, with a second call behind each;    *)
(* one with any allocation missing; and the lines of the digests.               *)
EXTENDS PrintHash, TLC

MCHalf == 256
Word(hi, lo) == [hi |-> hi, lo |-> lo]
abcAt == 5 * MCHalf + 1
MCHeap == abcAt :> <<"a", "b", "c">> @@ 7 * MCHalf :> <<"f">> @@ 3 :> <<"s", "t", "d", "i", "n">>
MCCharacter == 34 :> "\"" @@ 65 :> "A"
MCHashName == [md5 |-> <<"M", "D", "5">>, sha512 |-> <<"S", "H", "A", "5", "1", "2">>]

Values(conversion) ==
    CASE conversion = "c" -> {Word(0, 65), Word(0, 0)}
      [] conversion \in {"s", "p"} -> {Word(5, 1), Word(0, 0)}
      [] conversion \in {"d", "i", "u", "x", "X"} -> {Word(0, 0), Word(0, 42), Word(0, 200)}
      [] OTHER -> {Word(0, 0), Word(0, 42), Word(1, 4), Word(255, 200)}

Plain(conversion) == Field({}, 0, Absent, conversion, 0)
At(conversion, index) == Field({}, 0, Absent, conversion, index)
Equals == Text(<<"=">>)
Percent == Text(<<"%">>)
abcArg == Word(5, 1)
ways ==
    {Call(<<Field({"-"}, Star, Absent, "d", 0), Equals>>, <<Word(0, 4), Word(0, 42)>>, FALSE),
     Call(<<Plain("s"), Field({}, Star, 2, "s", 0)>>, <<abcArg, Word(0, 4), abcArg>>, FALSE),
     Call(<<At("s", 1), Equals, At("s", 1)>>, <<abcArg>>, FALSE),
     Call(<<At("d", 2), At("s", 1)>>, <<abcArg, Word(0, 7)>>, FALSE),
     Call(<<At("x", 2), Equals, At("d", 2), At("c", 1)>>, <<Word(0, 65), Word(0, 170)>>, FALSE),
     Call(<<At("d", 2)>>, <<Word(0, 1), Word(0, 2)>>, FALSE),
     Call(<<At("d", 1), At("d", 3)>>, <<Word(0, 1), Word(0, 2), Word(0, 3)>>, FALSE),
     Call(<<At("d", 1), Plain("d")>>, <<Word(0, 1), Word(0, 2)>>, FALSE),
     Call(<<Plain("d"), At("d", 1)>>, <<Word(0, 1), Word(0, 2)>>, FALSE),
     Call(<<At("d", 1), Equals, At("s", 1)>>, <<Word(0, 1)>>, FALSE),
     Call(<<At("s", 1), At("d", 1), At("d", 2)>>, <<abcArg, Word(0, 2)>>, TRUE),
     Call(<<Plain("s"), Plain("d"), Plain("lx")>>, <<abcArg, Word(0, 2), Word(3, 3)>>, TRUE),
     Call(<<Field({}, 0, Star, "s", 2), At("d", 4)>>, <<Word(0, 2), abcArg, Word(0, 1), Word(0, 1)>>, FALSE),
     Call(<<Field({}, 0, Star, "s", 0), Field({"0"}, 0, Absent, "s", 0)>>, <<Word(0, 2), abcArg, abcArg>>, FALSE),
     Call(<<Plain("s"), Field({}, 0, Star, "s", 0), Plain("ld"), Field({}, 0, Star, "s", 0)>>,
          <<abcArg, Word(0, 2), abcArg, Word(0, 5), Word(0, 2), abcArg>>, FALSE),
     Call(<<Equals, Field({"0", "-"}, 3, Absent, "d", 0)>>, <<Word(0, 2)>>, FALSE),
     Call(<<Plain("x"), Field({"0"}, 0, Absent, "s", 0)>>, <<Word(0, 2), abcArg>>, FALSE),
     Call(<<Equals, Field({"+"}, 6, 3, "d", 0), Percent, Field({}, 1, 1, "s", 0), Field({"#"}, 2, Absent, "lx", 0)>>,
          <<Word(0, 42), abcArg, Word(1, 1)>>, TRUE)}
seconds == {Call(<<Plain("d"), Equals, Plain("s")>>, <<Word(0, 42), abcArg>>, FALSE),
            Call(<<At("d", 2), At("s", 1)>>, <<abcArg, Word(0, 42)>>, FALSE)}
Names == {0} \cup DOMAIN MCHeap

PrintInit ==
    \/ \E conversion \in DOMAIN Conversion, width \in {0, 1, 6}, precision \in {Absent, 0, 2, 4, 7},
          flags \in SUBSET {"#", " ", "0", "-", "+"} :
       \E v \in Values(conversion) :
          PrintfInit(<<Call(<<Field(flags, width, precision, conversion, 0)>>, <<v>>, FALSE)>>)
    \/ \E first \in ways, second \in seconds : PrintfInit(<<first, second>>)
    \/ \E digest \in [1 .. 2 -> {Word(0, 0), Word(0, 15), Word(0, 255)}], name \in Names,
          quote, quiet, reverse \in BOOLEAN : PrintfInit(<<print_hash("md5", digest, name, quote, quiet, reverse)>>)
    \/ \E digest \in [1 .. 2 -> {Word(0, 0), Word(3, 15), Word(255, 0)}], name \in Names,
          quote, quiet, reverse \in BOOLEAN : PrintfInit(<<print_hash("sha512", digest, name, quote, quiet, reverse)>>)

\* The message of ft_options.c for an option that takes no argument: the name of the
\* program, then as much of the option as is its name.
StarInit == PrintfInit(<<Call(<<Plain("s"), Equals, Field({}, 0, Star, "s", 0), Equals>>,
                              <<Word(7, 0), Word(0, 2), abcArg>>, FALSE)>>)
StarSpec == StarInit /\ [][PrintfNext]_pvars
PrintSpec == PrintInit /\ [][PrintfNext]_pvars
=============================================================================
