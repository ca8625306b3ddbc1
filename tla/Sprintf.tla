------------------------------ MODULE Sprintf --------------------------------
(***************************************************************************)
(* ft_sprintf and ft_sdprintf of libft, which print all messages of the    *)
(* program: a format is expanded into a buffer of a fixed size, without an *)
(* allocation, and what does not fit is cut off.                           *)
(*                                                                         *)
(* An argument is its text, the digits of a number for instance.  A format *)
(* is made of pieces: characters, and the ways to print an argument.       *)
(***************************************************************************)
EXTENDS Integers, Sequences, SequencesExt

CONSTANT Messages   \* records of the pieces, the texts of the arguments and the buffer's size

ASSUME MessagesAssumption ==
    Messages \subseteq [pieces : Seq(STRING), args : Seq(Seq(STRING)), size : Nat \ {0}]

VARIABLES pieces, size,
          format,   \* the characters of the pieces
          args,     \* the texts of the arguments
          at,       \* the next character of the format
          next,     \* the next argument
          buffer,   \* what was written, without the NUL behind it
          phase

svars == <<pieces, size, format, args, at, next, buffer, phase>>

Ways == {"c", "d", "i", "u", "x", "X", "s", "p", "ld", "lu", "lx", "lX"}
Spelling(piece) == CASE piece = "ld" -> <<"%", "l", "d">> [] piece = "lu" -> <<"%", "l", "u">>
                     [] piece = "lx" -> <<"%", "l", "x">> [] piece = "lX" -> <<"%", "l", "X">>
                     [] piece = "percent" -> <<"%", "%">>
                     [] piece \in Ways \ {"ld", "lu", "lx", "lX"} -> <<"%", piece>>
                     [] OTHER -> <<piece>>
FormatOf(list) == FlattenSeq([k \in DOMAIN list |-> Spelling(list[k])])

SprintfInit ==
    /\ \E message \in Messages : /\ pieces = message.pieces /\ args = message.args /\ size = message.size
                                 /\ format = FormatOf(message.pieces)
    /\ at = 1 /\ next = 1 /\ buffer = <<>> /\ phase = "loop"

Char(k) == IF k <= Len(format) THEN format[k] ELSE "NUL"
len == Len(buffer)
Room == size - len

AtMost(text, n) == SubSeq(text, 1, IF Len(text) < n THEN Len(text) ELSE n)
put_str_buffer(text, room) == AtMost(text, room - 1)
\* Digits are written until the room is used up, ft_putunbr_base_buffer's as well.
ft_putnbr_buffer(text, room) == AtMost(text, room)
\* The digits of a pointer have the room that its 0x left, if all of that was written.
put_ptr_str(text, room) ==
    IF text = <<"(", "n", "i", "l", ")">> \/ room <= 2 THEN put_str_buffer(text, room)
                                                       ELSE ft_putnbr_buffer(text, room)

\* One turn of the loop: what is written of `length` characters of the format.
Writes(text, length) == /\ phase = "loop" /\ at <= Len(format) /\ len + 1 < size
                        /\ buffer' = buffer \o text
                        /\ at' = at + length
                        /\ UNCHANGED <<pieces, format, args, size, phase>>
\* Bound: a message has an argument for each place that takes one.
WritesArgument(text, length) == next <= Len(args) /\ Writes(text, length) /\ next' = next + 1
WritesText(text, length) == Writes(text, length) /\ UNCHANGED next

Plain == Char(at) # "%" /\ WritesText(<<Char(at)>>, 1)
Percent == Char(at) = "%" /\ Char(at + 1) = "%" /\ WritesText(<<"%">>, 2)
PutChar == Char(at) = "%" /\ Char(at + 1) = "c" /\ WritesArgument(<<args[next][1]>>, 2)
PutNumber == /\ Char(at) = "%" /\ Char(at + 1) \in {"d", "i", "u", "x", "X"}
             /\ WritesArgument(ft_putnbr_buffer(args[next], Room), 2)
PutString == /\ Char(at) = "%" /\ Char(at + 1) = "s"
             /\ WritesArgument(put_str_buffer(args[next], Room), 2)
PutPointer == /\ Char(at) = "%" /\ Char(at + 1) = "p"
              /\ WritesArgument(put_ptr_str(args[next], Room), 2)
PutLong == /\ Char(at) = "%" /\ Char(at + 1) = "l" /\ Char(at + 2) \in {"d", "u", "x", "X"}
           /\ WritesArgument(ft_putnbr_buffer(args[next], Room), 3)
NoLong == /\ Char(at) = "%" /\ Char(at + 1) = "l" /\ Char(at + 2) \notin {"d", "u", "x", "X"}
          /\ WritesText(put_str_buffer(<<"%", "l">>, Room), 2)
NoWay == /\ Char(at) = "%" /\ Char(at + 1) \notin {"%", "c", "d", "i", "u", "x", "X", "s", "p", "l"}
         /\ WritesText(<<"%">>, 1)

\* Fault: when the format goes on, what a number wrote into the last byte stays.
TerminateBehind ==
    /\ phase = "loop" /\ (at > Len(format) \/ len + 1 >= size)
    /\ phase' = "written"
    /\ UNCHANGED <<pieces, format, args, size, at, next, buffer>>

\* Behind the loop: when the format goes on, the last byte is for the NUL.
Terminate ==
    /\ phase = "loop" /\ (at > Len(format) \/ len + 1 >= size)
    /\ buffer' = IF at <= Len(format) THEN AtMost(buffer, size - 1) ELSE buffer
    /\ phase' = "written"
    /\ UNCHANGED <<pieces, format, args, size, at, next>>

parse_format == \/ Plain \/ Percent \/ PutChar \/ PutNumber \/ PutString \/ PutPointer \/ PutLong
                \/ NoLong \/ NoWay
SprintfNext == parse_format \/ Terminate \/ (phase = "written" /\ UNCHANGED svars)
SprintfSpec == SprintfInit /\ [][SprintfNext]_svars

-----------------------------------------------------------------------------
\* What the pieces stand for, with a % that is no way to print anything as it is.
Until(k) == Len(SelectSeq(SubSeq(pieces, 1, k), LAMBDA piece : piece \in Ways))
Expansion == FlattenSeq([k \in DOMAIN pieces |->
                 IF pieces[k] \in Ways THEN args[Until(k)]
                 ELSE IF pieces[k] = "percent" THEN <<"%">> ELSE <<pieces[k]>>])

\* No more text is written than the buffer holds.
Fits == len <= size

\* A number or pointer at the end that begins in the buffer and does not fit with a NUL: its
\* digits take the last byte, and the NUL that the comment over ft_sprintf promises for a
\* buffer of this size is written behind it.
Disputed == /\ pieces # <<>> /\ Last(pieces) \in Ways \ {"c", "s"}
            /\ Len(Expansion) - Len(Last(args)) + 1 < size /\ size <= Len(Expansion)

\* A message is what its format says, cut where its NUL takes the last byte and not before.
\* Nothing but Fits is claimed where code and comment differ (Disputed), and no message asks
\* for %li, which the comment lists (ft_sprintf.c:159) and the code prints as it stands.
CutOfWhole ==
    /\ Fits
    /\ phase = "written" /\ ~Disputed => buffer = AtMost(Expansion, size - 1)
=============================================================================
