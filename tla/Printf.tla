------------------------------- MODULE Printf --------------------------------
(***************************************************************************)
(* ft_printf and ft_dprintf of libft: the format is cut into fields, each  *)
(* of which registers the arguments it wants in a list sorted by index;    *)
(* the arguments are read in that order, the flags are looked at, and the  *)
(* fields are converted and written one by one.                            *)
(*                                                                         *)
(* A format and what is written are sequences of characters.  An argument  *)
(* is the word of eight bytes it is kept in, as its two halves of HalfMod  *)
(* values each, for the int is one half and the pointer and long are both: *)
(* va_arg writes one half or two of a variable that lives through the      *)
(* whole list.  A string is an address in Heap.                            *)
(***************************************************************************)
EXTENDS Integers, Sequences, SequencesExt, FiniteSets

CONSTANTS HalfMod,  \* the values of an int
          Heap,     \* the strings by their addresses
          Character \* the characters but for the zero, by their codes

VARIABLES script,       \* the call that is made, and those behind it
          str,          \* where the parsing is
          fields,       \* what was parsed
          args_req,     \* the requests for arguments, sorted
          arg_index,    \* arguments without an index so far
          pos_format,   \* static: 1 in order, 2 by position, 0 not known yet
          out,          \* what this call wrote
          nbr_chars,    \* what it returns
          stage

pvars == <<script, str, fields, args_req, arg_index, pos_format, out, nbr_chars, stage>>

NUL == "NUL"
Other == "another byte"
call == Head(script)
format == call.format
Char(k) == IF k <= Len(format) THEN format[k] ELSE NUL

Digits16 == <<"0", "1", "2", "3", "4", "5", "6", "7", "8", "9", "a", "b", "c", "d", "e", "f">>
DIGITS16 == <<"0", "1", "2", "3", "4", "5", "6", "7", "8", "9", "A", "B", "C", "D", "E", "F">>
Decimal == {Digits16[d] : d \in 1 .. 10}
ValueOf(digit) == CHOOSE d \in 0 .. 9 : Digits16[d + 1] = digit

\* The digits that begin at k, as ft_isdigit and ft_atoi see them.
Run(k) == CHOOSE n \in 0 .. Len(format) : /\ Char(k + n) \notin Decimal
                                          /\ \A j \in 0 .. n - 1 : Char(k + j) \in Decimal
ft_atoi(k) == FoldLeft(LAMBDA n, d : n * 10 + ValueOf(d), 0, SubSeq(format, k, k + Run(k) - 1))

-----------------------------------------------------------------------------
(* Parsing a field.  p is what the parsing has come to: at is the position, or *)
(* Null behind an error, whatever else is done then.                           *)
Null == 0
NewField == [flags |-> {}, width |-> 0, has_precision |-> FALSE, precision |-> 0,
             type |-> NUL, value |-> [hi |-> 0, lo |-> 0], text |-> <<>>]

Numbering(p) == IF p.pos_format = 0 THEN p.new_format ELSE p.pos_format
check_index_format(p) ==
    LET wrong == \/ p.given_index # 0 /\ Numbering(p) # p.new_format
                 \/ p.new_format # 0 /\ p.given_index = 0
    IN  [p EXCEPT !.pos_format = Numbering(p), !.at = IF wrong THEN Null ELSE @]

\* The star in front of the digits, which begin at k, is skipped unseen.
get_index(p, k, begin) ==
    IF Run(k) > 0 /\ Char(k + Run(k)) = "$"
    THEN [p EXCEPT !.new_format = 2, !.given_index = ft_atoi(k),
                   !.at = IF ft_atoi(k) = 0 THEN @ ELSE k + Run(k) + 1]
    ELSE IF ~begin /\ Char(p.at) = "*"
    THEN [p EXCEPT !.new_format = 1, !.given_index = p.arg_index + 1, !.arg_index = @ + 1, !.at = @ + 1]
    ELSE [p EXCEPT !.new_format = 0, !.given_index = 0]

parse_arg_index(p, begin) ==
    IF p.at = Null THEN [p EXCEPT !.given_index = 0]
    ELSE check_index_format(get_index(p, p.at + (IF begin THEN 0 ELSE 1), begin))

Groups == {{"c"}, {"s"}, {"p", "d", "i", "u", "x", "X", "t", "0", "1", "2", "3"}}
check_type_conflict(one, other) ==
    one.index = other.index => \E group \in Groups : {one.type, other.type} \subseteq group

\* Fault: a request goes in front of the others for its argument and those behind it.
RegisterFirst(p, member, index, type) ==
    LET req == [index |-> index, field |-> Len(fields) + 1, member |-> member, type |-> type]
    IN  [p EXCEPT !.reqs = <<req>> \o @]

\* register_arg_request and insert_arg_req: behind all requests for this argument or an
\* earlier one, unless the types do not go together.
register_arg_request(p, member, index, type) ==
    LET req == [index |-> index, field |-> Len(fields) + 1, member |-> member, type |-> type]
        before == Cardinality({k \in DOMAIN p.reqs : p.reqs[k].index <= index})
    IN  IF \A k \in DOMAIN p.reqs : check_type_conflict(p.reqs[k], req)
        THEN [p EXCEPT !.reqs = InsertAt(@, before + 1, req)]
        ELSE [p EXCEPT !.at = Null]

parse_flags(p) ==
    LET n == CHOOSE n \in 0 .. Len(format) : /\ Char(p.at + n) \notin {"#", " ", "0", "-", "+"}
                                             /\ \A j \in 0 .. n - 1 : Char(p.at + j) \in {"#", " ", "0", "-", "+"}
    IN  IF p.at = Null THEN p
        ELSE [p EXCEPT !.at = @ + n, !.field.flags = {Char(p.at + j) : j \in 0 .. n - 1}]

\* q has looked for an index.
Width(q) ==
    IF q.given_index # 0 THEN register_arg_request(q, "width", q.given_index, "t")
    ELSE IF q.at = Null THEN q
    ELSE [q EXCEPT !.field.width = ft_atoi(q.at), !.at = @ + Run(q.at)]
parse_width(p) == Width(parse_arg_index(p, FALSE))

Precision(q) ==
    IF q.given_index # 0 THEN register_arg_request(q, "precision", q.given_index, "d")
    ELSE IF q.at = Null THEN q
    ELSE [q EXCEPT !.field.precision = ft_atoi(q.at), !.at = @ + Run(q.at)]
parse_precision(p) ==
    IF p.at = Null \/ Char(p.at) # "." THEN p
    ELSE Precision(parse_arg_index([p EXCEPT !.at = @ + 1, !.field.has_precision = TRUE], FALSE))

LongTypes == [d |-> "0", u |-> "1", x |-> "2", X |-> "3"]
parse_conversion_type(p) ==
    IF p.at = Null THEN p
    ELSE IF Char(p.at) = "l" /\ Char(p.at + 1) \in DOMAIN LongTypes
    THEN [p EXCEPT !.at = @ + 2, !.field.type = LongTypes[Char(p.at + 1)]]
    ELSE IF Char(p.at) \in {"c", "s", "p", "d", "i", "u", "x", "X"}
    THEN [p EXCEPT !.at = @ + 1, !.field.type = Char(p.at)]
    ELSE [p EXCEPT !.at = Null]

\* A field without an index takes the next argument.
TakeIndex(p, index) ==
    IF index # 0 THEN [p EXCEPT !.given_index = index]
    ELSE check_index_format([p EXCEPT !.new_format = 1, !.given_index = p.arg_index + 1, !.arg_index = @ + 1])
RegisterValue(p) == IF p.at = Null THEN p ELSE register_arg_request(p, "value", p.given_index, p.field.type)
ParseBehindIndex(p) ==
    RegisterValue(TakeIndex(parse_conversion_type(parse_precision(parse_width(parse_flags(p)))), p.given_index))

parse_field ==
    LET start == [at |-> str + 1, field |-> NewField, reqs |-> args_req, arg_index |-> arg_index,
                  pos_format |-> pos_format, new_format |-> 0, given_index |-> 0]
    IN  IF Char(str + 1) = "%" THEN [start EXCEPT !.at = str + 2, !.field.text = <<"%">>]
        ELSE ParseBehindIndex(parse_arg_index(start, TRUE))

-----------------------------------------------------------------------------
(* The end of a call.  check_index_format(-1) forgets how arguments were numbered *)
(* as soon as the fields are built or were given up.                              *)
ForgetFormat == pos_format' = 0

Return(value) == stage' = "done" /\ nbr_chars' = value

\* A NULL pointer is read, or memory of the caller freed.
Crash == stage' = "crashed" /\ UNCHANGED <<script, str, fields, args_req, arg_index, pos_format, out, nbr_chars>>

\* A field that lost its type to a precision: its value is taken for a text of its own,
\* printed to its end and freed with it, which the allocator may notice or not.
Foreign(field) == field.type = NUL /\ field.text = <<>>
FreesForeign(fs) == \E k \in DOMAIN fs : Foreign(fs[k]) /\ fs[k].value # NewField.value

\* fs are the fields that are freed.
GiveUp(fs) == \/ /\ Return(-1)
                 /\ fields' = <<>> /\ args_req' = <<>>
                 /\ ForgetFormat
                 /\ UNCHANGED <<script, str, arg_index, out>>
              \/ FreesForeign(fs) /\ Crash

\* calls are records of a format, its args and whether memory is short.
PrintfInit(calls) ==
    /\ script = calls
    /\ str = 1 /\ fields = <<>> /\ args_req = <<>> /\ arg_index = 0 /\ pos_format = 0
    /\ out = <<>> /\ nbr_chars = 0
    /\ stage = "build"

\* The next call.
ft_printf == /\ stage = "done" /\ Len(script) > 1
             /\ script' = Tail(script)
             /\ str' = 1 /\ fields' = <<>> /\ args_req' = <<>> /\ arg_index' = 0
             /\ out' = <<>> /\ nbr_chars' = 0
             /\ stage' = "build"
             /\ UNCHANGED pos_format

\* Text up to a % is a field of its own.  Memory that is short may be missing for the
\* node, for its content, which nothing looks at, for a text or for a request.
TextEnd == LET percents == {k \in str .. Len(format) : format[k] = "%"}
           IN  IF percents = {} THEN Len(format) ELSE (CHOOSE k \in percents : \A l \in percents : k <= l) - 1
get_next_field ==
    /\ stage = "build" /\ str <= Len(format)
    /\ \E text \in {SubSeq(format, str, TextEnd)}, p \in {parse_field} :
          \/ /\ text # <<>>
             /\ fields' = Append(fields, [NewField EXCEPT !.text = text])
             /\ str' = str + Len(text)
             /\ UNCHANGED <<script, args_req, arg_index, pos_format, out, nbr_chars, stage>>
          \/ /\ text = <<>> /\ p.at # Null
             /\ fields' = Append(fields, p.field)
             /\ str' = p.at /\ args_req' = p.reqs /\ arg_index' = p.arg_index /\ pos_format' = p.pos_format
             /\ UNCHANGED <<script, out, nbr_chars, stage>>
          \/ (text = <<>> /\ p.at = Null) /\ GiveUp(fields)
          \/ call.short /\ GiveUp(fields)
          \/ call.short /\ Crash

-----------------------------------------------------------------------------
Full(v) == v.hi * HalfMod + v.lo
Signed(n, mod) == IF n >= mod \div 2 THEN n - mod ELSE n

\* An int or unsigned int leaves the other half of the variable as it was.
retrieve_va_arg(value, arg, type) ==
    IF type \in {"c", "d", "i", "u", "x", "X"} THEN [value EXCEPT !.lo = arg.lo] ELSE arg

\* All eight bytes go where the request says: behind a precision lies the type.
Store(fs, req, value) ==
    CASE req.member = "value" -> [fs EXCEPT ![req.field].value = value]
      [] req.member = "width" -> [fs EXCEPT ![req.field].width = Full(value)]
      [] req.member = "precision" ->
            [fs EXCEPT ![req.field].precision = Signed(value.lo, HalfMod),
                       ![req.field].type = IF value.hi = 0 THEN NUL ELSE Other]

retrieve_arguments ==
    FoldLeft(LAMBDA r, req :
                 LET next == req.index - r.i = 1
                     value == IF next THEN retrieve_va_arg(r.value, call.args[req.index], req.type) ELSE r.value
                 IN  IF r.gap \/ req.index - r.i > 1 THEN [r EXCEPT !.gap = TRUE]
                     ELSE [r EXCEPT !.i = req.index, !.value = value, !.fields = Store(@, req, value)],
             [i |-> 0, value |-> [hi |-> 0, lo |-> 0], fields |-> fields, gap |-> FALSE],
             args_req)

\* ft_strchr finds the NUL behind the types too.
OneOf(type, types) == type \in types \cup {NUL}
Numbers == {"d", "i", "u", "x", "X", "0", "1", "2", "3"}
check_flag_conflict(field) ==
    /\ "#" \in field.flags => OneOf(field.type, {"x", "X", "2", "3"})
    /\ field.flags \cap {"0", " ", "+"} # {} => OneOf(field.type, Numbers)
    /\ ~({"-", "0"} \subseteq field.flags) /\ ~({" ", "+"} \subseteq field.flags)
    /\ field.precision # 0 => ~OneOf(field.type, {"p", "c"})

\* Behind the last field: the arguments are read, and the flags of all fields checked
\* before any is printed.
check_fields ==
    /\ stage = "build" /\ str > Len(format)
    /\ LET r == retrieve_arguments
           fine(built) == \A k \in DOMAIN fields : check_flag_conflict(built.fields[k])
       IN  \/ r.gap /\ GiveUp(r.fields)
           \/ ~r.gap /\ ~fine(r) /\ FreesForeign(r.fields) /\ Crash
           \/ /\ ~r.gap
              /\ IF fine(r) THEN stage' = "print" /\ fields' = r.fields /\ UNCHANGED nbr_chars
                 ELSE Return(0) /\ fields' = <<>>
              /\ args_req' = <<>>
              /\ ForgetFormat
              /\ UNCHANGED <<script, str, arg_index, out>>

-----------------------------------------------------------------------------
RECURSIVE InBase(_, _)
InBase(n, digits) == IF n < Len(digits) THEN <<digits[n + 1]>>
                     ELSE InBase(n \div Len(digits), digits) \o <<digits[(n % Len(digits)) + 1]>>
put_nbr(n) == IF n < 0 THEN <<"-">> \o InBase(-n, SubSeq(Digits16, 1, 10)) ELSE InBase(n, SubSeq(Digits16, 1, 10))

NoString == <<"(null pointer)">>
get_str_value(field) ==
    LET v == field.value
    IN  CASE field.type = "c" -> IF v.lo = 0 THEN <<>> ELSE <<Character[v.lo]>>
          [] field.type = "s" -> IF Full(v) = 0 THEN <<"(", "n", "u", "l", "l", ")">> ELSE Heap[Full(v)]
          [] field.type = "p" -> IF Full(v) = 0 THEN <<"(", "n", "i", "l", ")">>
                                 ELSE <<"0", "x">> \o InBase(Full(v), Digits16)
          [] field.type \in {"d", "i"} -> put_nbr(Signed(v.lo, HalfMod))
          [] field.type = "u" -> put_nbr(v.lo)
          [] field.type = "0" -> put_nbr(Signed(Full(v), HalfMod * HalfMod))
          [] field.type = "1" -> put_nbr(Full(v))
          [] field.type \in {"x", "X"} -> InBase(v.lo, IF field.type = "x" THEN Digits16 ELSE DIGITS16)
          [] field.type \in {"2", "3"} -> InBase(Full(v), IF field.type = "2" THEN Digits16 ELSE DIGITS16)
          [] OTHER -> NoString

insert_n_char(s, start, n, c) == SubSeq(s, 1, start) \o [k \in 1 .. n |-> c] \o SubSeq(s, start + 1, Len(s))
Starts(s, c) == s # <<>> /\ s[1] = c

format_precision(field, s) ==
    LET signs == IF Starts(s, "-") THEN 1 ELSE 0
    IN  IF field.type = "s" /\ (Full(field.value) # 0 \/ field.precision >= 6)
        THEN SubSeq(s, 1, IF field.precision < Len(s) THEN field.precision ELSE Len(s))
        ELSE IF Full(field.value) = 0 /\ (field.precision = 0 \/ field.type = "s") THEN <<>>
        ELSE IF Len(s) - signs < field.precision THEN insert_n_char(s, signs, field.precision - Len(s) + signs, "0")
        ELSE s

format_alt_form(field, s) == <<"0", IF field.type \in {"x", "2"} THEN "x" ELSE "X">> \o s
format_sign(field, s) == <<IF "+" \in field.flags THEN "+" ELSE " ">> \o s

format_width(field, s) ==
    LET zeros == /\ "0" \in field.flags /\ field.type \in Numbers
                 /\ ~(field.has_precision /\ field.precision <= field.width)
        signed == zeros /\ (Starts(s, "-") \/ Starts(s, "+"))
        start == IF zeros THEN IF signed THEN 1 ELSE 0
                 ELSE IF "-" \in field.flags THEN Len(s) ELSE 0
    IN  IF Len(s) < field.width THEN insert_n_char(s, start, field.width - Len(s), IF zeros THEN "0" ELSE " ") ELSE s

\* The string before its width is looked at, and whether an allocation stood behind it:
\* if that fails, the NULL it left is read.
Precise(field, s) ==
    IF field.type \in Numbers \cup {"s"} /\ field.precision >= 0 /\ field.has_precision
    THEN format_precision(field, s) ELSE s
Alternate(field, s) ==
    IF "#" \in field.flags /\ field.type \in {"x", "X", "2", "3"} /\ Full(field.value) # 0
    THEN format_alt_form(field, s) ELSE s
WithSign(field, s) ==
    IF field.type \in {"d", "i", "0"} /\ ~Starts(s, "-") /\ field.flags \cap {"+", " "} # {}
    THEN format_sign(field, s) ELSE s
Shaped(field, s) == WithSign(field, Alternate(field, Precise(field, s)))
Rebuilt(field, s) == Shaped(field, s) # s \/ (field.type = "s" /\ field.has_precision)

format_str(field, s) == format_width(field, Shaped(field, s))

\* A zero is written with the blanks of its field but for one, and counted with them.
print_null_byte(field, s) ==
    LET blanks == SubSeq(s, 1, Len(s) - 1)
    IN  IF "-" \in field.flags THEN <<NUL>> \o blanks ELSE blanks \o <<NUL>>

\* What a field writes.  The zero is looked for in all of the value.
Printed(field) ==
    LET s == format_str(field, get_str_value(field))
    IN  IF Foreign(field) THEN Heap[Full(field.value)]
        ELSE IF field.type = NUL THEN field.text
        ELSE IF field.type = "c" /\ Full(field.value) = 0 THEN print_null_byte(field, s)
        ELSE s

print_field ==
    /\ stage = "print" /\ fields # <<>>
    /\ LET field == Head(fields)
           text == field.type = NUL
           known == text \/ get_str_value(field) # NoString
       IN  \/ /\ known /\ (Foreign(field) => Full(field.value) \in DOMAIN Heap)
              /\ out' = out \o Printed(field)
              /\ nbr_chars' = nbr_chars + Len(Printed(field))
              /\ fields' = Tail(fields)
              /\ UNCHANGED <<script, str, args_req, arg_index, pos_format, stage>>
           \/ (~known \/ (call.short /\ ~text)) /\ GiveUp(fields)
           \/ /\ \/ Foreign(field)
                 \/ call.short /\ text /\ field.text = <<"%">>
                 \/ call.short /\ ~text /\ known /\ Rebuilt(field, get_str_value(field))
              /\ Crash

print_fields_end == /\ stage = "print" /\ fields = <<>>
                    /\ stage' = "done"
                    /\ UNCHANGED <<script, str, fields, args_req, arg_index, pos_format, out, nbr_chars>>

Ended == stage \in {"done", "crashed"} /\ (stage = "done" => Len(script) = 1) /\ UNCHANGED pvars

PrintfNext == \/ ft_printf \/ get_next_field \/ check_fields \/ print_field \/ print_fields_end \/ Ended
=============================================================================
