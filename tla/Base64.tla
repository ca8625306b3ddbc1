------------------------------- MODULE Base64 -------------------------------
(***************************************************************************)
(* The base64 command of one session (srcs/base64.c) and the writer it     *)
(* shares with every other command (print_character_64 in srcs/file.c),    *)
(* whose column counter is static and outlives the command.                *)
(*                                                                         *)
(* A character of the encoding is its index in `alphabets`: 0..63, 64 for  *)
(* '='.  The others are numbered behind it.  Each command either encodes a *)
(* payload, and its text is then decoded, or decodes a text that comes     *)
(* from elsewhere.                                                         *)
(***************************************************************************)
EXTENDS Integers, Sequences

CONSTANTS LineLen,      \* 64 in print_character_64
          Payloads,     \* what is encoded: sequences of bytes
          Texts,        \* what is decoded that no encoding wrote
          MaxCommands   \* bounds the session

Byte == 0 .. 255
PADDING_CHARACTER == 64
Newline == 65
Return == 66
Nul == 67           \* the byte read_file puts behind a payload
Other == 68         \* any character that is not in `alphabets`
Sextet == 0 .. 63
Char == 0 .. Other
Alphabet == 0 .. PADDING_CHARACTER     \* '=' included

ASSUME LineAssumption == LineLen \in Nat /\ LineLen > 0 /\ LineLen % 4 = 0
ASSUME PayloadAssumption == Payloads \subseteq Seq(Byte)
ASSUME TextAssumption == Texts \subseteq Seq(Char)
ASSUME BoundAssumption == MaxCommands \in Nat

-----------------------------------------------------------------------------
\* One to three bytes become four characters.
encode_chunk(c) ==
    CASE Len(c) = 1 -> <<c[1] \div 4, (c[1] % 4) * 16, PADDING_CHARACTER, PADDING_CHARACTER>>
      [] Len(c) = 2 -> <<c[1] \div 4, (c[1] % 4) * 16 + c[2] \div 16,
                         (c[2] % 16) * 4, PADDING_CHARACTER>>
      [] Len(c) = 3 -> <<c[1] \div 4, (c[1] % 4) * 16 + c[2] \div 16,
                         (c[2] % 16) * 4 + c[3] \div 64, c[3] % 64>>

\* Fault: what base64idx returns for other characters is taken for a position.
ValidAll(char) == char \in Char

\* base64idx finds it in `alphabets`.
Valid(char) == char \in Alphabet

\* The arithmetic of decode_chunk is done in bytes: what is shifted out is lost.
\* Its bits do not overlap, but for a '=' (64) in the second place of a group.
first(q) == IF q[2] = PADDING_CHARACTER /\ q[1] % 2 = 1
            THEN (q[1] * 4) % 256
            ELSE (q[1] * 4 + q[2] \div 16) % 256
second(q) == ((q[2] % 16) * 16 + q[3] \div 4) % 256
third(q) == ((q[3] % 4) * 64 + q[4]) % 256

\* What four characters decode to; a one byte answer is the -1 of the code.
Refused == <<-1>>
decode_chunk(q) ==
    CASE ~(\A i \in 1 .. 4 : Valid(q[i])) -> Refused
      [] (\A i \in 1 .. 4 : Valid(q[i])) /\ q[3] = PADDING_CHARACTER ->
            IF q[4] = PADDING_CHARACTER THEN <<first(q)>> ELSE Refused
      [] (\A i \in 1 .. 4 : Valid(q[i])) /\ q[3] # PADDING_CHARACTER ->
            IF q[4] = PADDING_CHARACTER THEN <<first(q), second(q)>>
                                        ELSE <<first(q), second(q), third(q)>>

-----------------------------------------------------------------------------
VARIABLES
    pc,         \* "idle", then "chunk" and "print" while encoding, "skip" while decoding
    nprint,     \* static in print_character_64
    payload,    \* the bytes that are encoded
    next,       \* how many of them encode_chunk has taken
    buff,       \* the characters print_character_64 still has to print
    text,       \* what was written so far, then what is decoded
    i,          \* the loop's index in base64_decode, from 0
    decoded,    \* the bytes base64_decode has written
    encoded,    \* history: text is what the encoding of payload wrote
    cut,        \* history: a write of base64_decode took only a part
    failed,     \* history: a write of some print_character_64 has failed
    ret,        \* "none" while the command runs, then how it ended
    start,      \* history: nprint when the encoding began
    commands    \* history: how many commands were run

vars == <<pc, nprint, payload, next, buff, text, i, decoded, encoded, cut, failed, ret, start, commands>>

Init == /\ pc = "idle" /\ nprint = 0 /\ payload = <<>> /\ next = 0 /\ buff = <<>>
        /\ text = <<>> /\ i = 0 /\ decoded = <<>>
        /\ encoded = FALSE /\ cut = FALSE /\ failed = FALSE
        /\ ret = "ok" /\ start = 0 /\ commands = 0

\* base64 -e, and io_base64_encode of a cipher command.
Encode == /\ pc = "idle" /\ commands < MaxCommands
          /\ pc' = "chunk" /\ ret' = "none" /\ commands' = commands + 1
          /\ payload' \in Payloads
          /\ next' = 0 /\ buff' = <<>> /\ text' = <<>> /\ encoded' = TRUE /\ cut' = FALSE
          /\ i' = 0 /\ decoded' = <<>> /\ start' = nprint
          /\ UNCHANGED <<nprint, failed>>

\* base64 -d of a text from elsewhere.
Decode == /\ pc = "idle" /\ commands < MaxCommands
          /\ pc' = "skip" /\ ret' = "none" /\ commands' = commands + 1
          /\ text' \in Texts
          /\ i' = 0 /\ decoded' = <<>> /\ encoded' = FALSE /\ cut' = FALSE
          /\ UNCHANGED <<nprint, payload, next, buff, failed, start>>

-----------------------------------------------------------------------------
(* base64_encode and print_character_64 *)

Remaining == Len(payload) - next

\* A chunk of three bytes or, at the end, of what remains.
Chunk ==
    /\ pc = "chunk" /\ Remaining > 0
    /\ LET n == IF Remaining >= 3 THEN 3 ELSE Remaining
       IN  /\ buff' = encode_chunk(SubSeq(payload, next + 1, next + n))
           /\ next' = next + n
    /\ pc' = "print"
    /\ UNCHANGED <<nprint, payload, text, i, decoded, encoded, cut, failed, ret, start, commands>>

Min2(a, b) == IF a < b THEN a ELSE b
\* How much write() is asked to take.
Request == Min2(Len(buff), LineLen - nprint)

\* The newline is printed by ft_sdprintf, and whether it could be is not looked at.
Ends == {<<Newline>>, <<>>}

\* Fault: after a short write the same characters are printed again.
PrintAgain ==
    /\ pc = "print" /\ buff # <<>>
    /\ \E n \in 1 .. Request, end \in Ends :
          LET full == nprint + n = LineLen
          IN  /\ text' = text \o SubSeq(buff, 1, n) \o (IF full THEN end ELSE <<>>)
              /\ failed' = (failed \/ (full /\ end = <<>>))
              /\ nprint' = IF full THEN 0 ELSE nprint + n
              /\ buff' = SubSeq(buff, Request + 1, Len(buff))
    /\ UNCHANGED <<pc, payload, next, i, decoded, encoded, cut, ret, start, commands>>

\* Fault: the column is counted before write says how much it took.
PrintCountsRequest ==
    /\ pc = "print" /\ buff # <<>>
    /\ \E n \in 1 .. Request, end \in Ends :
          LET full == nprint + Request = LineLen
          IN  /\ text' = text \o SubSeq(buff, 1, n) \o (IF full THEN end ELSE <<>>)
              /\ failed' = (failed \/ (full /\ end = <<>>))
              /\ nprint' = IF full THEN 0 ELSE nprint + Request
              /\ buff' = SubSeq(buff, n + 1, Len(buff))
    /\ UNCHANGED <<pc, payload, next, i, decoded, encoded, cut, ret, start, commands>>

\* Fault: the counter is not reset after a newline.
PrintNoReset ==
    /\ pc = "print" /\ buff # <<>>
    /\ \E n \in 1 .. Request, end \in Ends :
          LET full == nprint + n = LineLen
          IN  /\ text' = text \o SubSeq(buff, 1, n) \o (IF full THEN end ELSE <<>>)
              /\ failed' = (failed \/ (full /\ end = <<>>))
              /\ nprint' = nprint + n
              /\ buff' = SubSeq(buff, n + 1, Len(buff))
    /\ UNCHANGED <<pc, payload, next, i, decoded, encoded, cut, ret, start, commands>>

\* One call of print_character_64: a write takes part of the characters, and a
\* newline follows where the line is full.
print_character_64 ==
    /\ pc = "print" /\ buff # <<>>
    /\ \E n \in 1 .. Request, end \in Ends :
          LET full == nprint + n = LineLen
          IN  /\ text' = text \o SubSeq(buff, 1, n) \o (IF full THEN end ELSE <<>>)
              /\ failed' = (failed \/ (full /\ end = <<>>))
              /\ nprint' = IF full THEN 0 ELSE nprint + n
              /\ buff' = SubSeq(buff, n + 1, Len(buff))
    /\ UNCHANGED <<pc, payload, next, i, decoded, encoded, cut, ret, start, commands>>

Printed ==
    /\ pc = "print" /\ buff = <<>>
    /\ pc' = "chunk"
    /\ UNCHANGED <<nprint, payload, next, buff, text, i, decoded, encoded, cut, failed, ret, start, commands>>

\* A write that fails ends the command; the counter keeps what it counted.
PrintFails ==
    /\ pc = "print" /\ buff # <<>>
    /\ pc' = "idle" /\ ret' = "write error" /\ failed' = TRUE
    /\ UNCHANGED <<nprint, payload, next, buff, text, i, decoded, encoded, cut, start, commands>>

\* The newline at the end goes out whatever the column is, and the counter is
\* not reset.  What was written is then decoded.
Encoded ==
    /\ pc = "chunk" /\ Remaining = 0
    /\ \E end \in Ends : text' = text \o end
    /\ pc' = "skip" /\ i' = 0
    /\ UNCHANGED <<nprint, payload, next, buff, decoded, encoded, cut, failed, ret, start, commands>>

-----------------------------------------------------------------------------
(* base64_decode *)

\* The byte at an index of the payload's block: behind it is the NUL, and behind
\* that there may be anything, which Over stands for.
At(k, over) == IF k < Len(text) THEN text[k + 1] ELSE IF k = Len(text) THEN Nul ELSE over

\* Newlines are skipped, but only where a group of four characters begins.
Skip == /\ pc = "skip" /\ i < Len(text) /\ At(i, Other) \in {Newline, Return}
        /\ i' = i + 1
        /\ UNCHANGED <<pc, nprint, payload, next, buff, text, decoded, encoded, cut, failed, ret, start, commands>>

Group == /\ pc = "skip" /\ i < Len(text) /\ At(i, Other) \notin {Newline, Return}
         /\ \E over \in Char :
              LET out == decode_chunk([k \in 1 .. 4 |-> At(i + k - 1, over)])
              IN  IF out = Refused
                  THEN /\ pc' = "idle" /\ ret' = "invalid input"
                       /\ UNCHANGED <<i, decoded, cut>>
                  ELSE /\ i' = i + 4
                       /\ \E n \in 1 .. Len(out) : /\ decoded' = decoded \o SubSeq(out, 1, n)
                                                   /\ cut' = (cut \/ n < Len(out))
                       /\ UNCHANGED <<pc, ret>>
         /\ UNCHANGED <<nprint, payload, next, buff, text, encoded, failed, start, commands>>

DecodeWriteFails ==
    /\ pc = "skip" /\ i < Len(text) /\ At(i, Other) \notin {Newline, Return}
    /\ \E over \in Char : decode_chunk([k \in 1 .. 4 |-> At(i + k - 1, over)]) # Refused
    /\ pc' = "idle" /\ ret' = "write error"
    /\ UNCHANGED <<nprint, payload, next, buff, text, i, decoded, encoded, cut, failed, start, commands>>

Decoded ==
    /\ pc = "skip" /\ i >= Len(text)
    /\ pc' = "idle" /\ ret' = "ok"
    /\ UNCHANGED <<nprint, payload, next, buff, text, i, decoded, encoded, cut, failed, start, commands>>

Progress == Chunk \/ print_character_64 \/ Printed \/ Encoded \/ Skip \/ Group \/ Decoded
Next == Encode \/ Decode \/ Progress \/ PrintFails \/ DecodeWriteFails
Spec == Init /\ [][Next]_vars /\ WF_vars(Progress)

-----------------------------------------------------------------------------
TypeOK == /\ pc \in {"idle", "chunk", "print", "skip"}
          /\ nprint \in 0 .. LineLen - 1
          /\ payload \in Seq(Byte)
          /\ next \in 0 .. Len(payload)
          /\ buff \in Seq(Alphabet) /\ Len(buff) <= 4
          /\ text \in Seq(Char)
          /\ decoded \in Seq(Byte)
          /\ i \in Nat
          /\ encoded \in BOOLEAN /\ cut \in BOOLEAN /\ failed \in BOOLEAN
          /\ ret \in {"none", "ok", "write error", "invalid input"}
          /\ start \in 0 .. LineLen - 1
          /\ commands \in 0 .. MaxCommands

\* A payload comes back from its encoding, whatever parts the writes took it in
\* and wherever its first line began, as long as that was between two groups;
\* what a decoding that could not be finished leaves is a part of it.
RoundTrip ==
    encoded /\ start % 4 = 0 /\ pc \in {"skip", "idle"} /\ ~cut =>
        /\ ret # "invalid input"
        /\ Len(decoded) <= Len(payload) /\ decoded = SubSeq(payload, 1, Len(decoded))
        /\ ret = "ok" => decoded = payload

\* The layout of the text: newlines where the line is full, counted from where the last
\* command stopped counting, one more at the end, and none elsewhere.  Between commands the
\* static counter is at the end of a group, unless a write has failed; so the precondition
\* of RoundTrip is met in every session in which none did.
Layout ==
    /\ encoded /\ ~failed =>
           \A k \in 1 .. Len(text) :
               /\ (start + k) % (LineLen + 1) = 0 => text[k] = Newline
               /\ text[k] = Newline => \/ (start + k) % (LineLen + 1) = 0
                                       \/ k = Len(text) /\ pc \in {"skip", "idle"}
    /\ pc \in {"idle", "chunk", "skip"} /\ ~failed => nprint % 4 = 0

\* The decoding never goes on behind the end of the text, although it looks at up to
\* two bytes behind the NUL; and a text is only accepted when every character of it
\* is in the alphabet, or a newline between two groups.
OnlyAlphabet ==
    /\ i <= Len(text)
    /\ pc = "idle" /\ ret = "ok" => \A k \in 1 .. Len(text) : Valid(text[k]) \/ text[k] \in {Newline, Return}

\* Every command ends: print_character_64, which calls itself for what a write
\* left, is always left with less.
CommandsEnd == pc # "idle" ~> pc = "idle"
=============================================================================
