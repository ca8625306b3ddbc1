-------------------------------- MODULE Gnl ----------------------------------
(***************************************************************************)
(* ft_gnl of libft: the next line of a descriptor, from a buffer of its    *)
(* own that is static, so that what one call has read and not returned is  *)
(* there for the next.  Bytes that were returned are NUL in the buffer.    *)
(*                                                                         *)
(* Reads are short at will, and fail or find nothing more at times; a call *)
(* may be for any descriptor.  An allocation fails where AllocFails.       *)
(***************************************************************************)
EXTENDS Integers, Sequences, SequencesExt, FiniteSetsExt

CONSTANTS BUFFER_SIZE,
          Descriptors,
          Streams,      \* what they may give, as functions of them
          AllocFails    \* are there allocations that do?

Nul == "NUL"
Newline == "NL"
Nothing == <<Nul>>      \* no line: the pointer NULL; a line begins with another byte
Zeros == [k \in 1 .. BUFFER_SIZE |-> Nul]

ASSUME BufferAssumption == BUFFER_SIZE \in Nat \ {0}
ASSUME DescriptorsAssumption == Descriptors # {} /\ Descriptors \subseteq Nat
\* Texts, which have no NUL.
ASSUME StreamsAssumption ==
    \A s \in Streams : /\ DOMAIN s = Descriptors
                       /\ \A d \in Descriptors : /\ s[d] \in Seq(STRING)
                                                 /\ \A n \in 1 .. Len(s[d]) : s[d][n] # Nul

VARIABLES stream,   \* of each descriptor
          taken,    \* how much of it was read
          static,   \* the buffer of each descriptor
          fd, line, l_line,     \* of the call that is made
          gnl,      \* "idle", "parse" the buffer or "update" it
          returned, \* the lines of each descriptor, in order
          joined,   \* did every allocation for the descriptor succeed?
          full      \* did every read of it fill the buffer, or find the end?

gvars == <<stream, taken, static, fd, line, l_line, gnl, returned, joined, full>>

GnlInit == /\ stream \in Streams
           /\ taken = [d \in Descriptors |-> 0]
           /\ static = [d \in Descriptors |-> Zeros]
           /\ returned = [d \in Descriptors |-> <<>>]
           /\ fd = Min(Descriptors)
           /\ line = Nothing /\ l_line = 0 /\ gnl = "idle"
           /\ joined = [d \in Descriptors |-> TRUE] /\ full = joined

ft_gnl ==
    /\ gnl = "idle"
    /\ fd' \in Descriptors
    /\ line' = Nothing /\ l_line' = 0 /\ gnl' = "parse"
    /\ UNCHANGED <<stream, taken, static, returned, joined, full>>

Give(result) ==
    /\ gnl' = "idle"
    /\ returned' = IF result = Nothing THEN returned ELSE [returned EXCEPT ![fd] = Append(@, result)]

Bytes == static[fd]
\* The bytes in front that an earlier call has returned.
start == LET left == {k \in 1 .. BUFFER_SIZE : Bytes[k] # Nul} IN IF left = {} THEN BUFFER_SIZE ELSE Min(left) - 1
Ends == {k \in start + 1 .. BUFFER_SIZE : Bytes[k] \in {Newline, Nul}}
\* A line that ends in the buffer takes what ends it, which may be a NUL.
Part(last) == SubSeq(Bytes, start + 1, last)

\* The line and a part of the buffer behind it.  Without a line the first l_line bytes of
\* the new one are not written; after a failure they are any.
line_join(part) ==
    \/ /\ l_line = 0 \/ line # Nothing
       /\ line' = (IF line = Nothing THEN <<>> ELSE line) \o part
       /\ UNCHANGED joined
    \/ /\ l_line > 0 /\ line = Nothing
       /\ line' = [k \in 1 .. l_line |-> "junk"] \o part
       /\ UNCHANGED joined
    \/ AllocFails /\ line' = Nothing /\ joined' = [joined EXCEPT ![fd] = FALSE]

\* Fault: the newline stays.
ClearLess(last) == static' = [static EXCEPT ![fd] = [k \in 1 .. BUFFER_SIZE |-> IF k < last THEN Nul ELSE @[k]]]
\* What is returned is cleared, even when it was not.
Clear(last) == static' = [static EXCEPT ![fd] = [k \in 1 .. BUFFER_SIZE |-> IF k <= last THEN Nul ELSE @[k]]]

\* parse_buffer returns a line: the call as well, unless the line is lost.
ParseLine ==
    /\ gnl = "parse" /\ Ends # {}
    /\ line_join(Part(Min(Ends)))
    /\ Clear(Min(Ends))
    /\ IF line' = Nothing THEN gnl' = "update" /\ UNCHANGED returned ELSE Give(line')
    /\ UNCHANGED <<stream, taken, fd, l_line, full>>
ParseRest ==
    /\ gnl = "parse" /\ Ends = {}
    /\ IF start < BUFFER_SIZE THEN line_join(Part(BUFFER_SIZE)) ELSE UNCHANGED <<line, joined>>
    /\ l_line' = l_line + BUFFER_SIZE - start
    /\ gnl' = "update"
    /\ UNCHANGED <<stream, taken, static, fd, returned, full>>

\* read() gives as much as it likes, at least one byte unless the stream is at its end.
update_buffer ==
    /\ gnl = "update"
    /\ \E n \in 1 .. BUFFER_SIZE :
        /\ taken[fd] + n <= Len(stream[fd])
        /\ static' = [static EXCEPT ![fd] = [k \in 1 .. BUFFER_SIZE |->
                          IF k <= n THEN stream[fd][taken[fd] + k] ELSE Nul]]
        /\ taken' = [taken EXCEPT ![fd] = @ + n]
        /\ full' = [full EXCEPT ![fd] = @ /\ (n = BUFFER_SIZE \/ taken[fd] + n = Len(stream[fd]))]
    /\ gnl' = "parse"
    /\ UNCHANGED <<stream, fd, line, l_line, returned, joined>>

\* At the end of the stream, or when read() fails, the call returns the line it has.
NoMore ==
    /\ gnl = "update"
    /\ static' = [static EXCEPT ![fd] = Zeros]
    /\ full' = [full EXCEPT ![fd] = @ /\ taken[fd] = Len(stream[fd])]
    /\ Give(line)
    /\ UNCHANGED <<stream, taken, fd, line, l_line, joined>>

GnlNext == ft_gnl \/ ParseLine \/ ParseRest \/ update_buffer \/ NoMore
GnlSpec == GnlInit /\ [][GnlNext]_gvars

-----------------------------------------------------------------------------
\* Without the NULs.
Bare(text) == LET kept[n \in 0 .. Len(text)] ==
                      IF n = 0 THEN <<>>
                      ELSE IF text[n] = Nul THEN kept[n - 1] ELSE Append(kept[n - 1], text[n])
              IN  kept[Len(text)]
\* What was read of a descriptor and not returned.
Held(d) == IF d # fd \/ gnl = "idle" THEN static[d]
           ELSE (IF line = Nothing THEN <<>> ELSE line) \o (IF gnl = "parse" THEN static[d] ELSE <<>>)

\* Whatever the calls for other descriptors in between, and however short the reads, the
\* lines returned for a descriptor are what was read of it, nothing lost or returned twice,
\* as long as no allocation for it fails.  When its reads fill the buffer until the end of
\* the stream, as those of a file do, each line ends at a newline, and only the last of the
\* stream may have none; a short read ends a line as well.
LinesWhole ==
    \A d \in Descriptors : joined[d] =>
        /\ Bare(FlattenSeq(returned[d]) \o Held(d)) = SubSeq(stream[d], 1, taken[d])
        /\ \A k \in DOMAIN returned[d] :
              LET bare == Bare(returned[d][k])
              IN  /\ \A n \in 1 .. Len(bare) - 1 : bare[n] # Newline
                  /\ full[d] /\ Last(bare) # Newline => k = Len(returned[d]) /\ taken[d] = Len(stream[d])
=============================================================================
