------------------------------- MODULE Digest -------------------------------
(***************************************************************************)
(* How hash_buff_md5, hash_buff (sha224.c), hash_buff_sha256 and           *)
(* hash_buff_sha512 cut a message into blocks and pad its end.  The four   *)
(* differ in the size of a block, the room for the length and the order of *)
(* its bytes; the call of add_*_block stands between the action that fills *)
(* `block` and Absorb, and is modelled by Sha2 and Md5.                    *)
(***************************************************************************)
EXTENDS Integers, Sequences

CONSTANTS BlockLen,         \* 64, or 128 for SHA-512
          LengthLen,        \* the bytes kept for the length: 8 or 16
          LengthField(_),   \* what is written there for a number of bytes
          Messages

Byte == 0 .. 255
Marker == 128   \* the bit behind the message

ASSUME SizeAssumption == /\ BlockLen \in Nat /\ LengthLen \in Nat
                         /\ 0 < LengthLen /\ LengthLen < BlockLen
ASSUME MessageAssumption == Messages \subseteq Seq(Byte)
ASSUME LengthAssumption ==
    /\ \A m \in Messages : LengthField(Len(m)) \in Seq(Byte) /\ Len(LengthField(Len(m))) = LengthLen
    /\ \A m, n \in Messages : LengthField(Len(m)) = LengthField(Len(n)) => Len(m) = Len(n)

VARIABLES
    message,    \* str and len
    remaining,  \* the bytes of it that are not in a block yet
    padding,    \* the buffer of two blocks
    block,      \* what add_*_block is working on, <<>> when it is not
    pc,         \* "loop", "second", "done": where the caller goes on
    fed         \* history: all blocks so far

dvars == <<message, remaining, padding, block, pc, fed>>

Init == /\ message \in Messages
        /\ remaining = Len(message)
        /\ padding = [k \in 1 .. 2 * BlockLen |-> 0]
        /\ block = <<>> /\ pc = "loop" /\ fed = <<>>

Taken == Len(message) - remaining

\* A block of the message itself.
FullBlock == /\ pc = "loop" /\ block = <<>> /\ remaining >= BlockLen
             /\ block' = SubSeq(message, Taken + 1, Taken + BlockLen)
             /\ remaining' = remaining - BlockLen
             /\ UNCHANGED <<message, padding, pc, fed>>

\* Fault: the marker is forgotten where the length would just fit.
TwoBlocksLess == BlockLen - remaining < LengthLen

\* The marker and the length do not fit behind what remains.
TwoBlocks == BlockLen - remaining <= LengthLen

LastByte == IF TwoBlocks THEN 2 * BlockLen ELSE BlockLen

\* The buffer, which is zeroed where it is declared, gets what remains, then the
\* marker, and last the length, which is written over whatever it meets.
EndByte(k) ==
    IF k \in LastByte - LengthLen + 1 .. LastByte
    THEN LengthField(Len(message))[k - (LastByte - LengthLen)]
    ELSE IF k = remaining + 1 THEN Marker
    ELSE IF k <= remaining THEN message[Taken + k] ELSE 0
PaddedEnd == [k \in 1 .. 2 * BlockLen |-> EndByte(k)]

Pad == /\ pc = "loop" /\ block = <<>> /\ remaining < BlockLen
       /\ padding' = PaddedEnd
       /\ block' = SubSeq(PaddedEnd, 1, BlockLen)
       /\ pc' = IF TwoBlocks THEN "second" ELSE "done"
       /\ UNCHANGED <<message, remaining, fed>>

Second == /\ pc = "second" /\ block = <<>>
          /\ block' = SubSeq(padding, BlockLen + 1, 2 * BlockLen)
          /\ pc' = "done"
          /\ UNCHANGED <<message, remaining, padding, fed>>

\* add_*_block returns.
Absorb == /\ block # <<>>
          /\ fed' = fed \o block
          /\ block' = <<>>
          /\ UNCHANGED <<message, remaining, padding, pc>>

Returned == pc = "done" /\ block = <<>> /\ UNCHANGED dvars

Feed == FullBlock \/ Pad \/ Second
Next == Feed \/ Absorb \/ Returned
Spec == Init /\ [][Next]_dvars

-----------------------------------------------------------------------------
TypeOK == /\ message \in Messages
          /\ remaining \in 0 .. Len(message)
          /\ padding \in [1 .. 2 * BlockLen -> Byte]
          /\ block \in Seq(Byte) /\ (block # <<>> => Len(block) = BlockLen)
          /\ pc \in {"loop", "second", "done"}
          /\ fed \in Seq(Byte)

Whole(n) == \E q \in 0 .. n : n = q * BlockLen

\* A sequence is a padded message: the message, the marker, zeros and the length,
\* a whole number of blocks and the least that will do.
IsPadded(m, f) ==
    /\ Whole(Len(f))
    /\ Len(m) + 1 + LengthLen <= Len(f) /\ Len(f) < Len(m) + 1 + LengthLen + BlockLen
    /\ \A k \in 1 .. Len(m) : f[k] = m[k]
    /\ f[Len(m) + 1] = Marker
    /\ \A k \in Len(m) + 2 .. Len(f) - LengthLen : f[k] = 0
    /\ \A k \in 1 .. LengthLen : f[Len(f) - LengthLen + k] = LengthField(Len(m))[k]

\* What the function hashes is its message, padded as RFC 1321 and FIPS 180-4
\* say, for every length around the end of a block.
Padded == pc = "done" /\ block = <<>> => IsPadded(message, fed)

\* A message that can be read from the front of some blocks, with its length at the end.
ReadsAs(m, f) == /\ Len(m) + LengthLen <= Len(f)
                 /\ \A k \in 1 .. Len(m) : f[k] = m[k]
                 /\ \A k \in 1 .. LengthLen : f[Len(f) - LengthLen + k] = LengthField(Len(m))[k]

\* No two messages are hashed as the same blocks: the message is what can be read from
\* them, and nothing else can.
Unambiguous == pc = "done" /\ block = <<>> => {m \in Messages : ReadsAs(m, fed)} = {message}

\* What was fed, and is about to be, is the beginning of the padded message, and
\* after the loop the buffer holds the rest of it.
Hashed == fed \o block
InLoop == pc = "loop" => /\ Len(Hashed) = Taken
                         /\ \A k \in 1 .. Taken : Hashed[k] = message[k]
AfterLoop == pc # "loop" => remaining < BlockLen /\ padding = PaddedEnd
InSecond == pc = "second" => /\ TwoBlocks
                             /\ Len(Hashed) = Taken + BlockLen
                             /\ \A k \in 1 .. Taken : Hashed[k] = message[k]
                             /\ \A k \in 1 .. BlockLen : Hashed[Taken + k] = padding[k]
AtEnd == pc = "done" => IsPadded(message, Hashed)
IInv == TypeOK /\ Whole(Taken) /\ InLoop /\ AfterLoop /\ InSecond /\ AtEnd
=============================================================================
