---------------------------- MODULE Base64Proofs ----------------------------
(***************************************************************************)
(* Whatever is encoded, however long the lines are, wherever the last      *)
(* command left the column and however short the writes are: the text is   *)
(* laid out in full lines, decoding it gives back the payload, and nothing *)
(* outside the alphabet is ever accepted.                                  *)
(***************************************************************************)
EXTENDS Base64, SequenceTheorems, TLAPS

-----------------------------------------------------------------------------
(* The inductive invariant.                                                *)

\* How many bytes of a payload the first g groups of its encoding hold, and the
\* characters of the group behind them.
Taken(pay, g) == IF 3 * g <= Len(pay) THEN 3 * g ELSE Len(pay)
GroupOf(pay, g) == encode_chunk(SubSeq(pay, Taken(pay, g) + 1, Taken(pay, g + 1)))

\* The m-th character of the encoding of a payload is this one.
Spells(pay, m, char) ==
    \E g \in Nat, p \in 1 .. 4 :
        m = 4 * g + p /\ Taken(pay, g) < Len(pay) /\ char = GroupOf(pay, g)[p]

\* A text is the beginning of an encoding, cut into lines between groups: count[k] is
\* how many of its first k characters are not newlines.
Spelled(pay, t, count) ==
    /\ count \in [0 .. Len(t) -> Nat]
    /\ count[0] = 0
    /\ \A k \in 1 .. Len(t) :
          IF t[k] = Newline THEN count[k] = count[k - 1] /\ count[k] % 4 = 0
          ELSE count[k] = count[k - 1] + 1 /\ Spells(pay, count[k], t[k])

\* What of the payload is in the text, in buff and still to come.
Writing(count) ==
    /\ pc = "chunk" => \E g \in Nat : next = Taken(payload, g) /\ count[Len(text)] = 4 * g
    /\ pc = "print" =>
          \E g \in Nat : /\ next = Taken(payload, g + 1) /\ Taken(payload, g) < Len(payload)
                         /\ count[Len(text)] + Len(buff) = 4 * g + 4
                         /\ \A p \in 1 .. Len(buff) : buff[p] = GroupOf(payload, g)[4 - Len(buff) + p]

\* What of the text is decoded.
Reading(count) ==
    pc = "skip" =>
        /\ \E g \in Nat : Taken(payload, g) = Len(payload) /\ count[Len(text)] = 4 * g
        /\ ~cut => \E h \in Nat : count[i] = 4 * h /\ decoded = SubSeq(payload, 1, Taken(payload, h))

Codec == encoded /\ start % 4 = 0 /\ pc # "idle" =>
    \E count \in [0 .. Len(text) -> Nat] :
        Spelled(payload, text, count) /\ Writing(count) /\ Reading(count)

\* Where the command is, and what it has not begun yet.
Stage == /\ pc # "idle" => ret = "none"
         /\ pc \in {"chunk", "print"} => encoded /\ ~cut /\ i = 0 /\ decoded = <<>>

\* The column is at the end of a group whenever a group is complete.
Columns ==
    /\ ~failed /\ pc # "print" => nprint % 4 = 0
    /\ ~failed \/ start % 4 = 0 => /\ pc = "chunk" => nprint % 4 = 0
                                   /\ pc = "print" => (nprint + Len(buff)) % 4 = 0
    /\ ~failed /\ pc \in {"chunk", "print"} =>
          \E q \in Nat : start + Len(text) = q * (LineLen + 1) + nprint

\* What the decoding has passed.
Allowed(char) == Valid(char) \/ char \in {Newline, Return}
Passed == \A k \in 1 .. i : Allowed(text[k])

IInv == TypeOK /\ Stage /\ Codec /\ Columns /\ Passed /\ OnlyAlphabet /\ Layout /\ RoundTrip

-----------------------------------------------------------------------------
(* Chunks.                                                                 *)

(* The ways a byte is parted, and put together again in the arithmetic of decode_chunk. *)
LEMMA Parts ==
  ASSUME NEW x \in Byte, NEW y \in Byte
  PROVE  /\ x \div 4 \in Sextet /\ (x % 4) * 16 \in Sextet /\ (x % 16) * 4 \in Sextet
         /\ x % 64 \in Sextet
         /\ (x % 4) * 16 + y \div 16 \in Sextet /\ (x % 16) * 4 + y \div 64 \in Sextet
<1>1. x \in 0 .. 255 /\ y \in 0 .. 255  BY DEF Byte
<1>2. QED  BY <1>1 DEF Sextet

LEMMA JoinedFirst ==
  ASSUME NEW x \in Byte, NEW y \in Byte
  PROVE  /\ ((x \div 4) * 4 + ((x % 4) * 16) \div 16) % 256 = x
         /\ ((x \div 4) * 4 + ((x % 4) * 16 + y \div 16) \div 16) % 256 = x
<1>1. x \in 0 .. 255 /\ y \in 0 .. 255  BY DEF Byte
<1>2. QED  BY <1>1

LEMMA JoinedSecond ==
  ASSUME NEW x \in Byte, NEW y \in Byte, NEW z \in Byte
  PROVE  /\ ((((x % 4) * 16 + y \div 16) % 16) * 16 + ((y % 16) * 4) \div 4) % 256 = y
         /\ ((((x % 4) * 16 + y \div 16) % 16) * 16 + ((y % 16) * 4 + z \div 64) \div 4) % 256 = y
<1>1. x \in 0 .. 255 /\ y \in 0 .. 255 /\ z \in 0 .. 255  BY DEF Byte
<1>2. ((x % 4) * 16 + y \div 16) % 16 = y \div 16  BY <1>1
<1>3. ((y % 16) * 4) \div 4 = y % 16 /\ ((y % 16) * 4 + z \div 64) \div 4 = y % 16  BY <1>1
<1>4. ((y \div 16) * 16 + (y % 16)) % 256 = y  BY <1>1
<1>5. QED  BY <1>2, <1>3, <1>4

LEMMA JoinedThird ==
  ASSUME NEW y \in Byte, NEW z \in Byte
  PROVE  ((((y % 16) * 4 + z \div 64) % 4) * 64 + (z % 64)) % 256 = z
<1>1. y \in 0 .. 255 /\ z \in 0 .. 255  BY DEF Byte
<1>2. ((y % 16) * 4 + z \div 64) % 4 = z \div 64  BY <1>1
<1>3. ((z \div 64) * 64 + (z % 64)) % 256 = z  BY <1>1
<1>4. QED  BY <1>2, <1>3

(* A chunk of one, two or three bytes, and what encode_chunk makes of it. *)
LEMMA Chunks ==
  ASSUME NEW c \in Seq(Byte)
  PROVE  /\ Len(c) = 1 =>
              /\ c[1] \in Byte /\ c = <<c[1]>>
              /\ encode_chunk(c) = <<c[1] \div 4, (c[1] % 4) * 16, PADDING_CHARACTER, PADDING_CHARACTER>>
         /\ Len(c) = 2 =>
              /\ c[1] \in Byte /\ c[2] \in Byte /\ c = <<c[1], c[2]>>
              /\ encode_chunk(c) = <<c[1] \div 4, (c[1] % 4) * 16 + c[2] \div 16,
                                     (c[2] % 16) * 4, PADDING_CHARACTER>>
         /\ Len(c) = 3 =>
              /\ c[1] \in Byte /\ c[2] \in Byte /\ c[3] \in Byte /\ c = <<c[1], c[2], c[3]>>
              /\ encode_chunk(c) = <<c[1] \div 4, (c[1] % 4) * 16 + c[2] \div 16,
                                     (c[2] % 16) * 4 + c[3] \div 64, c[3] % 64>>
<1>1. \A k \in 1 .. Len(c) : c[k] \in Byte  OBVIOUS
<1>2. ASSUME Len(c) = 1 PROVE c[1] \in Byte /\ c = <<c[1]>>
  <2>1. c[1] \in Byte  BY <1>1, <1>2
  <2>2. QED  BY <1>2, <2>1
<1>3. ASSUME Len(c) = 2 PROVE c[1] \in Byte /\ c[2] \in Byte /\ c = <<c[1], c[2]>>
  <2>1. c[1] \in Byte /\ c[2] \in Byte  BY <1>1, <1>3
  <2>2. QED  BY <1>3, <2>1
<1>4. ASSUME Len(c) = 3 PROVE c[1] \in Byte /\ c[2] \in Byte /\ c[3] \in Byte /\ c = <<c[1], c[2], c[3]>>
  <2>1. c[1] \in Byte /\ c[2] \in Byte /\ c[3] \in Byte  BY <1>1, <1>4
  <2> DEFINE t == <<c[1], c[2], c[3]>>
  <2>2. t \in Seq(Byte) /\ Len(t) = 3 /\ t[1] = c[1] /\ t[2] = c[2] /\ t[3] = c[3]  BY <2>1
  <2>3. \A k \in 1 .. 3 : c[k] = t[k]
    <3>1. \A k \in 1 .. 3 : k = 1 \/ k = 2 \/ k = 3  OBVIOUS
    <3>2. QED  BY <2>2, <3>1
  <2> HIDE DEF t
  <2>4. c = t  BY <1>4, <2>2, <2>3, SeqEqual
  <2>5. QED  BY <2>1, <2>4 DEF t
<1>5. QED  BY <1>2, <1>3, <1>4 DEF encode_chunk

LEMMA FourOf ==
  ASSUME NEW S, NEW a \in S, NEW b \in S, NEW c \in S, NEW d \in S
  PROVE  <<a, b, c, d>> \in Seq(S) /\ Len(<<a, b, c, d>>) = 4
OBVIOUS

LEMMA SextetIsCharacter ==
  ASSUME NEW x \in Sextet
  PROVE  x \in Alphabet /\ x # PADDING_CHARACTER /\ Valid(x)
BY DEF PADDING_CHARACTER, Valid, Sextet, Alphabet

(* A chunk becomes a group of four characters of the alphabet. *)
LEMMA ChunkType ==
  ASSUME NEW c \in Seq(Byte), Len(c) \in 1 .. 3
  PROVE  /\ encode_chunk(c) \in Seq(Alphabet)
         /\ Len(encode_chunk(c)) = 4
<1>p. PADDING_CHARACTER \in Alphabet  BY DEF PADDING_CHARACTER, Alphabet
<1>s. \A x \in Sextet : x \in Alphabet  BY SextetIsCharacter
<1>1. CASE Len(c) = 1
  <2>1. c[1] \div 4 \in Sextet /\ (c[1] % 4) * 16 \in Sextet  BY <1>1, Chunks, Parts
  <2>2. \E x, y, z, w \in Alphabet : encode_chunk(c) = <<x, y, z, w>>
    BY <1>1, <1>p, <1>s, <2>1, Chunks, Zenon
  <2>3. QED  BY <2>2, FourOf
<1>2. CASE Len(c) = 2
  <2>1. /\ c[1] \div 4 \in Sextet /\ (c[1] % 4) * 16 + c[2] \div 16 \in Sextet
        /\ (c[2] % 16) * 4 \in Sextet
    BY <1>2, Chunks, Parts
  <2>2. /\ c[1] \div 4 \in Alphabet /\ (c[1] % 4) * 16 + c[2] \div 16 \in Alphabet
        /\ (c[2] % 16) * 4 \in Alphabet
    BY <1>s, <2>1, Zenon
  <2>3. encode_chunk(c) = <<c[1] \div 4, (c[1] % 4) * 16 + c[2] \div 16,
                            (c[2] % 16) * 4, PADDING_CHARACTER>>
    BY <1>2, Chunks
  <2>4. \E x, y, z, w \in Alphabet : encode_chunk(c) = <<x, y, z, w>>  BY <1>p, <2>2, <2>3, Zenon
  <2>5. QED  BY <2>4, FourOf
<1>3. CASE Len(c) = 3
  <2>1. /\ c[1] \div 4 \in Sextet /\ (c[1] % 4) * 16 + c[2] \div 16 \in Sextet
        /\ (c[2] % 16) * 4 + c[3] \div 64 \in Sextet /\ c[3] % 64 \in Sextet
    BY <1>3, Chunks, Parts
  <2>2. /\ c[1] \div 4 \in Alphabet /\ (c[1] % 4) * 16 + c[2] \div 16 \in Alphabet
        /\ (c[2] % 16) * 4 + c[3] \div 64 \in Alphabet /\ c[3] % 64 \in Alphabet
    BY <1>s, <2>1, Zenon
  <2>3. encode_chunk(c) = <<c[1] \div 4, (c[1] % 4) * 16 + c[2] \div 16,
                            (c[2] % 16) * 4 + c[3] \div 64, c[3] % 64>>
    BY <1>3, Chunks
  <2>4. \E x, y, z, w \in Alphabet : encode_chunk(c) = <<x, y, z, w>>  BY <2>2, <2>3, Zenon
  <2>5. QED  BY <2>4, FourOf
<1>4. QED  BY <1>1, <1>2, <1>3

(* decode_chunk of a group, from what its characters are. *)
LEMMA DecodeCases ==
  ASSUME NEW q, q[1] \in Sextet, q[2] \in Sextet, Valid(q[3]), Valid(q[4])
  PROVE  /\ first(q) = (q[1] * 4 + q[2] \div 16) % 256
         /\ q[3] = PADDING_CHARACTER /\ q[4] = PADDING_CHARACTER => decode_chunk(q) = <<first(q)>>
         /\ q[3] # PADDING_CHARACTER /\ q[4] = PADDING_CHARACTER =>
               decode_chunk(q) = <<first(q), second(q)>>
         /\ q[3] # PADDING_CHARACTER /\ q[4] # PADDING_CHARACTER =>
               decode_chunk(q) = <<first(q), second(q), third(q)>>
<1>1. \A k \in 1 .. 4 : k = 1 \/ k = 2 \/ k = 3 \/ k = 4  OBVIOUS
<1>2. \A k \in 1 .. 4 : Valid(q[k])  BY <1>1, SextetIsCharacter
<1>3. q[2] # PADDING_CHARACTER  BY SextetIsCharacter
<1>4. QED  BY <1>2, <1>3 DEF first, decode_chunk

(* The decoding of a group is the chunk it was made of, whichever its length.  The *)
(* group is given as Group of Base64 makes it, character by character.             *)
LEMMA ChunkRoundTrip ==
  ASSUME NEW c \in Seq(Byte), Len(c) \in 1 .. 3,
         NEW q, \A k \in 1 .. 4 : q[k] = encode_chunk(c)[k]
  PROVE  decode_chunk(q) = c
<1>q. /\ q[1] = encode_chunk(c)[1] /\ q[2] = encode_chunk(c)[2]
      /\ q[3] = encode_chunk(c)[3] /\ q[4] = encode_chunk(c)[4]
  OBVIOUS
<1>p. Valid(PADDING_CHARACTER)  BY DEF Valid, PADDING_CHARACTER, Alphabet
<1>1. CASE Len(c) = 1
  <2>1. /\ q[1] = c[1] \div 4 /\ q[2] = (c[1] % 4) * 16
        /\ q[3] = PADDING_CHARACTER /\ q[4] = PADDING_CHARACTER
    BY <1>q, <1>1, Chunks
  <2>2. q[1] \in Sextet /\ q[2] \in Sextet  BY <1>1, <2>1, Chunks, Parts
  <2>3. decode_chunk(q) = <<first(q)>> /\ first(q) = (q[1] * 4 + q[2] \div 16) % 256
    BY <1>p, <2>1, <2>2, DecodeCases
  <2>4. first(q) = c[1]  BY <1>1, <2>1, <2>3, Chunks, JoinedFirst
  <2>5. QED  BY <1>1, <2>3, <2>4, Chunks
<1>2. CASE Len(c) = 2
  <2>1. /\ q[1] = c[1] \div 4 /\ q[2] = (c[1] % 4) * 16 + c[2] \div 16
        /\ q[3] = (c[2] % 16) * 4 /\ q[4] = PADDING_CHARACTER
    BY <1>q, <1>2, Chunks
  <2>2. q[1] \in Sextet /\ q[2] \in Sextet /\ q[3] \in Sextet
    BY <1>2, <2>1, Chunks, Parts
  <2>3. q[3] # PADDING_CHARACTER /\ Valid(q[3])  BY <2>2, SextetIsCharacter
  <2>4. /\ decode_chunk(q) = <<first(q), second(q)>>
        /\ first(q) = (q[1] * 4 + q[2] \div 16) % 256
    BY <1>p, <2>1, <2>2, <2>3, DecodeCases
  <2>5. first(q) = c[1]  BY <1>2, <2>1, <2>4, Chunks, JoinedFirst
  <2>6. second(q) = c[2]  BY <1>2, <2>1, Chunks, JoinedSecond DEF second
  <2>7. QED  BY <1>2, <2>4, <2>5, <2>6, Chunks
<1>3. CASE Len(c) = 3
  <2>1. /\ q[1] = c[1] \div 4 /\ q[2] = (c[1] % 4) * 16 + c[2] \div 16
        /\ q[3] = (c[2] % 16) * 4 + c[3] \div 64 /\ q[4] = c[3] % 64
    BY <1>q, <1>3, Chunks
  <2>2. q[1] \in Sextet /\ q[2] \in Sextet /\ q[3] \in Sextet /\ q[4] \in Sextet
    BY <1>3, <2>1, Chunks, Parts
  <2>3. /\ q[3] # PADDING_CHARACTER /\ Valid(q[3])
        /\ q[4] # PADDING_CHARACTER /\ Valid(q[4])
    BY <2>2, SextetIsCharacter
  <2>4. /\ decode_chunk(q) = <<first(q), second(q), third(q)>>
        /\ first(q) = (q[1] * 4 + q[2] \div 16) % 256
    BY <2>2, <2>3, DecodeCases
  <2>5. first(q) = c[1]  BY <1>3, <2>1, <2>4, Chunks, JoinedFirst
  <2>6. second(q) = c[2]  BY <1>3, <2>1, Chunks, JoinedSecond DEF second
  <2>7. third(q) = c[3]  BY <1>3, <2>1, Chunks, JoinedThird DEF third
  <2>8. QED  BY <1>3, <2>4, <2>5, <2>6, <2>7, Chunks
<1>4. QED  BY <1>1, <1>2, <1>3

(* Four characters are decoded to one to three bytes, or refused; and they are refused *)
(* when one of them is not in the alphabet.                                            *)
LEMMA DecodedBytes ==
  ASSUME NEW q, Valid(q[1]), Valid(q[2]), Valid(q[3]), Valid(q[4])
  PROVE  first(q) \in Byte /\ second(q) \in Byte /\ third(q) \in Byte
<1>1. ASSUME NEW a \in Alphabet, NEW b \in Alphabet
      PROVE  /\ (a * 4) % 256 \in Byte /\ (a * 4 + b \div 16) % 256 \in Byte
             /\ ((a % 16) * 16 + b \div 4) % 256 \in Byte
             /\ ((a % 4) * 64 + b) % 256 \in Byte
  BY DEF Byte, Alphabet, PADDING_CHARACTER
<1>2. q[1] \in Alphabet /\ q[2] \in Alphabet /\ q[3] \in Alphabet /\ q[4] \in Alphabet
  BY DEF Valid, Alphabet
<1>3. QED  BY <1>1, <1>2 DEF first, second, third

LEMMA DecodeType ==
  ASSUME NEW q, decode_chunk(q) # Refused
  PROVE  /\ \A k \in 1 .. 4 : Valid(q[k])
         /\ decode_chunk(q) \in Seq(Byte) /\ Len(decode_chunk(q)) \in Nat
         /\ Len(decode_chunk(q)) >= 1
<1>1. \A k \in 1 .. 4 : Valid(q[k])  BY DEF decode_chunk
<1>2. Valid(q[1]) /\ Valid(q[2]) /\ Valid(q[3]) /\ Valid(q[4])  BY <1>1
<1>3. first(q) \in Byte /\ second(q) \in Byte /\ third(q) \in Byte
  BY <1>2, DecodedBytes
<1>4. \/ decode_chunk(q) = <<first(q)>> \/ decode_chunk(q) = <<first(q), second(q)>>
      \/ decode_chunk(q) = <<first(q), second(q), third(q)>>
  BY <1>1 DEF decode_chunk
<1> DEFINE x == first(q)
           y == second(q)
           z == third(q)
<1>5. /\ <<x>> \in Seq(Byte) /\ Len(<<x>>) = 1 /\ <<x, y>> \in Seq(Byte) /\ Len(<<x, y>>) = 2
      /\ <<x, y, z>> \in Seq(Byte) /\ Len(<<x, y, z>>) = 3
  <2>1. x \in Byte /\ y \in Byte /\ z \in Byte  BY <1>3
  <2> HIDE DEF x, y, z
  <2>2. QED  BY <2>1
<1> HIDE DEF x, y, z
<1>6. decode_chunk(q) \in {<<x>>, <<x, y>>, <<x, y, z>>}  BY <1>4 DEF x, y, z
<1>7. /\ decode_chunk(q) \in Seq(Byte)
      /\ Len(decode_chunk(q)) = 1 \/ Len(decode_chunk(q)) = 2 \/ Len(decode_chunk(q)) = 3
  BY <1>5, <1>6
<1>8. Len(decode_chunk(q)) \in Nat /\ Len(decode_chunk(q)) >= 1
  <2> DEFINE n == Len(decode_chunk(q))
  <2>1. n = 1 \/ n = 2 \/ n = 3  BY <1>7
  <2> HIDE DEF n
  <2>2. n \in Nat /\ n >= 1  BY <2>1
  <2>3. QED  BY <2>2 DEF n
<1>9. QED  BY <1>1, <1>7, <1>8

(* An index of groups, and what is between two. *)
LEMMA TakenType ==
  ASSUME NEW pay \in Seq(Byte), NEW g \in Nat
  PROVE  /\ Taken(pay, g) \in 0 .. Len(pay) /\ Taken(pay, 0) = 0
         /\ Taken(pay, g) <= Taken(pay, g + 1) /\ Taken(pay, g + 1) \in 0 .. Len(pay)
         /\ Taken(pay, g) < Len(pay) => /\ Taken(pay, g) = 3 * g
                                        /\ Taken(pay, g + 1) - Taken(pay, g) \in 1 .. 3
                                        /\ \/ Taken(pay, g + 1) = Taken(pay, g) + 3
                                           \/ Taken(pay, g + 1) = Len(pay)
BY DEF Taken

LEMMA GroupType ==
  ASSUME NEW pay \in Seq(Byte), NEW g \in Nat, Taken(pay, g) < Len(pay)
  PROVE  /\ SubSeq(pay, Taken(pay, g) + 1, Taken(pay, g + 1)) \in Seq(Byte)
         /\ Len(SubSeq(pay, Taken(pay, g) + 1, Taken(pay, g + 1))) \in 1 .. 3
         /\ GroupOf(pay, g) \in Seq(Alphabet) /\ Len(GroupOf(pay, g)) = 4
<1> DEFINE c == SubSeq(pay, Taken(pay, g) + 1, Taken(pay, g + 1))
<1>1. /\ Taken(pay, g) \in 0 .. Len(pay) /\ Taken(pay, g + 1) \in 0 .. Len(pay)
      /\ Taken(pay, g + 1) - Taken(pay, g) \in 1 .. 3
  BY TakenType
<1>2. c \in Seq(Byte) /\ Len(c) = Taken(pay, g + 1) - Taken(pay, g)
  <2>1. \A k \in Taken(pay, g) + 1 .. Taken(pay, g + 1) : pay[k] \in Byte  BY <1>1
  <2>2. QED  BY <1>1, <2>1, SubSeqProperties
<1>3. encode_chunk(c) \in Seq(Alphabet) /\ Len(encode_chunk(c)) = 4
  BY <1>1, <1>2, ChunkType
<1>4. QED  BY <1>1, <1>2, <1>3 DEF GroupOf

-----------------------------------------------------------------------------
(* Texts.                                                                  *)

(* More characters of the encoding go on a text that is the beginning of it. *)
LEMMA MoreCharacters ==
  ASSUME NEW pay, NEW t \in Seq(Char), NEW count \in [0 .. Len(t) -> Nat],
         Spelled(pay, t, count), NEW u \in Seq(Alphabet),
         \A k \in 1 .. Len(u) : Spells(pay, count[Len(t)] + k, u[k])
  PROVE  \E more \in [0 .. Len(t \o u) -> Nat] :
            Spelled(pay, t \o u, more) /\ more[Len(t \o u)] = count[Len(t)] + Len(u)
<1> DEFINE n == Len(t)
           m == Len(u)
           total == count[n]
           more == [k \in 0 .. n + m |-> IF k <= n THEN count[k] ELSE total + (k - n)]
<1>1. /\ n \in Nat /\ m \in Nat /\ total \in Nat /\ u \in Seq(Char) /\ t \o u \in Seq(Char)
      /\ Len(t \o u) = n + m
      /\ \A k \in 1 .. n + m : (t \o u)[k] = IF k <= n THEN t[k] ELSE u[k - n]
  <2>1. u \in Seq(Char)
    <3>1. Alphabet \subseteq Char  BY DEF Char, Other, PADDING_CHARACTER, Alphabet
    <3>2. QED  BY <3>1, SeqMonotonic
  <2>2. n \in Nat /\ m \in Nat /\ count[n] \in Nat  OBVIOUS
  <2>3. QED  BY <2>1, <2>2, ConcatProperties
<1>2. more \in [0 .. n + m -> Nat]  BY <1>1
<1>3. ASSUME NEW k \in 1 .. n + m
      PROVE  IF (t \o u)[k] = Newline THEN more[k] = more[k - 1] /\ more[k] % 4 = 0
             ELSE more[k] = more[k - 1] + 1 /\ Spells(pay, more[k], (t \o u)[k])
  <2>1. CASE k <= n
    <3>1. k \in 1 .. n /\ (t \o u)[k] = t[k] /\ more[k] = count[k] /\ more[k - 1] = count[k - 1]
      BY <1>1, <2>1
    <3>2. QED  BY <3>1 DEF Spelled
  <2>2. CASE ~(k <= n)
    <3>1. k - n \in 1 .. m /\ (t \o u)[k] = u[k - n]  BY <1>1, <2>2
    <3>2. more[k] = total + (k - n) /\ more[k - 1] = total + (k - 1 - n)
      <4>1. CASE k - 1 <= n
        <5>1. k - 1 = n /\ k - 1 - n = 0 /\ total + 0 = total  BY <1>1, <2>2, <4>1
        <5>2. QED  BY <1>1, <2>2, <5>1
      <4>2. CASE ~(k - 1 <= n)  BY <1>1, <2>2, <4>2
      <4>3. QED  BY <4>1, <4>2
    <3>3. u[k - n] # Newline  
      <4>1. u[k - n] \in Alphabet  BY <1>1, <3>1
      <4>2. \A x \in Alphabet : x # Newline  BY DEF Newline, PADDING_CHARACTER, Alphabet
      <4>3. QED  BY <4>1, <4>2
    <3> HIDE DEF more
    <3>4. more[k] = more[k - 1] + 1
      <4> HIDE DEF total
      <4>1. QED  BY <1>1, <3>2 DEF total
    <3>5. Spells(pay, more[k], (t \o u)[k])  BY <3>1, <3>2
    <3>6. QED  BY <3>1, <3>3, <3>4, <3>5
  <2>3. QED  BY <2>1, <2>2
<1>4. more[0] = 0 /\ more[n + m] = count[n] + m
  <2>1. count[0] = 0  BY DEF Spelled
  <2>2. QED  BY <1>1, <2>1
<1> HIDE DEF more
<1>5. Spelled(pay, t \o u, more)  BY <1>1, <1>2, <1>3, <1>4 DEF Spelled
<1>6. QED  BY <1>1, <1>2, <1>4, <1>5

(* A newline, or none, goes on a text that ends with a group. *)
LEMMA MoreLines ==
  ASSUME NEW pay, NEW t \in Seq(Char), NEW count \in [0 .. Len(t) -> Nat],
         Spelled(pay, t, count), count[Len(t)] % 4 = 0, NEW end \in Ends
  PROVE  \E more \in [0 .. Len(t \o end) -> Nat] :
            Spelled(pay, t \o end, more) /\ more[Len(t \o end)] = count[Len(t)]
<1> DEFINE n == Len(t)
           more == [k \in 0 .. n + 1 |-> IF k <= n THEN count[k] ELSE count[n]]
<1>1. CASE end = <<>>
  <2>1. t \o end = t  BY <1>1, ConcatEmptySeq
  <2>2. QED  BY <2>1
<1>2. CASE end = <<Newline>>
  <2>1. /\ n \in Nat /\ count[n] \in Nat /\ t \o end \in Seq(Char) /\ Len(t \o end) = n + 1
        /\ \A k \in 1 .. n + 1 : (t \o end)[k] = IF k <= n THEN t[k] ELSE Newline
    <3>1. end \in Seq(Char) /\ Len(end) = 1 /\ end[1] = Newline
      BY <1>2 DEF Char, Newline, Other
    <3>2. n \in Nat /\ count[n] \in Nat  OBVIOUS
    <3>3. /\ t \o end \in Seq(Char) /\ Len(t \o end) = n + Len(end)
          /\ \A k \in 1 .. n + Len(end) : (t \o end)[k] = IF k <= n THEN t[k] ELSE end[k - n]
      BY <3>1, ConcatProperties
    <3>4. \A k \in 1 .. n + 1 : k <= n \/ k - n = 1  BY <3>2
    <3>5. QED  BY <3>1, <3>2, <3>3, <3>4
  <2>2. more \in [0 .. n + 1 -> Nat]  BY <2>1
  <2>3. ASSUME NEW k \in 1 .. n + 1
        PROVE  IF (t \o end)[k] = Newline THEN more[k] = more[k - 1] /\ more[k] % 4 = 0
               ELSE more[k] = more[k - 1] + 1 /\ Spells(pay, more[k], (t \o end)[k])
    <3>1. CASE k <= n
      <4>1. k \in 1 .. n /\ (t \o end)[k] = t[k] /\ more[k] = count[k] /\ more[k - 1] = count[k - 1]
        BY <2>1, <3>1
      <4>2. QED  BY <4>1 DEF Spelled
    <3>2. CASE ~(k <= n)
      <4>1. k = n + 1 /\ (t \o end)[k] = Newline /\ more[k] = count[n] /\ more[k - 1] = count[n]
        BY <2>1, <3>2
      <4>2. QED  BY <4>1
    <3>3. QED  BY <3>1, <3>2
  <2>4. more[0] = 0 /\ more[n + 1] = count[n]
    <3>1. count[0] = 0  BY DEF Spelled
    <3>2. QED  BY <2>1, <3>1
  <2> HIDE DEF more
  <2>5. Spelled(pay, t \o end, more)  BY <2>1, <2>2, <2>3, <2>4 DEF Spelled
  <2>6. QED  BY <2>1, <2>2, <2>4, <2>5
<1>3. QED  BY <1>1, <1>2 DEF Ends
-----------------------------------------------------------------------------
(* Lines.                                                                  *)

LEMMA DivisionUnique ==
  ASSUME NEW q \in Nat, NEW y \in Nat, NEW r \in 0 .. y - 1
  PROVE  (q * y + r) % y = r
<1> DEFINE x == q * y + r
           d == x \div y
           m == x % y
<1>1. q * y \in Nat /\ x \in Nat /\ y > 0  OBVIOUS
<1>2. x = y * d + m /\ m \in 0 .. y - 1 /\ d \in Nat  BY <1>1
<1>3. q * y + r = d * y + m  BY <1>2
<1> HIDE DEF d, m
<1>4. q * y - d * y = (q - d) * y  BY <1>2
<1>5. CASE q - d >= 1
  <2>1. (q - d) * y >= y  BY <1>2, <1>5
  <2>2. QED  BY <1>2, <1>3, <1>4, <2>1
<1>6. CASE q - d <= -1
  <2>1. (q - d) * y <= -y  BY <1>2, <1>6
  <2>2. QED  BY <1>2, <1>3, <1>4, <2>1
<1>7. CASE q = d  BY <1>2, <1>3, <1>7
<1>8. QED  BY <1>2, <1>5, <1>6, <1>7 DEF m

(* In a line the positions of characters are not those of newlines, and behind its *)
(* last character is the position of one.                                          *)
LEMMA LinePositions ==
  ASSUME NEW q \in Nat, NEW r \in 1 .. LineLen
  PROVE  /\ (q * (LineLen + 1) + r) % (LineLen + 1) # 0
         /\ (q * (LineLen + 1) + LineLen + 1) % (LineLen + 1) = 0
<1> DEFINE y == LineLen + 1
<1>1. y \in Nat /\ r \in 0 .. y - 1 /\ 0 \in 0 .. y - 1 /\ q + 1 \in Nat  BY LineAssumption
<1>2. (q * y + r) % y = r  BY <1>1, DivisionUnique
<1>3. ((q + 1) * y + 0) % y = 0  BY <1>1, DivisionUnique
<1>4. (q + 1) * y + 0 = q * y + LineLen + 1  BY <1>1, LineAssumption
<1>5. QED  BY <1>2, <1>3, <1>4

-----------------------------------------------------------------------------
(* The start, and the steps that begin a command.                          *)

LEMMA Parameters ==
  /\ LineLen \in Nat /\ LineLen > 0 /\ LineLen % 4 = 0
  /\ Payloads \subseteq Seq(Byte) /\ Texts \subseteq Seq(Char) /\ MaxCommands \in Nat
BY LineAssumption, PayloadAssumption, TextAssumption, BoundAssumption

(* What the types say of the sequences and numbers. *)
LEMMA Types ==
  ASSUME TypeOK
  PROVE  /\ payload \in Seq(Byte) /\ Len(payload) \in Nat /\ next \in 0 .. Len(payload)
         /\ buff \in Seq(Alphabet) /\ Len(buff) \in Nat /\ Len(buff) <= 4
         /\ text \in Seq(Char) /\ Len(text) \in Nat /\ decoded \in Seq(Byte) /\ Len(decoded) \in Nat
         /\ nprint \in 0 .. LineLen - 1 /\ start \in 0 .. LineLen - 1
         /\ i \in Nat /\ commands \in 0 .. MaxCommands
<1>1. /\ payload \in Seq(Byte) /\ next \in 0 .. Len(payload) /\ buff \in Seq(Alphabet)
      /\ Len(buff) <= 4 /\ text \in Seq(Char) /\ decoded \in Seq(Byte)
      /\ nprint \in 0 .. LineLen - 1 /\ start \in 0 .. LineLen - 1
      /\ i \in Nat /\ commands \in 0 .. MaxCommands
  BY Zenon DEF TypeOK
<1>2. \A S : \A s \in Seq(S) : Len(s) \in Nat  OBVIOUS
<1>3. QED  BY <1>1, <1>2, Zenon

LEMMA InitHolds == Init => IInv
<1> SUFFICES ASSUME Init PROVE IInv
  OBVIOUS
<1>1. TypeOK
  <2>1. /\ <<>> \in Seq(Byte) /\ <<>> \in Seq(Alphabet) /\ <<>> \in Seq(Char) /\ Len(<<>>) = 0
        /\ 0 <= 4 /\ 0 \in 0 .. 0 /\ 0 \in 0 .. LineLen - 1 /\ 0 \in Nat /\ 0 \in 0 .. MaxCommands
    BY Parameters
  <2>2. QED  BY <2>1, Zenon DEF Init, TypeOK
<1>2. Stage /\ Codec /\ Passed  BY DEF Init, Stage, Codec, Passed
<1>3. Columns  BY DEF Init, Columns
<1>4. OnlyAlphabet /\ Layout /\ RoundTrip
  BY DEF Init, OnlyAlphabet, Layout, RoundTrip
<1>5. QED  BY <1>1, <1>2, <1>3, <1>4 DEF IInv

(* A text without characters is the beginning of any encoding. *)
LEMMA NothingSpelled ==
  ASSUME NEW pay \in Seq(Byte)
  PROVE  \E count \in [0 .. Len(<<>>) -> Nat] : Spelled(pay, <<>>, count) /\ count[Len(<<>>)] = 0
<1> DEFINE zero == [k \in 0 .. 0 |-> 0]
<1>1. zero \in [0 .. 0 -> Nat] /\ zero[0] = 0 /\ Len(<<>>) = 0  OBVIOUS
<1> HIDE DEF zero
<1>2. Spelled(pay, <<>>, zero)  BY <1>1 DEF Spelled
<1>3. QED  BY <1>1, <1>2

LEMMA EncodeStep == IInv /\ Encode => IInv'
<1> SUFFICES ASSUME IInv, Encode PROVE IInv'
  OBVIOUS
<1>t. TypeOK /\ Columns  BY DEF IInv
<1>1. /\ pc = "idle" /\ commands < MaxCommands /\ pc' = "chunk" /\ ret' = "none"
      /\ commands' = commands + 1 /\ payload' \in Payloads /\ next' = 0 /\ buff' = <<>>
      /\ text' = <<>> /\ encoded' = TRUE /\ cut' = FALSE /\ i' = 0 /\ decoded' = <<>>
      /\ start' = nprint /\ nprint' = nprint /\ failed' = failed
  BY DEF Encode
<1>2. /\ payload' \in Seq(Byte) /\ Len(payload') \in Nat /\ nprint \in 0 .. LineLen - 1
      /\ Len(<<>>) = 0
  BY <1>1, <1>t, Types, Parameters
<1>3. TypeOK'
  <2>1. /\ commands' \in 0 .. MaxCommands /\ next' \in 0 .. Len(payload') /\ Len(buff') <= 4
        /\ i' \in Nat /\ <<>> \in Seq(Byte) /\ <<>> \in Seq(Alphabet) /\ <<>> \in Seq(Char)
    BY <1>1, <1>2, <1>t, Types, Parameters
  <2>2. QED  BY <1>1, <1>2, <1>t, <2>1, Zenon DEF TypeOK
<1>4. Stage'  BY <1>1 DEF Stage
<1>5. Codec'
  <2>1. PICK count \in [0 .. Len(text') -> Nat] :
           Spelled(payload', text', count) /\ count[Len(text')] = 0
    BY <1>1, <1>2, NothingSpelled
  <2>2. Taken(payload', 0) = 0  BY <1>2 DEF Taken
  <2>3. Writing(count)'
    <3>1. next' = Taken(payload', 0) /\ count[Len(text')] = 4 * 0  BY <1>1, <2>1, <2>2
    <3>2. QED  BY <1>1, <3>1 DEF Writing
  <2>4. Reading(count)'  BY <1>1 DEF Reading
  <2>5. QED  BY <2>1, <2>3, <2>4 DEF Codec
<1>6. Columns'
  <2>1. ~failed => nprint % 4 = 0  BY <1>1, <1>t DEF Columns
  <2>2. start' + Len(text') = 0 * (LineLen + 1) + nprint'  BY <1>1, <1>2, Parameters
  <2>3. QED  BY <1>1, <2>1, <2>2 DEF Columns
<1>7. Passed'  BY <1>1 DEF Passed
<1>8. OnlyAlphabet'  BY <1>1, <1>2 DEF OnlyAlphabet
<1>9. Layout'
  <2>1. ~failed => nprint % 4 = 0  BY <1>1, <1>t DEF Columns
  <2>2. QED  BY <1>1, <1>2, <2>1 DEF Layout
<1>10. RoundTrip'  BY <1>1 DEF RoundTrip
<1>11. QED  BY <1>3, <1>4, <1>5, <1>6, <1>7, <1>8, <1>9, <1>10 DEF IInv

LEMMA DecodeStep == IInv /\ Decode => IInv'
<1> SUFFICES ASSUME IInv, Decode PROVE IInv'
  OBVIOUS
<1>t. TypeOK /\ Columns  BY DEF IInv
<1>1. /\ pc = "idle" /\ commands < MaxCommands /\ pc' = "skip" /\ ret' = "none"
      /\ commands' = commands + 1 /\ text' \in Texts /\ i' = 0 /\ decoded' = <<>>
      /\ encoded' = FALSE /\ cut' = FALSE
      /\ UNCHANGED <<nprint, payload, next, buff, failed, start>>
  BY DEF Decode
<1>2. text' \in Seq(Char) /\ Len(text') \in Nat  BY <1>1, Parameters
<1>3. TypeOK'
  <2>1. commands' \in 0 .. MaxCommands /\ i' \in Nat /\ <<>> \in Seq(Byte)
    BY <1>1, <1>t, Types, Parameters
  <2>2. QED  BY <1>1, <1>2, <1>t, <2>1, Zenon DEF TypeOK
<1>4. Stage' /\ Codec' /\ Passed' /\ RoundTrip'
  BY <1>1 DEF Stage, Codec, Passed, RoundTrip
<1>5. Columns' /\ Layout'  BY <1>1, <1>t DEF Columns, Layout
<1>6. OnlyAlphabet'  BY <1>1, <1>2 DEF OnlyAlphabet
<1>7. QED  BY <1>3, <1>4, <1>5, <1>6 DEF IInv

-----------------------------------------------------------------------------
(* The steps of an encoding.                                               *)

LEMMA ChunkStep == IInv /\ Chunk => IInv'
<1> SUFFICES ASSUME IInv, Chunk PROVE IInv'
  OBVIOUS
<1>t. TypeOK /\ Stage /\ Codec /\ Columns /\ Passed /\ OnlyAlphabet /\ Layout
  BY DEF IInv
<1> DEFINE n == IF Remaining >= 3 THEN 3 ELSE Remaining
           c == SubSeq(payload, next + 1, next + n)
<1>1. /\ pc = "chunk" /\ Remaining > 0 /\ buff' = encode_chunk(c) /\ next' = next + n /\ pc' = "print"
      /\ UNCHANGED <<nprint, payload, text, i, decoded, encoded, cut, failed, ret, start, commands>>
  BY DEF Chunk
<1>2. /\ payload \in Seq(Byte) /\ Len(payload) \in Nat /\ next \in 0 .. Len(payload)
      /\ nprint \in 0 .. LineLen - 1 /\ text \in Seq(Char) /\ Len(text) \in Nat
  BY <1>t, Types
<1>3. n \in 1 .. 3 /\ next + n \in 0 .. Len(payload)  BY <1>1, <1>2 DEF Remaining
<1>4. c \in Seq(Byte) /\ Len(c) = n
  <2>1. \A k \in next + 1 .. next + n : payload[k] \in Byte  BY <1>2, <1>3
  <2>2. QED  BY <1>2, <1>3, <2>1, SubSeqProperties
<1>5. buff' \in Seq(Alphabet) /\ Len(buff') = 4
  <2>1. Len(c) \in 1 .. 3  BY <1>3, <1>4
  <2>2. QED  BY <1>1, <1>4, <2>1, ChunkType
<1>6. TypeOK'
  <2>1. next' \in 0 .. Len(payload) /\ Len(buff') <= 4
    <3>1. next' \in 0 .. Len(payload)  BY <1>1, <1>3
    <3>2. Len(buff') <= 4  BY <1>5
    <3>3. QED  BY <3>1, <3>2
  <2>2. QED  BY <1>1, <1>5, <1>t, <2>1, Zenon DEF TypeOK
<1>7. Stage'  BY <1>1, <1>t DEF Stage
<1>8. Codec'
  <2> SUFFICES ASSUME encoded, start % 4 = 0 PROVE Codec'
    BY <1>1 DEF Codec
  <2>1. PICK count \in [0 .. Len(text) -> Nat] : Spelled(payload, text, count) /\ Writing(count)
    BY <1>1, <1>t DEF Codec
  <2>2. PICK g \in Nat : next = Taken(payload, g) /\ count[Len(text)] = 4 * g
    BY <1>1, <2>1 DEF Writing
  <2>3. /\ Taken(payload, g) < Len(payload)
        /\ next + n = Taken(payload, g + 1)
    <3>1. next < Len(payload) /\ next + n = IF next + 3 <= Len(payload) THEN next + 3 ELSE Len(payload)
      BY <1>1, <1>2 DEF Remaining
    <3>2. next = 3 * g  BY <1>2, <2>2, <3>1 DEF Taken
    <3>3. QED  BY <1>2, <2>2, <3>1, <3>2 DEF Taken
  <2>4. buff' = GroupOf(payload, g)  BY <1>1, <2>2, <2>3 DEF GroupOf
  <2>5. /\ next' = Taken(payload', g + 1) /\ Taken(payload', g) < Len(payload')
        /\ count[Len(text')] + Len(buff') = 4 * g + 4
        /\ \A p \in 1 .. Len(buff') : buff'[p] = GroupOf(payload', g)[4 - Len(buff') + p]
    <3>1. \A p \in 1 .. Len(buff') : 4 - Len(buff') + p = p  BY <1>5
    <3>2. QED  BY <1>1, <1>5, <2>2, <2>3, <2>4, <3>1
  <2>6. Writing(count)'  BY <1>1, <2>5 DEF Writing
  <2>7. Spelled(payload', text', count)  BY <1>1, <2>1
  <2>8. Reading(count)'  BY <1>1 DEF Reading
  <2>9. text' = text  BY <1>1
  <2>10. QED  BY <2>6, <2>7, <2>8, <2>9 DEF Codec
<1>9. Columns'
  <2>1. (~failed \/ start % 4 = 0) => nprint % 4 = 0  BY <1>1, <1>t DEF Columns
  <2>2. nprint % 4 = 0 => (nprint + 4) % 4 = 0  BY <1>2, Parameters
  <2>3. ~failed => \E q \in Nat : start + Len(text) = q * (LineLen + 1) + nprint
    BY <1>1, <1>t DEF Columns
  <2>4. QED  BY <1>1, <1>5, <2>1, <2>2, <2>3 DEF Columns
<1>10. Passed' /\ OnlyAlphabet'  BY <1>1, <1>t DEF Passed, OnlyAlphabet
<1>11. Layout'  BY <1>1, <1>t DEF Layout
<1>12. RoundTrip'  BY <1>1 DEF RoundTrip
<1>13. QED  BY <1>6, <1>7, <1>8, <1>9, <1>10, <1>11, <1>12 DEF IInv

(* What one call of print_character_64 puts behind the text, and what it leaves. *)
LEMMA PrintEffect ==
  ASSUME IInv, print_character_64
  PROVE  \E n \in 1 .. Len(buff), e \in Ends :
            /\ nprint + n <= LineLen
            /\ SubSeq(buff, 1, n) \in Seq(Alphabet) /\ Len(SubSeq(buff, 1, n)) = n
            /\ \A k \in 1 .. n : SubSeq(buff, 1, n)[k] = buff[k]
            /\ text \o SubSeq(buff, 1, n) \in Seq(Char)
            /\ Len(text \o SubSeq(buff, 1, n)) = Len(text) + n
            /\ text' = (text \o SubSeq(buff, 1, n)) \o e
            /\ buff' \in Seq(Alphabet) /\ Len(buff') = Len(buff) - n
            /\ \A k \in 1 .. Len(buff') : buff'[k] = buff[n + k]
            /\ IF nprint + n = LineLen
               THEN nprint' = 0 /\ failed' = (failed \/ e = <<>>)
               ELSE nprint' = nprint + n /\ failed' = failed /\ e = <<>>
<1>t. /\ buff \in Seq(Alphabet) /\ Len(buff) \in Nat /\ nprint \in 0 .. LineLen - 1 /\ text \in Seq(Char)
  BY Types DEF IInv
<1>1. PICK n \in 1 .. Request, end \in Ends :
         /\ text' = text \o SubSeq(buff, 1, n) \o (IF nprint + n = LineLen THEN end ELSE <<>>)
         /\ failed' = (failed \/ (nprint + n = LineLen /\ end = <<>>))
         /\ nprint' = IF nprint + n = LineLen THEN 0 ELSE nprint + n
         /\ buff' = SubSeq(buff, n + 1, Len(buff))
  BY DEF print_character_64
<1>2. n \in 1 .. Len(buff) /\ nprint + n <= LineLen  BY <1>t, Parameters DEF Request, Min2
<1> DEFINE u == SubSeq(buff, 1, n)
           e == IF nprint + n = LineLen THEN end ELSE <<>>
<1>3. u \in Seq(Alphabet) /\ Len(u) = n /\ \A k \in 1 .. n : u[k] = buff[k]
  <2>1. \A k \in 1 .. n : buff[k] \in Alphabet  BY <1>2, <1>t
  <2>2. QED  BY <1>2, <2>1, SubSeqProperties
<1>4. /\ buff' \in Seq(Alphabet) /\ Len(buff') = Len(buff) - n
      /\ \A k \in 1 .. Len(buff') : buff'[k] = buff[n + k]
  <2>1. \A k \in n + 1 .. Len(buff) : buff[k] \in Alphabet  BY <1>2, <1>t
  <2> DEFINE b == SubSeq(buff, n + 1, Len(buff))
  <2>2. /\ b \in Seq(Alphabet) /\ Len(b) = IF n + 1 <= Len(buff) THEN Len(buff) - (n + 1) + 1 ELSE 0
        /\ \A k \in 1 .. Len(buff) - (n + 1) + 1 : b[k] = buff[(n + 1) + k - 1]
    BY <1>2, <1>t, <2>1, SubSeqProperties
  <2>3. Len(b) = Len(buff) - n /\ \A k \in 1 .. Len(b) : b[k] = buff[n + k]
    <3>1. Len(b) = Len(buff) - n  BY <1>2, <1>t, <2>2
    <3>2. \A k \in 1 .. Len(b) : (n + 1) + k - 1 = n + k /\ k \in 1 .. Len(buff) - (n + 1) + 1
      BY <1>2, <1>t, <3>1
    <3>3. QED  BY <2>2, <3>1, <3>2
  <2>4. QED  BY <1>1, <2>2, <2>3
<1>5. text \o u \in Seq(Char) /\ Len(text \o u) = Len(text) + n
  <2>1. Alphabet \subseteq Char  BY DEF Alphabet, Char, Other, PADDING_CHARACTER
  <2>2. u \in Seq(Char)  BY <1>3, <2>1, SeqMonotonic
  <2>3. QED  BY <1>3, <1>t, <2>2, ConcatProperties
<1>6. e \in Ends /\ text' = (text \o u) \o e  BY <1>1 DEF Ends
<1>7. IF nprint + n = LineLen
      THEN nprint' = 0 /\ failed' = (failed \/ e = <<>>)
      ELSE nprint' = nprint + n /\ failed' = failed /\ e = <<>>
  <2>1. CASE nprint + n = LineLen
    <3>1. e = end  BY <2>1
    <3>2. failed' = (failed \/ end = <<>>)  BY <1>1, <2>1, Zenon
    <3>3. QED  BY <1>1, <2>1, <3>1, <3>2, Zenon
  <2>2. CASE nprint + n # LineLen
    <3>1. failed' = failed
      <4>1. failed \in BOOLEAN  BY DEF IInv, TypeOK
      <4>2. QED  BY <1>1, <2>2, <4>1
    <3>2. e = <<>> /\ nprint' = nprint + n  BY <1>1, <2>2
    <3>3. QED  BY <2>2, <3>1, <3>2, Zenon
  <2>3. QED  BY <2>1, <2>2
<1> HIDE DEF u, e
<1>8. QED  BY <1>2, <1>3, <1>4, <1>5, <1>6, <1>7 DEF u

(* Where the characters of such a text are. *)
LEMMA EndsType ==
  ASSUME NEW e \in Ends
  PROVE  /\ e \in Seq(Char)
         /\ e = <<>> => Len(e) = 0
         /\ e # <<>> => e = <<Newline>> /\ Len(e) = 1 /\ e[1] = Newline
<1>1. Newline \in Char  BY DEF Newline, Char, Other
<1>2. <<>> \in Seq(Char) /\ Len(<<>>) = 0  OBVIOUS
<1>3. <<Newline>> \in Seq(Char) /\ Len(<<Newline>>) = 1 /\ <<Newline>>[1] = Newline  BY <1>1
<1>4. QED  BY <1>2, <1>3 DEF Ends

LEMMA TextParts ==
  ASSUME NEW t \in Seq(Char), NEW u \in Seq(Alphabet), NEW e \in Ends, t \o u \in Seq(Char)
  PROVE  /\ (t \o u) \o e \in Seq(Char)
         /\ Len((t \o u) \o e) = Len(t) + Len(u) + Len(e)
         /\ \A k \in 1 .. Len(t) : ((t \o u) \o e)[k] = t[k]
         /\ \A k \in 1 .. Len(u) : ((t \o u) \o e)[Len(t) + k] = u[k]
         /\ e # <<>> => ((t \o u) \o e)[Len(t) + Len(u) + 1] = Newline
<1> DEFINE v == t \o u
<1>1. Alphabet \subseteq Char  BY DEF Alphabet, Char, Other, PADDING_CHARACTER
<1>2. u \in Seq(Char)  BY <1>1, SeqMonotonic
<1>3. e \in Seq(Char) /\ (e # <<>> => Len(e) = 1 /\ e[1] = Newline)  BY EndsType
<1>4. /\ v \in Seq(Char) /\ Len(v) = Len(t) + Len(u)
      /\ \A k \in 1 .. Len(t) + Len(u) : v[k] = IF k <= Len(t) THEN t[k] ELSE u[k - Len(t)]
  BY <1>2, ConcatProperties
<1> HIDE DEF v
<1>5. /\ v \o e \in Seq(Char) /\ Len(v \o e) = Len(v) + Len(e)
      /\ \A k \in 1 .. Len(v) + Len(e) : (v \o e)[k] = IF k <= Len(v) THEN v[k] ELSE e[k - Len(v)]
  <2>1. e \in Seq(Char) /\ v \in Seq(Char)  BY <1>3, <1>4
  <2>2. QED  BY <2>1, ConcatProperties
<1>6. Len(t) \in Nat /\ Len(u) \in Nat /\ Len(e) \in Nat  BY <1>3
<1>7. ASSUME NEW k \in 1 .. Len(t) PROVE (v \o e)[k] = t[k]
  <2>1. k \in 1 .. Len(v) + Len(e) /\ k <= Len(v) /\ k \in 1 .. Len(t) + Len(u) /\ k <= Len(t)
    BY <1>4, <1>6
  <2>2. QED  BY <1>4, <1>5, <2>1
<1>8. ASSUME NEW k \in 1 .. Len(u) PROVE (v \o e)[Len(t) + k] = u[k]
  <2> DEFINE m == Len(t) + k
  <2>1. m \in 1 .. Len(v) + Len(e) /\ m <= Len(v) /\ m \in 1 .. Len(t) + Len(u) /\ ~(m <= Len(t))
        /\ m - Len(t) = k
    BY <1>4, <1>6
  <2> HIDE DEF m
  <2>2. (v \o e)[m] = v[m] /\ v[m] = u[m - Len(t)]  BY <1>4, <1>5, <2>1
  <2>3. QED  BY <2>1, <2>2 DEF m
<1>9. ASSUME e # <<>> PROVE (v \o e)[Len(t) + Len(u) + 1] = Newline
  <2> DEFINE m == Len(v) + 1
  <2>1. m \in 1 .. Len(v) + Len(e) /\ ~(m <= Len(v)) /\ m - Len(v) = 1
    BY <1>3, <1>4, <1>6, <1>9
  <2> HIDE DEF m
  <2>2. (v \o e)[m] = e[m - Len(v)]  BY <1>5, <2>1
  <2>3. (v \o e)[m] = Newline  BY <1>3, <1>9, <2>1, <2>2
  <2>4. QED  BY <1>4, <2>3 DEF m
<1>10. QED  BY <1>4, <1>5, <1>7, <1>8, <1>9 DEF v

(* How the column and what is left in buff go together. *)
LEMMA ColumnSteps ==
  ASSUME NEW m \in Nat, NEW n \in Nat, n <= m, NEW column \in Nat, (column + m) % 4 = 0
  PROVE  /\ (column + n + (m - n)) % 4 = 0
         /\ column + n = LineLen => /\ (0 + (m - n)) % 4 = 0
                                    /\ \A g \in Nat : (4 * g + 4 - m + n) % 4 = 0
<1>1. column + n + (m - n) = column + m  OBVIOUS
<1>2. ASSUME column + n = LineLen
      PROVE  (0 + (m - n)) % 4 = 0 /\ \A g \in Nat : (4 * g + 4 - m + n) % 4 = 0
  <2>1. LineLen % 4 = 0 /\ (LineLen + (m - n)) % 4 = 0  BY <1>1, <1>2, Parameters
  <2>d. \A x \in Nat : x % 4 = 0 => x = 4 * (x \div 4) /\ x \div 4 \in Int  OBVIOUS
  <2>2. PICK a \in Int : LineLen = 4 * a  BY <2>1, <2>d, Parameters
  <2>3. PICK b \in Int : LineLen + (m - n) = 4 * b
    <3>1. LineLen + (m - n) \in Nat  BY Parameters
    <3>2. QED  BY <2>1, <2>d, <3>1
  <2>4. m - n = 4 * (b - a)  BY <2>2, <2>3
  <2>5. (0 + (m - n)) % 4 = 0  BY <2>4
  <2>6. ASSUME NEW g \in Nat PROVE (4 * g + 4 - m + n) % 4 = 0
    <3>1. 4 * g + 4 - m + n = 4 * (g + 1 - (b - a))  BY <2>4
    <3>2. QED  BY <3>1
  <2>7. QED  BY <2>5, <2>6
<1>3. QED  BY <1>1, <1>2

LEMMA PrintStep == IInv /\ print_character_64 => IInv'
<1> SUFFICES ASSUME IInv, print_character_64 PROVE IInv'
  OBVIOUS
<1>t. TypeOK /\ Stage /\ Codec /\ Columns /\ Layout  BY DEF IInv
<1>0. /\ pc = "print" /\ pc' = "print"
      /\ UNCHANGED <<payload, next, i, decoded, encoded, cut, ret, start, commands>>
  BY DEF print_character_64
<1>1. PICK n \in 1 .. Len(buff), e \in Ends :
         /\ nprint + n <= LineLen
         /\ SubSeq(buff, 1, n) \in Seq(Alphabet) /\ Len(SubSeq(buff, 1, n)) = n
         /\ \A k \in 1 .. n : SubSeq(buff, 1, n)[k] = buff[k]
         /\ text \o SubSeq(buff, 1, n) \in Seq(Char)
         /\ Len(text \o SubSeq(buff, 1, n)) = Len(text) + n
         /\ text' = (text \o SubSeq(buff, 1, n)) \o e
         /\ buff' \in Seq(Alphabet) /\ Len(buff') = Len(buff) - n
         /\ \A k \in 1 .. Len(buff') : buff'[k] = buff[n + k]
         /\ IF nprint + n = LineLen
            THEN nprint' = 0 /\ failed' = (failed \/ e = <<>>)
            ELSE nprint' = nprint + n /\ failed' = failed /\ e = <<>>
  BY PrintEffect
<1> DEFINE u == SubSeq(buff, 1, n)
<1>u. /\ u \in Seq(Alphabet) /\ Len(u) = n /\ \A k \in 1 .. n : u[k] = buff[k]
      /\ text \o u \in Seq(Char) /\ Len(text \o u) = Len(text) + n
      /\ text' = (text \o u) \o e
  BY <1>1
<1> HIDE DEF u
<1>2. /\ nprint \in 0 .. LineLen - 1 /\ LineLen \in Nat /\ start \in 0 .. LineLen - 1
      /\ text \in Seq(Char) /\ Len(text) \in Nat /\ Len(buff) \in Nat /\ Len(buff) <= 4
      /\ n \in Nat /\ n >= 1 /\ n <= Len(buff)
  BY <1>1, <1>t, Types, Parameters
<1>3. /\ text' \in Seq(Char) /\ Len(text') = Len(text) + n + Len(e)
      /\ \A k \in 1 .. Len(text) : text'[k] = text[k]
      /\ \A k \in 1 .. n : text'[Len(text) + k] = buff[k]
      /\ e # <<>> => text'[Len(text) + n + 1] = Newline
  BY <1>u, <1>2, TextParts
<1>4. (e = <<>> => Len(e) = 0) /\ (e # <<>> => e = <<Newline>> /\ Len(e) = 1)  BY EndsType
<1>5. /\ nprint + n = LineLen => nprint' = 0 /\ (~failed' => ~failed /\ e # <<>>)
      /\ nprint + n # LineLen => nprint' = nprint + n /\ e = <<>> /\ (~failed' => ~failed)
  BY <1>1
<1>6. TypeOK'
  <2>1. nprint' \in 0 .. LineLen - 1
    <3>1. CASE nprint + n = LineLen  BY <1>2, <1>5, <3>1, Parameters
    <3>2. CASE nprint + n # LineLen  BY <1>1, <1>2, <1>5, <3>2
    <3>3. QED  BY <3>1, <3>2
  <2>2. Len(buff') <= 4  BY <1>1, <1>2
  <2>3. failed' \in BOOLEAN
    <3>1. failed \in BOOLEAN  BY <1>t, Zenon DEF TypeOK
    <3>2. QED  BY <1>1, <3>1, Zenon
  <2>4. QED  BY <1>0, <1>1, <1>3, <1>t, <2>1, <2>2, <2>3, Zenon DEF TypeOK
<1>7. Stage'  BY <1>0, <1>t DEF Stage
<1>8. ASSUME ~failed \/ start % 4 = 0
      PROVE  /\ (nprint' + Len(buff')) % 4 = 0
             /\ nprint + n = LineLen => \A g \in Nat : (4 * g + 4 - Len(buff) + n) % 4 = 0
  <2>1. (nprint + Len(buff)) % 4 = 0  BY <1>0, <1>8, <1>t DEF Columns
  <2>2. nprint \in Nat  BY <1>2
  <2>3. /\ (nprint + n + (Len(buff) - n)) % 4 = 0
        /\ nprint + n = LineLen => /\ (0 + (Len(buff) - n)) % 4 = 0
                                   /\ \A g \in Nat : (4 * g + 4 - Len(buff) + n) % 4 = 0
    BY <1>2, <2>1, <2>2, ColumnSteps
  <2>4. QED  BY <1>1, <1>5, <2>3
<1>9. Codec'
  <2> SUFFICES ASSUME encoded, start % 4 = 0 PROVE Codec'
    BY <1>0 DEF Codec
  <2>1. PICK count \in [0 .. Len(text) -> Nat] : Spelled(payload, text, count) /\ Writing(count)
    BY <1>0, <1>t DEF Codec
  <2>2. PICK g \in Nat :
           /\ next = Taken(payload, g + 1) /\ Taken(payload, g) < Len(payload)
           /\ count[Len(text)] + Len(buff) = 4 * g + 4
           /\ \A p \in 1 .. Len(buff) : buff[p] = GroupOf(payload, g)[4 - Len(buff) + p]
    BY <1>0, <2>1 DEF Writing
  <2> DEFINE total == count[Len(text)]
  <2>3. total \in Nat /\ total + Len(buff) = 4 * g + 4  BY <1>2, <2>1, <2>2
  <2>4. ASSUME NEW k \in 1 .. Len(u) PROVE Spells(payload, total + k, u[k])
    <3> DEFINE p == 4 - Len(buff) + k
    <3>1. k \in 1 .. n /\ k \in 1 .. Len(buff) /\ u[k] = buff[k]  BY <1>u, <1>2
    <3> HIDE DEF total
    <3> DEFINE b == Len(buff)
    <3>b. b \in Nat /\ b <= 4 /\ k \in 1 .. b /\ total \in Nat /\ total + b = 4 * g + 4
      BY <1>2, <2>3, <3>1
    <3>2. p \in 1 .. 4 /\ total + k = 4 * g + p
      <4> HIDE DEF b
      <4>1. 4 - b + k \in 1 .. 4 /\ total + k = 4 * g + (4 - b + k)  BY <3>b
      <4>2. QED  BY <4>1 DEF b
    <3>3. u[k] = GroupOf(payload, g)[p]  BY <2>2, <3>1
    <3> HIDE DEF p
    <3>4. QED  BY <2>2, <3>2, <3>3 DEF Spells
  <2>5. PICK more \in [0 .. Len(text \o u) -> Nat] :
           Spelled(payload, text \o u, more) /\ more[Len(text \o u)] = total + Len(u)
    BY <1>2, <1>u, <2>1, <2>4, MoreCharacters
  <2> HIDE DEF total
  <2>6. more[Len(text \o u)] = 4 * g + 4 - Len(buff) + n
    <3>1. more[Len(text \o u)] = total + n  BY <1>u, <2>5
    <3>2. total + n = 4 * g + 4 - Len(buff) + n  BY <1>2, <2>3
    <3>3. QED  BY <3>1, <3>2
  <2>7. \E final \in [0 .. Len(text') -> Nat] :
           Spelled(payload, text', final) /\ final[Len(text')] = 4 * g + 4 - Len(buff) + n
    <3>1. CASE e = <<>>
      <4>1. text' = text \o u  BY <1>u, <3>1, ConcatEmptySeq
      <4>2. QED  BY <2>5, <2>6, <4>1
    <3>2. CASE e # <<>>
      <4>1. more[Len(text \o u)] % 4 = 0  BY <1>5, <1>8, <2>6, <3>2
      <4>2. \E final \in [0 .. Len((text \o u) \o e) -> Nat] :
               /\ Spelled(payload, (text \o u) \o e, final)
               /\ final[Len((text \o u) \o e)] = more[Len(text \o u)]
        BY <1>u, <2>5, <4>1, MoreLines
      <4>3. QED  BY <1>u, <2>6, <4>2
    <3>3. QED  BY <3>1, <3>2
  <2>8. PICK final \in [0 .. Len(text') -> Nat] :
           Spelled(payload, text', final) /\ final[Len(text')] = 4 * g + 4 - Len(buff) + n
    BY <2>7
  <2>9. /\ next' = Taken(payload', g + 1) /\ Taken(payload', g) < Len(payload')
        /\ final[Len(text')] + Len(buff') = 4 * g + 4
        /\ \A p \in 1 .. Len(buff') : buff'[p] = GroupOf(payload', g)[4 - Len(buff') + p]
    <3>1. final[Len(text')] + Len(buff') = 4 * g + 4  BY <1>1, <1>2, <2>8
    <3>2. ASSUME NEW p \in 1 .. Len(buff') PROVE buff'[p] = GroupOf(payload, g)[4 - Len(buff') + p]
      <4>1. n + p \in 1 .. Len(buff) /\ 4 - Len(buff) + (n + p) = 4 - Len(buff') + p
        <5> DEFINE b == Len(buff)
                   c == Len(buff')
        <5>1. b \in Nat /\ c = b - n /\ p \in 1 .. c  BY <1>1, <1>2
        <5> HIDE DEF b, c
        <5>2. n + p \in 1 .. b /\ 4 - b + (n + p) = 4 - c + p  BY <1>2, <5>1
        <5>3. QED  BY <5>2 DEF b, c
      <4>2. buff'[p] = buff[n + p]  BY <1>1
      <4>3. buff[n + p] = GroupOf(payload, g)[4 - Len(buff) + (n + p)]  BY <2>2, <4>1
      <4>4. QED  BY <4>1, <4>2, <4>3
    <3>3. QED  BY <1>0, <2>2, <3>1, <3>2
  <2>10. Writing(final)'  BY <1>0, <2>9 DEF Writing
  <2>11. Reading(final)'  BY <1>0 DEF Reading
  <2>12. Spelled(payload', text', final)  BY <1>0, <2>8
  <2>13. QED  BY <2>8, <2>10, <2>11, <2>12 DEF Codec
<1>10. ASSUME ~failed'
       PROVE  \E q \in Nat : /\ start + Len(text) = q * (LineLen + 1) + nprint
                             /\ \E r \in Nat : start + Len(text') = r * (LineLen + 1) + nprint'
  <2>1. PICK q \in Nat : start + Len(text) = q * (LineLen + 1) + nprint
    BY <1>0, <1>5, <1>10, <1>t DEF Columns
  <2> DEFINE line == q * (LineLen + 1)
  <2>2. line \in Nat /\ (q + 1) * (LineLen + 1) = line + LineLen + 1  BY <1>2
  <2>3. CASE nprint + n = LineLen
    <3>1. Len(text') = Len(text) + n + 1 /\ nprint' = 0  BY <1>3, <1>4, <1>5, <1>10, <2>3
    <3> HIDE DEF line
    <3>2. start + Len(text') = (line + LineLen + 1) + nprint'  BY <1>2, <2>1, <2>2, <2>3, <3>1 DEF line
    <3>3. start + Len(text') = (q + 1) * (LineLen + 1) + nprint'  BY <2>2, <3>2
    <3>4. QED  BY <2>1, <3>3
  <2>4. CASE nprint + n # LineLen
    <3>1. Len(text') = Len(text) + n /\ nprint' = nprint + n  BY <1>2, <1>3, <1>4, <1>5, <2>4
    <3> HIDE DEF line
    <3>2. start + Len(text') = line + nprint'  BY <1>2, <2>1, <2>2, <3>1 DEF line
    <3>3. QED  BY <2>1, <3>2 DEF line
  <2>5. QED  BY <2>3, <2>4
<1>11. Columns'
  <2>1. ~failed' => ~failed  BY <1>5
  <2>2. (~failed' \/ start' % 4 = 0) => (nprint' + Len(buff')) % 4 = 0  BY <1>0, <1>8, <2>1
  <2>3. ~failed' => \E q \in Nat : start' + Len(text') = q * (LineLen + 1) + nprint'
    BY <1>0, <1>10
  <2>4. QED  BY <1>0, <2>2, <2>3 DEF Columns
<1>12. Passed' /\ OnlyAlphabet'
  <2>1. i' = 0 /\ 0 <= Len(text')  BY <1>0, <1>3, <1>t DEF Stage
  <2>2. QED  BY <1>0, <2>1 DEF Passed, OnlyAlphabet
<1>13. Layout'
  <2> SUFFICES ASSUME encoded, ~failed', NEW k \in 1 .. Len(text')
               PROVE  /\ (start + k) % (LineLen + 1) = 0 => text'[k] = Newline
                      /\ text'[k] = Newline => (start + k) % (LineLen + 1) = 0
    BY <1>0 DEF Layout
  <2>1. PICK q \in Nat : start + Len(text) = q * (LineLen + 1) + nprint  BY <1>10
  <2> DEFINE line == q * (LineLen + 1)
  <2>2. line \in Nat  BY <1>2
  <2>3. CASE k \in 1 .. Len(text)
    <3>1. ~failed  BY <1>5
    <3>2. text'[k] = text[k]  BY <1>3, <2>3
    <3>3. QED  BY <1>0, <1>t, <2>3, <3>1, <3>2 DEF Layout
  <2>4. CASE k \in Len(text) + 1 .. Len(text) + n
    <3> DEFINE r == nprint + (k - Len(text))
    <3>1. k - Len(text) \in 1 .. n /\ Len(text) + (k - Len(text)) = k  BY <1>2, <2>4
    <3>2. text'[k] = buff[k - Len(text)] /\ buff[k - Len(text)] \in Alphabet
      <4>1. buff \in Seq(Alphabet) /\ k - Len(text) \in 1 .. Len(buff)  BY <1>2, <1>t, <3>1, Types
      <4>2. QED  BY <1>3, <3>1, <4>1
    <3>3. text'[k] # Newline
      <4>1. \A x \in Alphabet : x # Newline  BY DEF Newline, PADDING_CHARACTER, Alphabet
      <4>2. QED  BY <3>2, <4>1
    <3>4. r \in 1 .. LineLen  BY <1>1, <1>2, <3>1
    <3>5. start + k = line + r
      <4> HIDE DEF line
      <4>1. QED  BY <1>2, <2>1, <2>2, <3>1 DEF line
    <3>6. (start + k) % (LineLen + 1) # 0  BY <3>4, <3>5, LinePositions
    <3>7. QED  BY <3>3, <3>6
  <2>5. CASE k > Len(text) + n
    <3>0. e # <<>>
      <4>1. e = <<>> => Len(text') = Len(text) + n  BY <1>2, <1>3, <1>4
      <4>2. QED  BY <1>2, <2>5, <4>1
    <3>1. k = Len(text) + n + 1 /\ e # <<>>
      <4>1. Len(text') = Len(text) + n + 1  BY <1>3, <1>4, <3>0
      <4>2. QED  BY <1>2, <2>5, <3>0, <4>1
    <3>2. nprint + n = LineLen /\ text'[k] = Newline  BY <1>3, <1>5, <3>1
    <3>3. start + k = line + LineLen + 1
      <4> HIDE DEF line
      <4>1. QED  BY <1>2, <2>1, <2>2, <3>1, <3>2 DEF line
    <3>4. (start + k) % (LineLen + 1) = 0
      <4>1. 1 \in 1 .. LineLen  BY <1>2, Parameters
      <4>2. QED  BY <3>3, <4>1, LinePositions
    <3>5. QED  BY <3>2, <3>4
  <2>6. QED  BY <1>2, <2>3, <2>4, <2>5
<1>14. RoundTrip'  BY <1>0 DEF RoundTrip
<1>15. QED  BY <1>6, <1>7, <1>9, <1>11, <1>12, <1>13, <1>14 DEF IInv

LEMMA PrintedStep == IInv /\ Printed => IInv'
<1> SUFFICES ASSUME IInv, Printed PROVE IInv'
  OBVIOUS
<1>t. TypeOK /\ Stage /\ Codec /\ Columns /\ Passed /\ OnlyAlphabet /\ Layout
  BY DEF IInv
<1>1. /\ pc = "print" /\ buff = <<>> /\ pc' = "chunk"
      /\ UNCHANGED <<nprint, payload, next, buff, text, i, decoded, encoded, cut, failed, ret, start, commands>>
  BY DEF Printed
<1>2. Len(buff) = 0 /\ nprint \in Nat  BY <1>1, <1>t, Types, Parameters
<1>3. TypeOK'  BY <1>1, <1>t, Zenon DEF TypeOK
<1>4. Stage'  BY <1>1, <1>t DEF Stage
<1>5. Codec'
  <2> SUFFICES ASSUME encoded, start % 4 = 0 PROVE Codec'
    BY <1>1 DEF Codec
  <2>1. PICK count \in [0 .. Len(text) -> Nat] : Spelled(payload, text, count) /\ Writing(count)
    BY <1>1, <1>t DEF Codec
  <2>2. PICK g \in Nat : next = Taken(payload, g + 1) /\ count[Len(text)] + Len(buff) = 4 * g + 4
    BY <1>1, <2>1 DEF Writing
  <2>3. next = Taken(payload, g + 1) /\ count[Len(text)] = 4 * (g + 1) /\ g + 1 \in Nat
    <3>1. Len(text) \in Nat  BY <1>t, Types
    <3>2. count[Len(text)] \in Nat  BY <3>1
    <3>3. QED  BY <1>2, <2>2, <3>2
  <2>4. Writing(count)'  BY <1>1, <2>3 DEF Writing
  <2>5. Spelled(payload', text', count) /\ text' = text  BY <1>1, <2>1
  <2>6. Reading(count)'  BY <1>1 DEF Reading
  <2>7. QED  BY <2>4, <2>5, <2>6 DEF Codec
<1>6. Columns'
  <2>1. (~failed \/ start % 4 = 0) => nprint % 4 = 0
    <3>1. nprint + Len(buff) = nprint  BY <1>2
    <3>2. QED  BY <1>1, <1>t, <3>1 DEF Columns
  <2>2. QED  BY <1>1, <1>t, <2>1 DEF Columns
<1>7. Passed' /\ OnlyAlphabet'  BY <1>1, <1>t DEF Passed, OnlyAlphabet
<1>8. Layout'
  <2>1. ~failed => nprint % 4 = 0  BY <1>1, <1>6 DEF Columns
  <2>2. QED  BY <1>1, <1>t, <2>1 DEF Layout
<1>9. RoundTrip'  BY <1>1 DEF RoundTrip
<1>10. QED  BY <1>3, <1>4, <1>5, <1>6, <1>7, <1>8, <1>9 DEF IInv

(* A beginning of a payload is one of its own length. *)
LEMMA Beginning ==
  ASSUME NEW pay \in Seq(Byte), NEW n \in 0 .. Len(pay), NEW d, d = SubSeq(pay, 1, n)
  PROVE  Len(d) = n /\ Len(d) <= Len(pay) /\ d = SubSeq(pay, 1, Len(d))
<1>1. \A k \in 1 .. n : pay[k] \in Byte  OBVIOUS
<1>2. Len(d) = IF 1 <= n THEN n - 1 + 1 ELSE 0  BY <1>1, SubSeqProperties
<1>3. Len(d) = n  BY <1>2
<1>4. QED  BY <1>3

LEMMA NothingIsBeginning ==
  ASSUME NEW pay \in Seq(Byte)
  PROVE  /\ Taken(pay, 0) = 0 /\ <<>> = SubSeq(pay, 1, 0)
         /\ Len(<<>>) <= Len(pay) /\ <<>> = SubSeq(pay, 1, Len(<<>>))
<1>1. SubSeq(pay, 1, 0) = <<>>  BY SubSeqEmpty
<1>2. Len(<<>>) = 0 /\ Taken(pay, 0) = 0 /\ 0 <= Len(pay)  BY DEF Taken
<1>3. QED  BY <1>1, <1>2

LEMMA PrintFailsStep == IInv /\ PrintFails => IInv'
<1> SUFFICES ASSUME IInv, PrintFails PROVE IInv'
  OBVIOUS
<1>t. TypeOK /\ Stage /\ Passed /\ OnlyAlphabet  BY DEF IInv
<1>1. /\ pc = "print" /\ pc' = "idle" /\ ret' = "write error" /\ failed' = TRUE
      /\ UNCHANGED <<nprint, payload, next, buff, text, i, decoded, encoded, cut, start, commands>>
  BY DEF PrintFails
<1>2. TypeOK'  BY <1>1, <1>t, Zenon DEF TypeOK
<1>3. Stage' /\ Codec' /\ Columns' /\ Layout'  BY <1>1 DEF Stage, Codec, Columns, Layout
<1>4. Passed' /\ OnlyAlphabet'  BY <1>1, <1>t DEF Passed, OnlyAlphabet
<1>5. RoundTrip'
  <2>1. decoded = <<>> /\ payload \in Seq(Byte)  BY <1>1, <1>t, Types DEF Stage
  <2>2. Len(decoded) <= Len(payload) /\ decoded = SubSeq(payload, 1, Len(decoded))
    BY <2>1, NothingIsBeginning
  <2>3. QED  BY <1>1, <2>2 DEF RoundTrip
<1>6. QED  BY <1>2, <1>3, <1>4, <1>5 DEF IInv

LEMMA EncodedStep == IInv /\ Encoded => IInv'
<1> SUFFICES ASSUME IInv, Encoded PROVE IInv'
  OBVIOUS
<1>t. TypeOK /\ Stage /\ Codec /\ Columns /\ Layout  BY DEF IInv
<1>1. /\ pc = "chunk" /\ Remaining = 0 /\ pc' = "skip" /\ i' = 0
      /\ UNCHANGED <<nprint, payload, next, buff, decoded, encoded, cut, failed, ret, start, commands>>
  BY DEF Encoded
<1>2. PICK end \in Ends : text' = text \o end  BY DEF Encoded
<1>3. /\ payload \in Seq(Byte) /\ Len(payload) \in Nat /\ next \in 0 .. Len(payload)
      /\ text \in Seq(Char) /\ Len(text) \in Nat
  BY <1>t, Types
<1>4. encoded /\ ~cut /\ decoded = <<>> /\ ret = "none"  BY <1>1, <1>t DEF Stage
<1>5. /\ text' \in Seq(Char) /\ Len(text') = Len(text) + Len(end)
      /\ \A k \in 1 .. Len(text) : text'[k] = text[k]
      /\ \A k \in 1 .. Len(text') : k > Len(text) => k = Len(text') /\ text'[k] = Newline
  <2>1. end \in Seq(Char) /\ (end = <<>> => Len(end) = 0) /\ (end # <<>> => Len(end) = 1 /\ end[1] = Newline)
    BY EndsType
  <2>2. end \in Seq(Char) /\ Len(end) \in Nat  BY <2>1
  <2>3. /\ text' \in Seq(Char) /\ Len(text') = Len(text) + Len(end)
        /\ \A k \in 1 .. Len(text) + Len(end) :
              text'[k] = IF k <= Len(text) THEN text[k] ELSE end[k - Len(text)]
    BY <1>2, <1>3, <2>2, ConcatProperties
  <2>4. ASSUME NEW k \in 1 .. Len(text') , k > Len(text) PROVE k = Len(text') /\ text'[k] = Newline
    <3>1. end # <<>> /\ Len(end) = 1
      <4>1. Len(end) # 0  BY <1>3, <2>2, <2>3, <2>4
      <4>2. QED  BY <2>1, <4>1
    <3>2. k = Len(text) + 1 /\ k - Len(text) = 1 /\ ~(k <= Len(text)) /\ k \in 1 .. Len(text) + Len(end)
      BY <1>3, <2>3, <2>4, <3>1
    <3>3. text'[k] = end[1]  BY <2>3, <3>2
    <3>4. QED  BY <2>1, <2>3, <3>1, <3>2, <3>3
  <2>5. ASSUME NEW k \in 1 .. Len(text) PROVE text'[k] = text[k]
    <3>1. k \in 1 .. Len(text) + Len(end) /\ k <= Len(text)  BY <1>3, <2>2
    <3>2. QED  BY <2>3, <3>1
  <2>6. QED  BY <2>3, <2>4, <2>5
<1>6. TypeOK'
  <2>1. i' \in Nat  BY <1>1
  <2>2. QED  BY <1>1, <1>5, <1>t, <2>1, Zenon DEF TypeOK
<1>7. Stage'  BY <1>1, <1>t DEF Stage
<1>8. Codec'
  <2> SUFFICES ASSUME start % 4 = 0 PROVE Codec'
    BY <1>1 DEF Codec
  <2>1. PICK count \in [0 .. Len(text) -> Nat] : Spelled(payload, text, count) /\ Writing(count)
    BY <1>1, <1>4, <1>t DEF Codec
  <2>2. PICK g \in Nat : next = Taken(payload, g) /\ count[Len(text)] = 4 * g
    BY <1>1, <2>1 DEF Writing
  <2>3. count[Len(text)] % 4 = 0
    <3>1. (4 * g) % 4 = 0  OBVIOUS
    <3>2. QED  BY <2>2, <3>1
  <2>4. PICK more \in [0 .. Len(text') -> Nat] :
           Spelled(payload, text', more) /\ more[Len(text')] = 4 * g
    BY <1>2, <1>3, <2>1, <2>2, <2>3, MoreLines
  <2>5. Taken(payload', g) = Len(payload')  BY <1>1, <1>3, <2>2 DEF Remaining
  <2>6. more[i'] = 4 * 0 /\ decoded' = SubSeq(payload', 1, Taken(payload', 0))
    <3>1. more[0] = 0  BY <2>4 DEF Spelled
    <3>2. QED  BY <1>1, <1>3, <1>4, <3>1, NothingIsBeginning
  <2>7. Reading(more)'  BY <1>1, <2>4, <2>5, <2>6 DEF Reading
  <2>8. Writing(more)'  BY <1>1 DEF Writing
  <2>9. Spelled(payload', text', more)  BY <1>1, <2>4
  <2>10. QED  BY <2>4, <2>7, <2>8, <2>9 DEF Codec
<1>9. Columns'
  <2>1. ~failed => nprint % 4 = 0  BY <1>1, <1>t DEF Columns
  <2>2. QED  BY <1>1, <2>1 DEF Columns
<1>10. Passed'  BY <1>1 DEF Passed
<1>11. OnlyAlphabet'  BY <1>1, <1>5 DEF OnlyAlphabet
<1>12. Layout'
  <2>1. ~failed => nprint % 4 = 0  BY <1>1, <1>t DEF Columns
  <2>2. ASSUME ~failed, NEW k \in 1 .. Len(text')
        PROVE  /\ (start + k) % (LineLen + 1) = 0 => text'[k] = Newline
               /\ text'[k] = Newline => (start + k) % (LineLen + 1) = 0 \/ k = Len(text')
    <3>1. CASE k <= Len(text)
      <4>1. k \in 1 .. Len(text) /\ text'[k] = text[k]  BY <1>3, <1>5, <3>1
      <4>2. QED  BY <1>1, <1>4, <1>t, <2>2, <4>1 DEF Layout
    <3>2. CASE ~(k <= Len(text))
      <4>1. k > Len(text)  BY <1>3, <3>2
      <4>2. QED  BY <1>5, <4>1
    <3>3. QED  BY <3>1, <3>2
  <2>3. QED  BY <1>1, <2>1, <2>2 DEF Layout
<1>13. RoundTrip'
  <2>1. Len(decoded) <= Len(payload) /\ decoded = SubSeq(payload, 1, Len(decoded))
    BY <1>3, <1>4, NothingIsBeginning
  <2>2. QED  BY <1>1, <1>4, <2>1 DEF RoundTrip
<1>14. QED  BY <1>6, <1>7, <1>8, <1>9, <1>10, <1>11, <1>12, <1>13 DEF IInv

-----------------------------------------------------------------------------
(* The steps of a decoding.                                                *)

(* The characters of an encoding, and that each is at one place. *)
LEMMA SpellsOne ==
  ASSUME NEW pay \in Seq(Byte), NEW h \in Nat, NEW p \in 1 .. 4, NEW char,
         Spells(pay, 4 * h + p, char)
  PROVE  /\ Taken(pay, h) < Len(pay) /\ char = GroupOf(pay, h)[p]
         /\ char \in Alphabet
<1>1. PICK g \in Nat, o \in 1 .. 4 :
         4 * h + p = 4 * g + o /\ Taken(pay, g) < Len(pay) /\ char = GroupOf(pay, g)[o]
  BY DEF Spells
<1>2. g = h /\ o = p  BY <1>1
<1>3. Taken(pay, h) < Len(pay) /\ char = GroupOf(pay, h)[p]  BY <1>1, <1>2
<1> DEFINE s == GroupOf(pay, h)
<1>4. s \in Seq(Alphabet) /\ Len(s) = 4  BY <1>3, GroupType
<1> HIDE DEF s
<1>5. p \in 1 .. Len(s)  BY <1>4
<1>6. s[p] \in Alphabet  BY <1>4, <1>5, ElementOfSeq
<1>7. QED  BY <1>3, <1>6 DEF s

(* A text that is such a beginning and ends with a group. *)
Grouped(pay, t, count) ==
    pay \in Seq(Byte) /\ t \in Seq(Char) /\ Spelled(pay, t, count) /\ count[Len(t)] % 4 = 0

(* A group of it that begins behind the j-th character. *)
GroupBehind(pay, t, h, j) ==
    \A k \in 1 .. 4 : j + k \in 1 .. Len(t) /\ t[j + k] = GroupOf(pay, h)[k]

(* Inside a group of the encoding the next character is another of it. *)
LEMMA NextCharacter ==
  ASSUME NEW pay, NEW t, NEW count, Grouped(pay, t, count),
         NEW a \in 1 .. Len(t), NEW m \in Nat, m % 4 # 0, count[a] = m
  PROVE  a + 1 \in 1 .. Len(t) /\ count[a + 1] = m + 1 /\ Spells(pay, m + 1, t[a + 1])
<1> DEFINE b == a + 1
<1>1. b \in 1 .. Len(t) /\ b - 1 = a
  <2>1. t \in Seq(Char) /\ count[Len(t)] % 4 = 0  BY DEF Grouped
  <2>2. a # Len(t)  BY <2>1
  <2>3. Len(t) \in Nat  BY <2>1
  <2>4. QED  BY <2>2, <2>3
<1> HIDE DEF b
<1>2. IF t[b] = Newline THEN count[b] = count[a] /\ count[b] % 4 = 0
      ELSE count[b] = count[a] + 1 /\ Spells(pay, count[b], t[b])
  BY <1>1 DEF Spelled, Grouped
<1>3. t[b] # Newline  BY <1>2
<1>4. b \in 1 .. Len(t) /\ count[b] = m + 1 /\ Spells(pay, m + 1, t[b])  BY <1>1, <1>2, <1>3
<1>5. QED  BY <1>4 DEF b

(* Where a group begins, all of it is there. *)
LEMMA WholeGroup ==
  ASSUME NEW pay, NEW t, NEW count, Grouped(pay, t, count),
         NEW h \in Nat, NEW j \in Nat, j < Len(t), count[j] = 4 * h, t[j + 1] # Newline
  PROVE  /\ count[j + 4] = 4 * (h + 1) /\ Taken(pay, h) < Len(pay)
         /\ GroupBehind(pay, t, h, j)
<1> DEFINE Right(k) == /\ j + k \in 1 .. Len(t) /\ count[j + k] = 4 * h + k
                       /\ Spells(pay, 4 * h + k, t[j + k])
<1>t. pay \in Seq(Byte) /\ t \in Seq(Char) /\ Len(t) \in Nat /\ Spelled(pay, t, count)
  BY DEF Grouped
<1>1. Right(1)
  <2>1. j + 1 \in 1 .. Len(t) /\ (j + 1) - 1 = j  BY <1>t
  <2>2. count[j + 1] = count[j] + 1 /\ Spells(pay, count[j + 1], t[j + 1])
    BY <1>t, <2>1 DEF Spelled
  <2>3. QED  BY <2>1, <2>2
<1>2. ASSUME NEW k \in 1 .. 3, Right(k) PROVE Right(k + 1)
  <2> DEFINE a == j + k
             m == 4 * h + k
  <2>1. a \in 1 .. Len(t) /\ count[a] = m  BY <1>2
  <2>0. m \in Nat /\ m % 4 # 0  OBVIOUS
  <2>2. j + (k + 1) = a + 1 /\ 4 * h + (k + 1) = m + 1  OBVIOUS
  <2> HIDE DEF a, m
  <2>3. a + 1 \in 1 .. Len(t) /\ count[a + 1] = m + 1 /\ Spells(pay, m + 1, t[a + 1])
    BY <2>0, <2>1, NextCharacter
  <2>4. QED  BY <2>2, <2>3
<1>3. ASSUME NEW k \in 1 .. 4, Right(k)
      PROVE  /\ j + k \in 1 .. Len(t) /\ t[j + k] = GroupOf(pay, h)[k] /\ Taken(pay, h) < Len(pay)
  <2> DEFINE char == t[j + k]
  <2>1. Spells(pay, 4 * h + k, char)  BY <1>3
  <2> HIDE DEF char
  <2>2. Taken(pay, h) < Len(pay) /\ char = GroupOf(pay, h)[k]  BY <1>t, <2>1, SpellsOne
  <2>3. QED  BY <1>3, <2>2 DEF char
<1>4. Right(4) => count[j + 4] = 4 * (h + 1)  OBVIOUS
<1> HIDE DEF Right
<1>5. Right(2) /\ Right(3) /\ Right(4)
  <2>1. 1 \in 1 .. 3 /\ 2 \in 1 .. 3 /\ 3 \in 1 .. 3 /\ 1 + 1 = 2 /\ 2 + 1 = 3 /\ 3 + 1 = 4  OBVIOUS
  <2>2. Right(2)  BY <1>1, <1>2, <2>1
  <2>3. Right(3)  BY <1>2, <2>1, <2>2
  <2>4. QED  BY <1>2, <2>1, <2>2, <2>3
<1>6. \A k \in 1 .. 4 : Right(k)
  <2>1. \A k \in 1 .. 4 : k = 1 \/ k = 2 \/ k = 3 \/ k = 4  OBVIOUS
  <2>2. QED  BY <1>1, <1>5, <2>1
<1>7. GroupBehind(pay, t, h, j)  BY <1>3, <1>6 DEF GroupBehind
<1>8. Taken(pay, h) < Len(pay)
  <2>1. 1 \in 1 .. 4  OBVIOUS
  <2>2. QED  BY <1>1, <1>3, <2>1
<1>9. QED  BY <1>4, <1>5, <1>7, <1>8

(* What the decoding of an encoding knows. *)
LEMMA Known ==
  ASSUME IInv, pc = "skip", encoded, start % 4 = 0, ~cut
  PROVE  \E count \in [0 .. Len(text) -> Nat], g \in Nat, h \in Nat :
            /\ Spelled(payload, text, count)
            /\ Taken(payload, g) = Len(payload) /\ count[Len(text)] = 4 * g
            /\ count[i] = 4 * h /\ decoded = SubSeq(payload, 1, Taken(payload, h))
<1>1. PICK count \in [0 .. Len(text) -> Nat] : Spelled(payload, text, count) /\ Reading(count)
  BY DEF IInv, Codec
<1>2. QED  BY <1>1 DEF Reading

LEMMA SkipStep == IInv /\ Skip => IInv'
<1> SUFFICES ASSUME IInv, Skip PROVE IInv'
  OBVIOUS
<1>t. TypeOK /\ Stage /\ Codec /\ Columns /\ Passed /\ OnlyAlphabet /\ Layout /\ RoundTrip
  BY DEF IInv
<1>1. /\ pc = "skip" /\ i < Len(text) /\ At(i, Other) \in {Newline, Return} /\ i' = i + 1
      /\ UNCHANGED <<pc, nprint, payload, next, buff, text, decoded, encoded, cut, failed, ret, start, commands>>
  BY DEF Skip
<1>2. /\ payload \in Seq(Byte) /\ text \in Seq(Char) /\ Len(text) \in Nat /\ i \in Nat
  BY <1>t, Types
<1>3. text[i + 1] \in {Newline, Return}  BY <1>1 DEF At
<1>4. TypeOK'
  <2>1. i' \in Nat  BY <1>1, <1>2
  <2>2. QED  BY <1>1, <1>t, <2>1, Zenon DEF TypeOK
<1>5. Stage'  BY <1>1, <1>t DEF Stage
<1>6. Codec'
  <2> SUFFICES ASSUME encoded, start % 4 = 0 PROVE Codec'
    BY <1>1 DEF Codec
  <2>1. PICK count \in [0 .. Len(text) -> Nat] : Spelled(payload, text, count) /\ Reading(count)
    BY <1>1, <1>t DEF Codec
  <2>2. PICK g \in Nat : Taken(payload, g) = Len(payload) /\ count[Len(text)] = 4 * g
    BY <1>1, <2>1 DEF Reading
  <2>3. ASSUME ~cut
        PROVE  \E h \in Nat : count[i + 1] = 4 * h /\ decoded = SubSeq(payload, 1, Taken(payload, h))
    <3>1. PICK h \in Nat : count[i] = 4 * h /\ decoded = SubSeq(payload, 1, Taken(payload, h))
      BY <1>1, <2>1, <2>3 DEF Reading
    <3>2. text[i + 1] = Newline
      <4>1. SUFFICES ASSUME text[i + 1] # Newline PROVE FALSE
        OBVIOUS
      <4>2. text[i + 1] = GroupOf(payload, h)[1] /\ Taken(payload, h) < Len(payload)
        <5>1. Grouped(payload, text, count)
          <6>1. (4 * g) % 4 = 0  OBVIOUS
          <6>2. QED  BY <1>2, <2>1, <2>2, <6>1 DEF Grouped
        <5>2. Taken(payload, h) < Len(payload) /\ GroupBehind(payload, text, h, i)
          BY <1>1, <1>2, <3>1, <4>1, <5>1, WholeGroup
        <5>3. 1 \in 1 .. 4  OBVIOUS
        <5>4. QED  BY <5>2, <5>3 DEF GroupBehind
      <4>3. text[i + 1] \in Alphabet
        <5>1. GroupOf(payload, h) \in Seq(Alphabet) /\ Len(GroupOf(payload, h)) = 4
          BY <1>2, <4>2, GroupType
        <5>2. GroupOf(payload, h)[1] \in Alphabet  BY <5>1
        <5>3. QED  BY <4>2, <5>2
      <4>4. text[i + 1] = Return  BY <1>3, <4>1
      <4>5. QED  BY <4>3, <4>4 DEF Alphabet, PADDING_CHARACTER, Return
    <3>3. i + 1 \in 1 .. Len(text) /\ (i + 1) - 1 = i  BY <1>1, <1>2
    <3>4. count[i + 1] = count[i]  BY <2>1, <3>2, <3>3 DEF Spelled
    <3>5. QED  BY <3>1, <3>4
  <2>4. Reading(count)'  BY <1>1, <2>2, <2>3 DEF Reading
  <2>5. Writing(count)'  BY <1>1 DEF Writing
  <2>6. Spelled(payload', text', count) /\ text' = text  BY <1>1, <2>1
  <2>7. QED  BY <2>4, <2>5, <2>6 DEF Codec
<1>7. Columns'  BY <1>1, <1>t DEF Columns
<1>8. Passed'
  <2>1. \A k \in 1 .. i + 1 : k \in 1 .. i \/ k = i + 1  BY <1>2
  <2>2. QED  BY <1>1, <1>3, <1>t, <2>1 DEF Passed, Allowed
<1>9. OnlyAlphabet'
  <2>1. i + 1 <= Len(text)  BY <1>1, <1>2
  <2>2. QED  BY <1>1, <2>1 DEF OnlyAlphabet
<1>10. Layout'  BY <1>1, <1>t DEF Layout
<1>11. RoundTrip'  BY <1>1, <1>t DEF RoundTrip
<1>12. QED  BY <1>4, <1>5, <1>6, <1>7, <1>8, <1>9, <1>10, <1>11 DEF IInv

(* What Group finds when it does not refuse: four characters of the alphabet. *)
LEMMA GroupIsThere ==
  ASSUME IInv, i < Len(text), NEW over,
         decode_chunk([k \in 1 .. 4 |-> At(i + k - 1, over)]) # Refused
  PROVE  /\ i + 4 <= Len(text)
         /\ \A k \in 1 .. 4 : Valid(text[i + k]) /\ At(i + k - 1, over) = text[i + k]
<1>t. i \in Nat /\ Len(text) \in Nat  BY Types DEF IInv
<1> DEFINE q == [k \in 1 .. 4 |-> At(i + k - 1, over)]
<1>1. \A k \in 1 .. 4 : Valid(q[k])  BY DecodeType
<1>2. \A k \in 1 .. 4 : Valid(At(i + k - 1, over))  BY <1>1
<1>3. ~Valid(Nul)  BY DEF Valid, Nul, Alphabet, PADDING_CHARACTER
<1>4. \A k \in 1 .. 4 : i + k - 1 # Len(text)
  <2>1. SUFFICES ASSUME NEW k \in 1 .. 4, i + k - 1 = Len(text) PROVE FALSE
    OBVIOUS
  <2>2. At(i + k - 1, over) = Nul  BY <1>t, <2>1 DEF At
  <2>3. QED  BY <1>2, <1>3, <2>2
<1>5. i + 4 <= Len(text)
  <2>1. i + 1 - 1 # Len(text) /\ i + 2 - 1 # Len(text) /\ i + 3 - 1 # Len(text) /\ i + 4 - 1 # Len(text)
    <3>1. 1 \in 1 .. 4 /\ 2 \in 1 .. 4 /\ 3 \in 1 .. 4 /\ 4 \in 1 .. 4  OBVIOUS
    <3>2. QED  BY <1>4, <3>1
  <2>2. QED  BY <1>t, <2>1
<1>6. ASSUME NEW k \in 1 .. 4 PROVE Valid(text[i + k]) /\ At(i + k - 1, over) = text[i + k]
  <2>1. i + k - 1 < Len(text) /\ (i + k - 1) + 1 = i + k  BY <1>t, <1>5
  <2>2. At(i + k - 1, over) = text[i + k]  BY <2>1 DEF At
  <2>3. QED  BY <1>2, <2>2
<1>7. QED  BY <1>5, <1>6

(* Of an encoding, Group finds the chunk that is next. *)
LEMMA GroupIsRight ==
  ASSUME IInv, i < Len(text), At(i, Other) \notin {Newline, Return}, NEW over, NEW count,
         Grouped(payload, text, count), NEW h \in Nat, count[i] = 4 * h
  PROVE  /\ decode_chunk([k \in 1 .. 4 |-> At(i + k - 1, over)])
               = SubSeq(payload, Taken(payload, h) + 1, Taken(payload, h + 1))
         /\ Taken(payload, h) < Len(payload) /\ count[i + 4] = 4 * (h + 1)
<1>t. /\ payload \in Seq(Byte) /\ text \in Seq(Char) /\ Len(text) \in Nat /\ i \in Nat
  BY Types DEF IInv
<1>1. text[i + 1] # Newline  BY <1>t DEF At
<1>2. /\ count[i + 4] = 4 * (h + 1) /\ Taken(payload, h) < Len(payload)
      /\ \A k \in 1 .. 4 : i + k \in 1 .. Len(text) /\ text[i + k] = GroupOf(payload, h)[k]
  <2>1. count[i + 4] = 4 * (h + 1) /\ Taken(payload, h) < Len(payload)
    BY <1>t, <1>1, WholeGroup
  <2>2. GroupBehind(payload, text, h, i)
    BY <1>t, <1>1, WholeGroup
  <2>3. QED  BY <2>1, <2>2 DEF GroupBehind
<1> DEFINE q == [k \in 1 .. 4 |-> At(i + k - 1, over)]
           c == SubSeq(payload, Taken(payload, h) + 1, Taken(payload, h + 1))
<1>3. c \in Seq(Byte) /\ Len(c) \in 1 .. 3  BY <1>t, <1>2, GroupType
<1>4. ASSUME NEW k \in 1 .. 4 PROVE q[k] = encode_chunk(c)[k]
  <2>1. i + k - 1 < Len(text) /\ (i + k - 1) + 1 = i + k  BY <1>t, <1>2
  <2>2. q[k] = text[i + k]  BY <2>1 DEF At
  <2>3. QED  BY <1>2, <2>2 DEF GroupOf
<1> HIDE DEF q, c
<1>5. decode_chunk(q) = c  BY <1>3, <1>4, ChunkRoundTrip
<1>6. QED  BY <1>2, <1>5 DEF q, c

(* One more group is decoded. *)
LEMMA MoreDecoded ==
  ASSUME NEW pay \in Seq(Byte), NEW h \in Nat, Taken(pay, h) < Len(pay)
  PROVE  SubSeq(pay, 1, Taken(pay, h)) \o SubSeq(pay, Taken(pay, h) + 1, Taken(pay, h + 1))
            = SubSeq(pay, 1, Taken(pay, h + 1))
<1> DEFINE m == Taken(pay, h)
           n == Taken(pay, h + 1)
<1>1. m \in Nat /\ n \in Nat /\ m <= n /\ n <= Len(pay)
  <2>1. m \in 0 .. Len(pay) /\ n \in 0 .. Len(pay) /\ m <= n  BY TakenType
  <2>2. QED  BY <2>1
<1> HIDE DEF m, n
<1>2. SubSeq(pay, 1, m) \o SubSeq(pay, m + 1, n) = SubSeq(pay, 1, n)
  <2>1. 1 \in 1 .. Len(pay) + 1 /\ m \in 1 - 1 .. Len(pay) /\ n \in m .. Len(pay)  BY <1>1
  <2>2. QED  BY <2>1, ConcatAdjacentSubSeq
<1>3. QED  BY <1>2 DEF m, n

(* A part of what is decoded goes behind what was decoded before. *)
LEMMA MoreBytes ==
  ASSUME NEW d \in Seq(Byte), NEW out \in Seq(Byte), NEW n \in 1 .. Len(out)
  PROVE  /\ d \o SubSeq(out, 1, n) \in Seq(Byte)
         /\ n = Len(out) => SubSeq(out, 1, n) = out
<1>1. \A k \in 1 .. n : out[k] \in Byte  OBVIOUS
<1>2. SubSeq(out, 1, n) \in Seq(Byte)  BY <1>1, SubSeqProperties
<1>3. d \o SubSeq(out, 1, n) \in Seq(Byte)  BY <1>2, ConcatProperties
<1>4. SubSeq(out, 1, Len(out)) = out  BY SubSeqFull
<1>5. QED  BY <1>3, <1>4

LEMMA GroupStep == IInv /\ Group => IInv'
<1> SUFFICES ASSUME IInv, Group PROVE IInv'
  OBVIOUS
<1>t. TypeOK /\ Stage /\ Codec /\ Columns /\ Passed /\ OnlyAlphabet /\ Layout /\ RoundTrip
  BY DEF IInv
<1>1. /\ pc = "skip" /\ i < Len(text) /\ At(i, Other) \notin {Newline, Return}
      /\ UNCHANGED <<nprint, payload, next, buff, text, encoded, failed, start, commands>>
  BY DEF Group
<1>2. /\ payload \in Seq(Byte) /\ text \in Seq(Char) /\ Len(text) \in Nat /\ i \in Nat
      /\ decoded \in Seq(Byte)
  BY <1>t, Types
<1> DEFINE Out(over) == decode_chunk([k \in 1 .. 4 |-> At(i + k - 1, over)])
<1>3. PICK over \in Char :
         IF Out(over) = Refused
         THEN /\ pc' = "idle" /\ ret' = "invalid input"
              /\ UNCHANGED <<i, decoded, cut>>
         ELSE /\ i' = i + 4
              /\ \E n \in 1 .. Len(Out(over)) : /\ decoded' = decoded \o SubSeq(Out(over), 1, n)
                                                /\ cut' = (cut \/ n < Len(Out(over)))
              /\ UNCHANGED <<pc, ret>>
  BY DEF Group
<1> DEFINE out == Out(over)
<1>4. ASSUME NEW count, NEW g \in Nat, count[Len(text)] = 4 * g,
             Spelled(payload, text, count), NEW h \in Nat, count[i] = 4 * h
      PROVE  /\ out = SubSeq(payload, Taken(payload, h) + 1, Taken(payload, h + 1))
             /\ Taken(payload, h) < Len(payload) /\ count[i + 4] = 4 * (h + 1)
             /\ out # Refused
  <2>1. Grouped(payload, text, count)
    <3>1. (4 * g) % 4 = 0  OBVIOUS
    <3>2. QED  BY <1>2, <1>4, <3>1 DEF Grouped
  <2>2. /\ out = SubSeq(payload, Taken(payload, h) + 1, Taken(payload, h + 1))
        /\ Taken(payload, h) < Len(payload) /\ count[i + 4] = 4 * (h + 1)
    BY <1>1, <1>4, <2>1, GroupIsRight
  <2>3. out \in Seq(Byte) /\ Len(out) \in 1 .. 3  BY <1>2, <2>2, GroupType
  <2> HIDE DEF out
  <2>4. out # Refused
    <3>1. out[1] \in Byte
      <4>1. 1 \in 1 .. Len(out)  BY <2>3
      <4>2. QED  BY <2>3, <4>1, ElementOfSeq
    <3>2. Refused[1] = -1 /\ -1 \notin Byte  BY DEF Refused, Byte
    <3>3. QED  BY <3>1, <3>2
  <2>5. QED  BY <2>2, <2>4
<1>5. CASE out = Refused
  <2>1. /\ pc' = "idle" /\ ret' = "invalid input" /\ UNCHANGED <<i, decoded, cut>>
    BY <1>3, <1>5
  <2>2. TypeOK'  BY <1>1, <1>t, <2>1, Zenon DEF TypeOK
  <2>3. Stage' /\ Codec'  BY <2>1 DEF Stage, Codec
  <2>4. Columns'  BY <1>1, <1>t, <2>1 DEF Columns
  <2>5. Passed' /\ OnlyAlphabet'
    <3>1. ret' # "ok"  BY <2>1
    <3>2. QED  BY <1>1, <1>t, <2>1, <3>1 DEF Passed, OnlyAlphabet
  <2>6. Layout'  BY <1>1, <1>t, <2>1 DEF Layout
  <2>7. RoundTrip'
    <3>1. SUFFICES ASSUME encoded, start % 4 = 0, ~cut PROVE FALSE
      BY <1>1, <2>1 DEF RoundTrip
    <3>2. PICK count \in [0 .. Len(text) -> Nat], g \in Nat, h \in Nat :
             /\ Spelled(payload, text, count) /\ count[Len(text)] = 4 * g
             /\ count[i] = 4 * h
      BY <1>1, <3>1, Known
    <3>3. QED  BY <1>4, <1>5, <3>2
  <2>8. QED  BY <2>2, <2>3, <2>4, <2>5, <2>6, <2>7 DEF IInv
<1>6. CASE out # Refused
  <2>1. PICK n \in 1 .. Len(out) : /\ decoded' = decoded \o SubSeq(out, 1, n)
                                   /\ cut' = (cut \/ n < Len(out))
    BY <1>3, <1>6
  <2>2. i' = i + 4 /\ UNCHANGED <<pc, ret>>  BY <1>3, <1>6
  <2>3. out \in Seq(Byte) /\ Len(out) \in Nat  BY <1>6, DecodeType
  <2>4. /\ i + 4 <= Len(text)
        /\ \A k \in 1 .. 4 : Valid(text[i + k])
    BY <1>1, <1>6, GroupIsThere
  <2> HIDE DEF out, Out
  <2>5. decoded' \in Seq(Byte) /\ (n = Len(out) => SubSeq(out, 1, n) = out)
    BY <1>2, <2>1, <2>3, MoreBytes
  <2>6. cut' \in BOOLEAN /\ (~cut' => ~cut /\ n = Len(out))
    <3>1. n < Len(out) \/ n = Len(out)  BY <2>3
    <3>2. QED  BY <2>1, <3>1, Zenon
  <2>7. TypeOK'
    <3>1. i' \in Nat  BY <1>2, <2>2
    <3>2. cut' \in BOOLEAN  BY <2>6
    <3>3. QED  BY <1>1, <1>t, <2>2, <2>5, <3>1, <3>2, Zenon DEF TypeOK
  <2>8. Stage'  BY <1>1, <1>t, <2>2 DEF Stage
  <2>9. ASSUME encoded, start % 4 = 0, ~cut', NEW count, NEW g \in Nat, count[Len(text)] = 4 * g,
               Spelled(payload, text, count), NEW h \in Nat, count[i] = 4 * h,
               decoded = SubSeq(payload, 1, Taken(payload, h))
        PROVE  count[i + 4] = 4 * (h + 1) /\ decoded' = SubSeq(payload, 1, Taken(payload, h + 1))
    <3>1. /\ out = SubSeq(payload, Taken(payload, h) + 1, Taken(payload, h + 1))
          /\ Taken(payload, h) < Len(payload) /\ count[i + 4] = 4 * (h + 1)
      BY <1>4, <2>9
    <3>2. decoded' = decoded \o out  BY <2>1, <2>5, <2>6, <2>9
    <3>3. QED  BY <1>2, <2>9, <3>1, <3>2, MoreDecoded
  <2>10. Codec'
    <3> SUFFICES ASSUME encoded, start % 4 = 0 PROVE Codec'
      BY <1>1 DEF Codec
    <3>1. PICK count \in [0 .. Len(text) -> Nat] : Spelled(payload, text, count) /\ Reading(count)
      BY <1>1, <1>t DEF Codec
    <3>2. PICK g \in Nat : Taken(payload, g) = Len(payload) /\ count[Len(text)] = 4 * g
      BY <1>1, <3>1 DEF Reading
    <3>3. ASSUME ~cut'
          PROVE  \E h \in Nat : count[i + 4] = 4 * h /\ decoded' = SubSeq(payload, 1, Taken(payload, h))
      <4>1. PICK h \in Nat : count[i] = 4 * h /\ decoded = SubSeq(payload, 1, Taken(payload, h))
        BY <1>1, <2>6, <3>1, <3>3 DEF Reading
      <4>2. count[i + 4] = 4 * (h + 1) /\ decoded' = SubSeq(payload, 1, Taken(payload, h + 1))
        BY <2>9, <3>1, <3>2, <3>3, <4>1
      <4>3. h + 1 \in Nat  OBVIOUS
      <4>4. QED  BY <4>2, <4>3
    <3>4. Reading(count)'  BY <1>1, <2>2, <3>2, <3>3 DEF Reading
    <3>5. Writing(count)'  BY <1>1, <2>2 DEF Writing
    <3>6. Spelled(payload', text', count) /\ text' = text  BY <1>1, <3>1
    <3>7. QED  BY <3>4, <3>5, <3>6 DEF Codec
  <2>11. Columns'  BY <1>1, <1>t, <2>2 DEF Columns
  <2>12. Passed'
    <3>1. ASSUME NEW k \in 1 .. i + 4 PROVE Allowed(text[k])
      <4>1. CASE k \in 1 .. i  BY <1>t, <4>1 DEF Passed
      <4>2. CASE k > i
        <5>1. k - i \in 1 .. 4 /\ i + (k - i) = k  BY <1>2, <4>2
        <5>2. Valid(text[k])  BY <2>4, <5>1
        <5>3. QED  BY <5>2 DEF Allowed
      <4>3. QED  BY <1>2, <4>1, <4>2
    <3>2. QED  BY <1>1, <2>2, <3>1 DEF Passed
  <2>13. OnlyAlphabet'  BY <1>1, <2>2, <2>4 DEF OnlyAlphabet
  <2>14. Layout'  BY <1>1, <1>t, <2>2 DEF Layout
  <2>15. RoundTrip'
    <3>1. SUFFICES ASSUME encoded, start % 4 = 0, ~cut'
                   PROVE  Len(decoded') <= Len(payload) /\ decoded' = SubSeq(payload, 1, Len(decoded'))
      BY <1>1, <1>t, <2>2 DEF RoundTrip, Stage
    <3>2. PICK count \in [0 .. Len(text) -> Nat], g \in Nat, h \in Nat :
             /\ Spelled(payload, text, count) /\ count[Len(text)] = 4 * g
             /\ count[i] = 4 * h /\ decoded = SubSeq(payload, 1, Taken(payload, h))
      BY <1>1, <2>6, <3>1, Known
    <3>3. decoded' = SubSeq(payload, 1, Taken(payload, h + 1))  BY <2>9, <3>1, <3>2
    <3>4. Taken(payload, h + 1) \in 0 .. Len(payload)  BY <1>2, TakenType
    <3>5. QED  BY <1>2, <3>3, <3>4, Beginning
  <2>16. QED
    BY <2>7, <2>8, <2>10, <2>11, <2>12, <2>13, <2>14, <2>15 DEF IInv
<1>7. QED  BY <1>5, <1>6

LEMMA DecodeWriteFailsStep == IInv /\ DecodeWriteFails => IInv'
<1> SUFFICES ASSUME IInv, DecodeWriteFails PROVE IInv'
  OBVIOUS
<1>t. TypeOK /\ Stage /\ Codec /\ Columns /\ Passed /\ OnlyAlphabet /\ Layout /\ RoundTrip
  BY DEF IInv
<1>1. /\ pc = "skip" /\ pc' = "idle" /\ ret' = "write error"
      /\ UNCHANGED <<nprint, payload, next, buff, text, i, decoded, encoded, cut, failed, start, commands>>
  BY DEF DecodeWriteFails
<1>2. TypeOK'  BY <1>1, <1>t, Zenon DEF TypeOK
<1>3. Stage' /\ Codec'  BY <1>1 DEF Stage, Codec
<1>4. Columns'  BY <1>1, <1>t DEF Columns
<1>5. Passed' /\ OnlyAlphabet'
  <2>1. ret' # "ok"  BY <1>1
  <2>2. QED  BY <1>1, <1>t, <2>1 DEF Passed, OnlyAlphabet
<1>6. Layout'  BY <1>1, <1>t DEF Layout
<1>7. RoundTrip'
  <2>1. ret' # "ok" /\ ret' # "invalid input"  BY <1>1
  <2>2. QED  BY <1>1, <1>t, <2>1 DEF RoundTrip
<1>8. QED  BY <1>2, <1>3, <1>4, <1>5, <1>6, <1>7 DEF IInv

LEMMA DecodedStep == IInv /\ Decoded => IInv'
<1> SUFFICES ASSUME IInv, Decoded PROVE IInv'
  OBVIOUS
<1>t. TypeOK /\ Stage /\ Codec /\ Columns /\ Passed /\ OnlyAlphabet /\ Layout /\ RoundTrip
  BY DEF IInv
<1>1. /\ pc = "skip" /\ i >= Len(text) /\ pc' = "idle" /\ ret' = "ok"
      /\ UNCHANGED <<nprint, payload, next, buff, text, i, decoded, encoded, cut, failed, start, commands>>
  BY DEF Decoded
<1>2. /\ payload \in Seq(Byte) /\ text \in Seq(Char) /\ Len(text) \in Nat /\ i \in Nat
  BY <1>t, Types
<1>3. i = Len(text)
  <2>1. i <= Len(text)  BY <1>t DEF OnlyAlphabet
  <2>2. QED  BY <1>1, <1>2, <2>1
<1>4. TypeOK'  BY <1>1, <1>t, Zenon DEF TypeOK
<1>5. Stage' /\ Codec'  BY <1>1 DEF Stage, Codec
<1>6. Columns'  BY <1>1, <1>t DEF Columns
<1>7. Passed'  BY <1>1, <1>t DEF Passed
<1>8. OnlyAlphabet'
  <2>1. \A k \in 1 .. Len(text) : Valid(text[k]) \/ text[k] \in {Newline, Return}
    BY <1>3, <1>t DEF Passed, Allowed
  <2>2. QED  BY <1>1, <1>t, <2>1 DEF OnlyAlphabet
<1>9. Layout'  BY <1>1, <1>t DEF Layout
<1>10. RoundTrip'
  <2>1. SUFFICES ASSUME encoded, start % 4 = 0, ~cut
                 PROVE  /\ Len(decoded) <= Len(payload) /\ decoded = SubSeq(payload, 1, Len(decoded))
                        /\ decoded = payload
    BY <1>1 DEF RoundTrip
  <2>2. PICK count \in [0 .. Len(text) -> Nat], g \in Nat, h \in Nat :
           /\ Taken(payload, g) = Len(payload) /\ count[Len(text)] = 4 * g
           /\ count[i] = 4 * h /\ decoded = SubSeq(payload, 1, Taken(payload, h))
    BY <1>1, <2>1, Known
  <2>3. g = h  BY <1>3, <2>2
  <2>4. decoded = SubSeq(payload, 1, Len(payload))  BY <2>2, <2>3
  <2>5. decoded = payload  BY <1>2, <2>4, SubSeqFull
  <2>6. Len(payload) <= Len(payload)  BY <1>2
  <2>7. QED  BY <2>4, <2>5, <2>6
<1>11. QED  BY <1>4, <1>5, <1>6, <1>7, <1>8, <1>9, <1>10 DEF IInv

-----------------------------------------------------------------------------
(* The theorems.                                                           *)

LEMMA NextPreserves == IInv /\ [Next]_vars => IInv'
<1> SUFFICES ASSUME IInv, [Next]_vars PROVE IInv'
  OBVIOUS
<1>1. CASE Next
  BY <1>1, EncodeStep, DecodeStep, ChunkStep, PrintStep, PrintedStep, PrintFailsStep, EncodedStep,
     SkipStep, GroupStep, DecodeWriteFailsStep, DecodedStep DEF Next, Progress
<1>2. CASE UNCHANGED vars
  <2>1. UNCHANGED <<pc, nprint, payload, next, buff, text, i, decoded, encoded, cut, failed, ret,
                    start, commands>>
    BY <1>2 DEF vars
  <2>2. TypeOK /\ Stage /\ Codec /\ Columns /\ Passed /\ OnlyAlphabet /\ Layout /\ RoundTrip
    BY DEF IInv
  <2>3. TypeOK'  BY <2>1, <2>2, Zenon DEF TypeOK
  <2>4. Stage' /\ Columns' /\ Passed' /\ OnlyAlphabet' /\ RoundTrip'
    BY <2>1, <2>2 DEF Stage, Columns, Passed, OnlyAlphabet, RoundTrip
  <2>5. Codec'  BY <2>1, <2>2 DEF Codec, Writing, Reading
  <2>6. Layout'  BY <2>1, <2>2 DEF Layout
  <2>7. QED  BY <2>3, <2>4, <2>5, <2>6 DEF IInv
<1>3. QED  BY <1>1, <1>2

(* The inductive invariant: what the count of the characters ties together holds after *)
(* every call of print_character_64 and every group of base64_decode.                  *)
THEOREM Invariance == Spec => []IInv
<1>1. Init => IInv  BY InitHolds
<1>2. IInv /\ [Next]_vars => IInv'  BY NextPreserves
<1>3. QED  BY <1>1, <1>2, PTL DEF Spec

(* The column stays within the line and no index leaves its array, whatever the writes take. *)
THEOREM TypeCorrect == Spec => []TypeOK
<1>1. IInv => TypeOK  BY DEF IInv
<1>2. QED  BY <1>1, Invariance, PTL

(* base64 -d of what base64 -e wrote is the payload, or its beginning when it ends early, *)
(* however many bytes it has and whichever parts of it each write took.                   *)
THEOREM RoundTripHolds == Spec => []RoundTrip
<1>1. IInv => RoundTrip  BY DEF IInv
<1>2. QED  BY <1>1, Invariance, PTL

(* Every line print_character_64 ends is full, counted from where the command before left *)
(* the static counter, and between commands the counter is at the end of a group.         *)
THEOREM LayoutHolds == Spec => []Layout
<1>1. IInv => Layout  BY DEF IInv
<1>2. QED  BY <1>1, Invariance, PTL

(* base64_decode never goes on behind the end of its text, and what it accepts has no *)
(* character from outside the alphabet but the line ends it skips.                    *)
THEOREM OnlyAlphabetHolds == Spec => []OnlyAlphabet
<1>1. IInv => OnlyAlphabet  BY DEF IInv
<1>2. QED  BY <1>1, Invariance, PTL
=============================================================================
