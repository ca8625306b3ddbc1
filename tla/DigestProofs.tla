---------------------------- MODULE DigestProofs ----------------------------
(***************************************************************************)
(* For every size of a block and of the length, and every set of messages: *)
(* what the digests hash is the padded message, and it determines the      *)
(* message.                                                                *)
(***************************************************************************)
EXTENDS Digest, TLAPS

\* Whole blocks: none, and one or two more.
LEMMA WholeBlocks ==
    ASSUME NEW n \in Nat, Whole(n)
    PROVE  /\ Whole(0)
           /\ Whole(n + BlockLen)
           /\ Whole(n + 2 * BlockLen)
<1>1. Whole(0)
  BY SizeAssumption DEF Whole
<1>2. PICK q \in 0 .. n : n = q * BlockLen
  BY DEF Whole
<1>3. ASSUME NEW j \in {1, 2}
      PROVE  Whole(n + j * BlockLen)
  <2>1. n + j * BlockLen = (q + j) * BlockLen
    <3>1. q \in Int /\ j \in Int /\ BlockLen \in Int
      BY SizeAssumption
    <3>2. CASE j = 1
      BY <1>2, <3>1, <3>2
    <3>3. CASE j = 2
      BY <1>2, <3>1, <3>3
    <3> QED BY <3>2, <3>3
  <2>2. BlockLen \in Nat /\ BlockLen >= 1
    BY SizeAssumption
  <2>3. q + j \in 0 .. n + j * BlockLen
    <3>1. CASE j = 1
      BY <1>2, <2>2, <3>1
    <3>2. CASE j = 2
      BY <1>2, <2>2, <3>2
    <3> QED BY <3>1, <3>2
  <2> QED BY <2>1, <2>3 DEF Whole
<1>4. Whole(n + 1 * BlockLen) /\ Whole(n + 2 * BlockLen)
  BY <1>3
<1>5. n + 1 * BlockLen = n + BlockLen
  BY SizeAssumption
<1> QED BY <1>1, <1>4, <1>5

\* The length of a message and of what is left of it.
LEMMA Lengths ==
    ASSUME TypeOK
    PROVE  /\ message \in Seq(Byte) /\ Len(message) \in Nat
           /\ remaining \in Nat /\ Taken \in Nat /\ Taken + remaining = Len(message)
           /\ BlockLen \in Nat /\ LengthLen \in Nat /\ 0 < LengthLen /\ LengthLen < BlockLen
           /\ \A k \in 1 .. LengthLen : LengthField(Len(message))[k] \in Byte
BY SizeAssumption, MessageAssumption, LengthAssumption DEF TypeOK, Taken

\* What follows what was fed so far, when a block is handed over.
LEMMA HandOver ==
    ASSUME NEW a \in Seq(Byte), NEW b \in Seq(Byte)
    PROVE  /\ a \o <<>> = a
           /\ a \o b \in Seq(Byte)
           /\ Len(a \o b) = Len(a) + Len(b)
           /\ \A k \in 1 .. Len(a) : (a \o b)[k] = a[k]
           /\ \A k \in 1 .. Len(b) : (a \o b)[Len(a) + k] = b[k]
OBVIOUS

\* A part of a sequence.
LEMMA Part ==
    ASSUME NEW S, NEW s \in Seq(S), NEW from \in Nat, NEW n \in Nat, from + n <= Len(s)
    PROVE  /\ SubSeq(s, from + 1, from + n) \in Seq(S)
           /\ Len(SubSeq(s, from + 1, from + n)) = n
           /\ \A k \in 1 .. n : SubSeq(s, from + 1, from + n)[k] = s[from + k]
OBVIOUS

\* The buffer after the loop is two blocks of bytes.
LEMMA EndOfBuffer ==
    ASSUME TypeOK, remaining < BlockLen
    PROVE  /\ LastByte \in {BlockLen, 2 * BlockLen}
           /\ \A k \in 1 .. 2 * BlockLen : EndByte(k) \in Byte /\ PaddedEnd[k] = EndByte(k)
           /\ PaddedEnd \in [1 .. 2 * BlockLen -> Byte]
           /\ PaddedEnd \in Seq(Byte) /\ Len(PaddedEnd) = 2 * BlockLen
<1> USE Lengths
<1>1. LastByte \in {BlockLen, 2 * BlockLen}
  BY DEF LastByte
<1>2. ASSUME NEW k \in 1 .. 2 * BlockLen PROVE EndByte(k) \in Byte
  <2>1. CASE k \in LastByte - LengthLen + 1 .. LastByte
    <3>1. k - (LastByte - LengthLen) \in 1 .. LengthLen
      BY <1>1, <2>1
    <3>2. EndByte(k) = LengthField(Len(message))[k - (LastByte - LengthLen)]
      BY <2>1 DEF EndByte
    <3> QED BY <3>1, <3>2
  <2>2. CASE k \notin LastByte - LengthLen + 1 .. LastByte /\ k = remaining + 1
    BY <2>2 DEF EndByte, Marker, Byte
  <2>3. CASE k \notin LastByte - LengthLen + 1 .. LastByte /\ k # remaining + 1 /\ k <= remaining
    <3>1. Taken + k \in 1 .. Len(message)
      BY <2>3
    <3>2. EndByte(k) = message[Taken + k]
      BY <2>3 DEF EndByte
    <3> QED BY <3>1, <3>2
  <2>4. CASE k \notin LastByte - LengthLen + 1 .. LastByte /\ k # remaining + 1 /\ ~(k <= remaining)
    BY <2>4 DEF EndByte, Byte
  <2> QED BY <2>1, <2>2, <2>3, <2>4
<1>3. \A k \in 1 .. 2 * BlockLen : PaddedEnd[k] = EndByte(k)
  BY DEF PaddedEnd
<1>4. PaddedEnd \in [1 .. 2 * BlockLen -> Byte]
  BY <1>2 DEF PaddedEnd
<1>5. 2 * BlockLen \in Nat
  OBVIOUS
<1>6. PaddedEnd \in Seq(Byte) /\ Len(PaddedEnd) = 2 * BlockLen
  BY <1>4, <1>5
<1> QED BY <1>1, <1>2, <1>3, <1>4, <1>6

\* A message, its marker, zeros and length make a padded message.
LEMMA PaddedWhen ==
    ASSUME TypeOK, Whole(Taken), remaining < BlockLen,
           NEW f \in Seq(Byte), Len(f) = Taken + LastByte,
           \A k \in 1 .. Taken : f[k] = message[k],
           \A k \in 1 .. LastByte : f[Taken + k] = EndByte(k)
    PROVE  IsPadded(message, f)
<1>0. /\ Len(message) \in Nat /\ remaining \in Nat /\ Taken \in Nat
      /\ Taken + remaining = Len(message)
      /\ BlockLen \in Nat /\ LengthLen \in Nat /\ 0 < LengthLen /\ LengthLen < BlockLen
  BY Lengths
<1>1. /\ LastByte \in Nat /\ LastByte \in {BlockLen, 2 * BlockLen}
      /\ remaining + 1 + LengthLen <= LastByte
      /\ LastByte < remaining + 1 + LengthLen + BlockLen
  BY <1>0 DEF LastByte, TwoBlocks
<1> DEFINE n == Len(f)
<1>4. n \in Nat /\ n = Taken + LastByte
  BY <1>0, <1>1
<1> HIDE DEF n
<1>2. Whole(Len(f))
  <2>1. CASE LastByte = BlockLen
    BY <1>0, <2>1, WholeBlocks
  <2>2. CASE LastByte = 2 * BlockLen
    BY <1>0, <2>2, WholeBlocks
  <2> QED BY <1>1, <2>1, <2>2
<1>3. Len(message) + 1 + LengthLen <= Len(f) /\ Len(f) < Len(message) + 1 + LengthLen + BlockLen
  BY <1>0, <1>1
<1>5. ASSUME NEW k \in 1 .. Len(message) PROVE f[k] = message[k]
  <2>1. CASE k <= Taken
    BY <2>1
  <2>2. CASE k > Taken
    <3> DEFINE j == k - Taken
    <3>1. j \in 1 .. LastByte /\ j <= remaining /\ Taken + j = k /\ j # remaining + 1
      BY <1>0, <1>1, <2>2
    <3>2. j \notin LastByte - LengthLen + 1 .. LastByte
      BY <1>0, <1>1, <3>1
    <3> HIDE DEF j
    <3>3. EndByte(j) = message[Taken + j]
      BY <3>1, <3>2 DEF EndByte
    <3>4. f[Taken + j] = EndByte(j)
      BY <3>1
    <3> QED BY <3>1, <3>3, <3>4
  <2> QED BY <1>0, <2>1, <2>2
<1>6. f[Len(message) + 1] = Marker
  <2> DEFINE j == remaining + 1
  <2>1. j \in 1 .. LastByte /\ j \notin LastByte - LengthLen + 1 .. LastByte
    BY <1>0, <1>1
  <2>2. Taken + j = Len(message) + 1
    BY <1>0
  <2>3. EndByte(j) = Marker
    BY <2>1 DEF EndByte
  <2>4. f[Taken + j] = EndByte(j)
    BY <2>1
  <2> QED BY <2>2, <2>3, <2>4
<1>7. ASSUME NEW k \in Len(message) + 2 .. Len(f) - LengthLen PROVE f[k] = 0
  <2> DEFINE j == k - Taken
  <2>0. k \in Len(message) + 2 .. n - LengthLen
    BY DEF n
  <2>1. /\ j \in 1 .. LastByte /\ Taken + j = k
        /\ j \notin LastByte - LengthLen + 1 .. LastByte
        /\ j # remaining + 1 /\ ~(j <= remaining)
    BY <1>0, <1>1, <1>4, <2>0
  <2> HIDE DEF j
  <2>2. EndByte(j) = 0
    BY <2>1 DEF EndByte
  <2>3. f[Taken + j] = EndByte(j)
    BY <2>1
  <2> QED BY <2>1, <2>2, <2>3
<1>8. ASSUME NEW k \in 1 .. LengthLen
      PROVE  f[Len(f) - LengthLen + k] = LengthField(Len(message))[k]
  <2> DEFINE j == LastByte - LengthLen + k
  <2>1. /\ j \in 1 .. LastByte /\ j \in LastByte - LengthLen + 1 .. LastByte
        /\ j - (LastByte - LengthLen) = k /\ Taken + j = n - LengthLen + k
    BY <1>0, <1>1, <1>4
  <2> HIDE DEF j
  <2>2. EndByte(j) = LengthField(Len(message))[k]
    BY <2>1 DEF EndByte
  <2>3. f[Taken + j] = EndByte(j)
    BY <2>1
  <2> QED BY <2>1, <2>2, <2>3 DEF n
<1> QED BY <1>2, <1>3, <1>5, <1>6, <1>7, <1>8 DEF IsPadded

LEMMA InitEstablishes == Init => IInv
<1> SUFFICES ASSUME Init PROVE IInv
  OBVIOUS
<1>1. TypeOK
  BY SizeAssumption, MessageAssumption DEF Init, TypeOK, Byte
<1>2. Taken = 0 /\ Hashed = <<>>
  BY MessageAssumption DEF Init, Taken, Hashed
<1>3. Whole(Taken)
  BY <1>2, SizeAssumption DEF Whole
<1>4. pc = "loop"
  BY DEF Init
<1> QED BY <1>1, <1>2, <1>3, <1>4 DEF IInv, InLoop, AfterLoop, InSecond, AtEnd

-----------------------------------------------------------------------------
LEMMA FullBlockKeeps ==
    ASSUME IInv, FullBlock
    PROVE  IInv'
<1> USE DEF IInv
<1>0. fed \in Seq(Byte) /\ block = <<>> /\ pc = "loop" /\ pc' = pc /\ fed' = fed
  BY DEF TypeOK, FullBlock
<1>a. /\ Len(message) \in Nat /\ remaining \in Nat /\ Taken \in Nat
      /\ Taken + remaining = Len(message) /\ message \in Seq(Byte)
      /\ BlockLen \in Nat /\ BlockLen > 0
  BY Lengths
<1>b. /\ message' = message /\ padding' = padding
      /\ remaining' = remaining - BlockLen /\ remaining >= BlockLen
  BY DEF FullBlock
<1>c. Taken' = Taken + BlockLen
  BY <1>a, <1>b DEF Taken
<1>1. /\ message' = message /\ padding' = padding
      /\ remaining' \in 0 .. Len(message) /\ Taken' = Taken + BlockLen
      /\ Taken + BlockLen <= Len(message)
  BY <1>a, <1>b, <1>c
<1>2. /\ block' \in Seq(Byte) /\ Len(block') = BlockLen
      /\ \A k \in 1 .. BlockLen : block'[k] = message[Taken + k]
  BY <1>a, <1>1, Part DEF FullBlock
<1>3. TypeOK'
  BY <1>0, <1>1, <1>2 DEF TypeOK
<1>4. Hashed' = fed \o block'
  BY <1>0 DEF Hashed
<1>5. /\ Len(fed) = Taken /\ \A k \in 1 .. Taken : fed[k] = message[k]
  BY <1>0, HandOver DEF InLoop, Hashed
<1>6. /\ Len(Hashed') = Taken'
      /\ \A k \in 1 .. Taken' : Hashed'[k] = message[k]
  <2>1. Len(Hashed') = Taken'
    BY <1>0, <1>1, <1>2, <1>4, <1>5, HandOver
  <2>2. ASSUME NEW k \in 1 .. Taken + BlockLen PROVE (fed \o block')[k] = message[k]
    <3>1. CASE k <= Taken
      BY <1>0, <1>2, <1>5, <3>1, HandOver
    <3>2. CASE k > Taken
      <4>1. k - Taken \in 1 .. BlockLen /\ Taken + (k - Taken) = k
        BY <1>a, <3>2
      <4>2. (fed \o block')[Len(fed) + (k - Taken)] = block'[k - Taken]
        BY <1>0, <1>2, <4>1, HandOver
      <4> QED BY <1>2, <1>5, <4>1, <4>2
    <3>3. k <= Taken \/ k > Taken
      BY <1>a
    <3> QED BY <3>1, <3>2, <3>3
  <2> QED BY <1>1, <1>4, <2>1, <2>2
<1>7. InLoop'
  BY <1>1, <1>6 DEF InLoop
<1>8. Whole(Taken + BlockLen)
  BY <1>a, WholeBlocks
<1>9. Whole(Taken)'
  BY <1>1, <1>8 DEF Whole
<1> QED BY <1>0, <1>3, <1>7, <1>9 DEF AfterLoop, InSecond, AtEnd

-----------------------------------------------------------------------------
LEMMA PadKeeps ==
    ASSUME IInv, Pad
    PROVE  IInv'
<1> USE DEF IInv
<1>1. /\ fed \in Seq(Byte) /\ block = <<>> /\ pc = "loop" /\ fed' = fed
      /\ message' = message /\ remaining' = remaining /\ remaining < BlockLen
      /\ padding' = PaddedEnd /\ pc' \in {"second", "done"}
  BY DEF TypeOK, Pad
<1>2. /\ Taken' = Taken /\ LastByte' = LastByte /\ (TwoBlocks' <=> TwoBlocks)
      /\ PaddedEnd' = PaddedEnd
  BY <1>1 DEF Taken, LastByte, TwoBlocks, PaddedEnd, EndByte
<1>3. /\ BlockLen \in Nat /\ BlockLen > 0 /\ Taken \in Nat
      /\ LastByte \in {BlockLen, 2 * BlockLen}
      /\ PaddedEnd \in [1 .. 2 * BlockLen -> Byte]
      /\ PaddedEnd \in Seq(Byte) /\ Len(PaddedEnd) = 2 * BlockLen
      /\ \A k \in 1 .. 2 * BlockLen : PaddedEnd[k] = EndByte(k)
  BY <1>1, EndOfBuffer, Lengths
<1>4. block' = SubSeq(PaddedEnd, 0 + 1, 0 + BlockLen)
  BY <1>3 DEF Pad
<1>5. /\ block' \in Seq(Byte) /\ Len(block') = BlockLen
      /\ \A k \in 1 .. BlockLen : block'[k] = PaddedEnd[k]
  <2>1. 0 + BlockLen <= Len(PaddedEnd)
    BY <1>3
  <2> QED BY <1>3, <1>4, <2>1, Part
<1>6. TypeOK'
  BY <1>1, <1>3, <1>5 DEF TypeOK
<1>7. /\ Len(fed) = Taken /\ \A k \in 1 .. Taken : fed[k] = message[k]
  BY <1>1, HandOver DEF InLoop, Hashed
<1>8. /\ Hashed' = fed \o block' /\ Hashed' \in Seq(Byte)
      /\ Len(Hashed') = Taken + BlockLen
      /\ \A k \in 1 .. Taken : Hashed'[k] = message[k]
      /\ \A k \in 1 .. BlockLen : Hashed'[Taken + k] = PaddedEnd[k]
  <2>1. Hashed' = fed \o block'
    BY <1>1 DEF Hashed
  <2> QED BY <1>1, <1>5, <1>7, <2>1, HandOver
<1>9. AfterLoop'
  BY <1>1, <1>2 DEF AfterLoop
<1>10. InSecond'
  <2>1. pc' = "second" => TwoBlocks
    BY DEF Pad
  <2> QED BY <1>1, <1>2, <1>8, <2>1 DEF InSecond
<1>11. AtEnd'
  <2> SUFFICES ASSUME pc' = "done" PROVE IsPadded(message, Hashed)'
    BY DEF AtEnd
  <2>1. LastByte = BlockLen
    BY DEF Pad, LastByte
  <2>2. Len(Hashed') = Taken + LastByte /\ \A k \in 1 .. LastByte : Hashed'[Taken + k] = EndByte(k)
    BY <1>3, <1>8, <2>1
  <2>3. IsPadded(message, Hashed')
    BY <1>1, <1>8, <2>2, PaddedWhen
  <2> QED BY <1>1, <2>3 DEF IsPadded
<1>12. Whole(Taken)'
  BY <1>2 DEF Whole
<1> QED BY <1>1, <1>6, <1>9, <1>10, <1>11, <1>12 DEF InLoop

LEMMA SecondKeeps ==
    ASSUME IInv, Second
    PROVE  IInv'
<1> USE DEF IInv
<1>1. /\ fed \in Seq(Byte) /\ block = <<>> /\ pc = "second" /\ pc' = "done" /\ fed' = fed
      /\ message' = message /\ remaining' = remaining /\ padding' = padding
  BY DEF TypeOK, Second
<1>2. remaining < BlockLen /\ padding = PaddedEnd
  BY <1>1 DEF AfterLoop
<1>3. /\ Taken' = Taken /\ PaddedEnd' = PaddedEnd
  BY <1>1 DEF Taken, LastByte, TwoBlocks, PaddedEnd, EndByte
<1>4. /\ BlockLen \in Nat /\ BlockLen > 0 /\ Taken \in Nat
      /\ PaddedEnd \in Seq(Byte) /\ Len(PaddedEnd) = 2 * BlockLen
      /\ \A k \in 1 .. 2 * BlockLen : PaddedEnd[k] = EndByte(k)
  BY <1>2, EndOfBuffer, Lengths
<1>5. block' = SubSeq(PaddedEnd, BlockLen + 1, BlockLen + BlockLen)
  BY <1>2, <1>4 DEF Second
<1>6. /\ block' \in Seq(Byte) /\ Len(block') = BlockLen
      /\ \A k \in 1 .. BlockLen : block'[k] = PaddedEnd[BlockLen + k]
  <2>1. BlockLen + BlockLen <= Len(PaddedEnd)
    BY <1>4
  <2> QED BY <1>4, <1>5, <2>1, Part
<1>7. TypeOK'
  BY <1>1, <1>6 DEF TypeOK
<1>8. /\ TwoBlocks /\ Len(fed) = Taken + BlockLen
      /\ \A k \in 1 .. Taken : fed[k] = message[k]
      /\ \A k \in 1 .. BlockLen : fed[Taken + k] = PaddedEnd[k]
  BY <1>1, <1>2, HandOver DEF InSecond, Hashed
<1>9. /\ Hashed' = fed \o block' /\ Hashed' \in Seq(Byte)
      /\ Len(Hashed') = Taken + BlockLen + BlockLen
      /\ \A k \in 1 .. Taken + BlockLen : Hashed'[k] = fed[k]
      /\ \A k \in 1 .. BlockLen : Hashed'[Taken + BlockLen + k] = block'[k]
  <2>1. Hashed' = fed \o block'
    BY <1>1 DEF Hashed
  <2>2. /\ Hashed' \in Seq(Byte) /\ Len(Hashed') = Len(fed) + Len(block')
        /\ \A k \in 1 .. Len(fed) : Hashed'[k] = fed[k]
        /\ \A k \in 1 .. Len(block') : Hashed'[Len(fed) + k] = block'[k]
    BY <1>1, <1>6, <2>1, HandOver
  <2> QED BY <1>6, <1>8, <2>1, <2>2
<1>10. LastByte = 2 * BlockLen
  BY <1>8 DEF LastByte
<1>11. ASSUME NEW k \in 1 .. LastByte PROVE Hashed'[Taken + k] = EndByte(k)
  <2>1. CASE k <= BlockLen
    <3>1. k \in 1 .. BlockLen /\ Taken + k \in 1 .. Taken + BlockLen /\ k \in 1 .. 2 * BlockLen
      BY <1>4, <1>10, <2>1
    <3> QED BY <1>4, <1>8, <1>9, <3>1
  <2>2. CASE k > BlockLen
    <3> DEFINE j == k - BlockLen
    <3>1. /\ j \in 1 .. BlockLen /\ Taken + BlockLen + j = Taken + k /\ BlockLen + j = k
          /\ k \in 1 .. 2 * BlockLen
      BY <1>4, <1>10, <2>2
    <3> HIDE DEF j
    <3>2. Hashed'[Taken + BlockLen + j] = PaddedEnd[BlockLen + j]
      BY <1>6, <1>9, <3>1
    <3> QED BY <1>4, <3>1, <3>2
  <2> QED BY <1>4, <1>10, <2>1, <2>2
<1>12. ASSUME NEW k \in 1 .. Taken PROVE Hashed'[k] = message[k]
  BY <1>4, <1>8, <1>9
<1>13. Len(Hashed') = Taken + LastByte
  BY <1>4, <1>9, <1>10
<1>14. IsPadded(message, Hashed')
  BY <1>2, <1>9, <1>11, <1>12, <1>13, PaddedWhen
<1>15. AtEnd'
  BY <1>1, <1>14 DEF AtEnd, IsPadded
<1>16. AfterLoop' /\ Whole(Taken)'
  BY <1>1, <1>2, <1>3 DEF AfterLoop, Whole
<1> QED BY <1>1, <1>7, <1>15, <1>16 DEF InLoop, InSecond

LEMMA AbsorbKeeps ==
    ASSUME IInv, Absorb
    PROVE  IInv'
<1> USE DEF IInv
<1>1. /\ fed \in Seq(Byte) /\ block \in Seq(Byte)
      /\ fed' = fed \o block /\ block' = <<>>
      /\ UNCHANGED <<message, remaining, padding, pc>>
  BY DEF TypeOK, Absorb
<1>2. fed \o block \in Seq(Byte) /\ (fed \o block) \o <<>> = fed \o block
  BY <1>1, HandOver
<1>3. Hashed' = Hashed
  BY <1>1, <1>2 DEF Hashed
<1>4. TypeOK'
  BY <1>1, <1>2 DEF TypeOK
<1>5. /\ Taken' = Taken /\ PaddedEnd' = PaddedEnd /\ (TwoBlocks' <=> TwoBlocks)
  BY <1>1 DEF Taken, LastByte, TwoBlocks, PaddedEnd, EndByte
<1>6. InLoop' /\ InSecond'
  BY <1>1, <1>3, <1>5 DEF InLoop, InSecond
<1>7. AfterLoop' /\ AtEnd' /\ Whole(Taken)'
  BY <1>1, <1>3, <1>5 DEF AfterLoop, AtEnd, IsPadded, Whole
<1> QED BY <1>4, <1>6, <1>7

LEMMA StutterKeeps ==
    ASSUME IInv, UNCHANGED dvars
    PROVE  IInv'
<1>1. UNCHANGED <<message, remaining, padding, block, pc, fed>>
  BY DEF dvars
<1>2. /\ Taken' = Taken /\ PaddedEnd' = PaddedEnd /\ (TwoBlocks' <=> TwoBlocks) /\ Hashed' = Hashed
  BY <1>1 DEF Taken, LastByte, TwoBlocks, PaddedEnd, EndByte, Hashed
<1>3. TypeOK' /\ Whole(Taken)'
  BY <1>1, <1>2 DEF IInv, TypeOK, Whole
<1> QED BY <1>1, <1>2, <1>3 DEF IInv, InLoop, AfterLoop, InSecond, AtEnd, IsPadded

-----------------------------------------------------------------------------
\* What was hashed so far is the beginning of the padded message, and the buffer
\* holds the rest, at every step of the four functions.
THEOREM Invariance == Spec => []IInv
<1>1. Init => IInv
  BY InitEstablishes
<1>2. IInv /\ [Next]_dvars => IInv'
  <2> SUFFICES ASSUME IInv, [Next]_dvars PROVE IInv'
    OBVIOUS
  <2>1. CASE FullBlock
    BY <2>1, FullBlockKeeps
  <2>2. CASE Pad
    BY <2>2, PadKeeps
  <2>3. CASE Second
    BY <2>3, SecondKeeps
  <2>4. CASE Absorb
    BY <2>4, AbsorbKeeps
  <2>5. CASE UNCHANGED dvars
    BY <2>5, StutterKeeps
  <2> QED BY <2>1, <2>2, <2>3, <2>4, <2>5 DEF Next, Feed, Returned
<1> QED BY <1>1, <1>2, PTL DEF Spec

\* The types of the four functions' variables, for any sizes.
THEOREM TypeCorrect == Spec => []TypeOK
<1>1. IInv => TypeOK
  BY DEF IInv
<1> QED BY <1>1, Invariance, PTL

\* The digests hash the message, the marker, zeros and the length, in the fewest
\* blocks, whatever the length of the message.
THEOREM PaddedHolds == Spec => []Padded
<1>1. IInv => Padded
  <2> SUFFICES ASSUME IInv, pc = "done", block = <<>> PROVE IsPadded(message, fed)
    BY DEF Padded
  <2>1. Hashed = fed
    BY HandOver DEF IInv, TypeOK, Hashed
  <2> QED BY <2>1 DEF IInv, AtEnd
<1> QED BY <1>1, Invariance, PTL

\* Sequences that agree everywhere are one.
LEMMA SameSequence ==
    ASSUME NEW g \in Seq(Byte), NEW h \in Seq(Byte), Len(g) = Len(h),
           \A k \in 1 .. Len(g) : g[k] = h[k]
    PROVE  g = h
OBVIOUS

\* The front and the length determine the message.
LEMMA OneReading ==
    ASSUME NEW m \in Messages, NEW n \in Messages, NEW f \in Seq(Byte),
           ReadsAs(m, f), ReadsAs(n, f)
    PROVE  m = n
<1>1. /\ LengthField(Len(m)) \in Seq(Byte) /\ Len(LengthField(Len(m))) = LengthLen
      /\ LengthField(Len(n)) \in Seq(Byte) /\ Len(LengthField(Len(n))) = LengthLen
  BY LengthAssumption
<1>2. \A k \in 1 .. LengthLen : LengthField(Len(m))[k] = LengthField(Len(n))[k]
  BY DEF ReadsAs
<1>3. LengthField(Len(m)) = LengthField(Len(n))
  BY <1>1, <1>2, SameSequence
<1>4. Len(m) = Len(n)
  BY <1>3, LengthAssumption
<1>5. \A k \in 1 .. Len(m) : m[k] = n[k]
  BY <1>4 DEF ReadsAs
<1>6. m \in Seq(Byte) /\ n \in Seq(Byte)
  BY MessageAssumption
<1> QED BY <1>4, <1>5, <1>6, SameSequence

\* No two messages are hashed as the same blocks, as long as their lengths are
\* told apart by the length field.
THEOREM UnambiguousHolds == Spec => []Unambiguous
<1>1. IInv => Unambiguous
  <2> SUFFICES ASSUME IInv, pc = "done", block = <<>>
               PROVE  {m \in Messages : ReadsAs(m, fed)} = {message}
    BY DEF Unambiguous
  <2>1. Hashed = fed /\ fed \in Seq(Byte) /\ message \in Messages
    BY HandOver DEF IInv, TypeOK, Hashed
  <2>2. IsPadded(message, fed)
    BY <2>1 DEF IInv, AtEnd
  <2>3. Len(message) \in Nat /\ Len(fed) \in Nat /\ LengthLen \in Nat
    BY <2>1, MessageAssumption, SizeAssumption
  <2>4. Len(message) + LengthLen <= Len(fed)
    BY <2>2, <2>3 DEF IsPadded
  <2>5. ReadsAs(message, fed)
    BY <2>2, <2>4 DEF IsPadded, ReadsAs
  <2> QED BY <2>1, <2>5, OneReading
<1> QED BY <1>1, Invariance, PTL
=============================================================================
