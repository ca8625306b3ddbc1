-------------------------- MODULE CipherModesProofs --------------------------
(***************************************************************************)
(* Proofs about CipherModes, for every block length, every alphabet, every *)
(* exclusive or and every block cipher that its decryption undoes, every   *)
(* message and every initialisation vector.                                *)
(***************************************************************************)
EXTENDS CipherModes, TLAPS

(* Exclusive or of two blocks is a block, does not depend on their order, and *)
(* is undone by a second exclusive or with the same block.                    *)
LEMMA XorLaws ==
  ASSUME NEW a \in Block, NEW b \in Block
  PROVE  /\ XorBlocks(a, b) \in Block
         /\ XorBlocks(a, b) = XorBlocks(b, a)
         /\ XorBlocks(XorBlocks(a, b), b) = a
<1>1. \A i \in 1 .. BlockLen : a[i] \in Byte /\ b[i] \in Byte  BY DEF Block
<1>2. \A i \in 1 .. BlockLen :
        /\ ByteXor(a[i], b[i]) \in Byte
        /\ ByteXor(a[i], b[i]) = ByteXor(b[i], a[i])
        /\ ByteXor(ByteXor(a[i], b[i]), b[i]) = a[i]
  BY <1>1, XorAssumption
<1>3. XorBlocks(a, b) \in Block  BY <1>2 DEF XorBlocks, Block
<1>4. XorBlocks(a, b) = XorBlocks(b, a)  BY <1>2 DEF XorBlocks
<1>5. XorBlocks(XorBlocks(a, b), b) = [i \in 1 .. BlockLen |-> a[i]]
  BY <1>2 DEF XorBlocks
<1>6. a = [i \in 1 .. BlockLen |-> a[i]]  BY DEF Block
<1>7. QED  BY <1>3, <1>4, <1>5, <1>6

(* What the two block functions return and leave in ctx->iv are blocks. *)
LEMMA BlockTypes ==
  ASSUME NEW m \in Modes, NEW v \in Block, NEW b \in Block
  PROVE  /\ encrypt_block(m, v, b) \in Block /\ EncryptIv(m, v, b) \in Block
         /\ decrypt_block(m, v, b) \in Block /\ DecryptIv(m, v, b) \in Block
<1>1. /\ XorBlocks(b, v) \in Block /\ encrypt_fun(b) \in Block
      /\ encrypt_fun(v) \in Block /\ decrypt_fun(b) \in Block
  BY XorLaws, CipherAssumption
<1>2. encrypt_fun(XorBlocks(b, v)) \in Block  BY <1>1, CipherAssumption
<1>3. /\ XorBlocks(b, encrypt_fun(XorBlocks(b, v))) \in Block
      /\ XorBlocks(encrypt_fun(v), b) \in Block
      /\ XorBlocks(decrypt_fun(b), v) \in Block
  BY <1>1, <1>2, XorLaws
<1>4. XorBlocks(b, XorBlocks(decrypt_fun(b), v)) \in Block  BY <1>3, XorLaws
<1>5. QED
  BY <1>1, <1>2, <1>3, <1>4
  DEF encrypt_block, EncryptIv, decrypt_block, DecryptIv, Modes, PaddedModes, StreamModes

(* One block in one mode: decrypt_block undoes encrypt_block when both start   *)
(* from the same ctx->iv, and then leaves the same ctx->iv behind.             *)
LEMMA BlockRoundTrip ==
  ASSUME NEW m \in Modes, NEW v \in Block, NEW p \in Block
  PROVE  /\ decrypt_block(m, v, encrypt_block(m, v, p)) = p
         /\ DecryptIv(m, v, encrypt_block(m, v, p)) = EncryptIv(m, v, p)
<1> DEFINE c == encrypt_block(m, v, p)
<1>1. CASE m = "ECB"
  BY <1>1, CipherAssumption DEF encrypt_block, decrypt_block, DecryptIv, EncryptIv
<1>2. CASE m \in {"CBC", "PCBC"}
  <2>1. c = encrypt_fun(XorBlocks(p, v))  BY <1>2 DEF encrypt_block
  <2>2. XorBlocks(p, v) \in Block /\ c \in Block  BY <2>1, XorLaws, CipherAssumption
  <2>3. decrypt_fun(c) = XorBlocks(p, v)  BY <2>1, <2>2, CipherAssumption
  <2>4. decrypt_block(m, v, c) = p
    <3>1. decrypt_block(m, v, c) = XorBlocks(decrypt_fun(c), v)
      BY <1>2 DEF decrypt_block
    <3>2. QED  BY <2>3, <3>1, XorLaws
  <2>5. XorBlocks(c, p) = XorBlocks(p, c)  BY <2>2, XorLaws
  <2>6. QED  BY <1>2, <2>4, <2>5 DEF DecryptIv, EncryptIv
<1>3. CASE m \in {"CFB", "OFB"}
  <2>1. c = XorBlocks(encrypt_fun(v), p)  BY <1>3 DEF encrypt_block
  <2>2. encrypt_fun(v) \in Block  BY CipherAssumption
  <2>3. c = XorBlocks(p, encrypt_fun(v))  BY <2>1, <2>2, XorLaws
  <2>4. c \in Block  BY <2>2, <2>3, XorLaws
  <2>5. XorBlocks(c, encrypt_fun(v)) = p  BY <2>2, <2>3, XorLaws
  <2>6. XorBlocks(encrypt_fun(v), c) = p  BY <2>2, <2>4, <2>5, XorLaws
  <2>7. decrypt_block(m, v, c) = p  BY <1>3, <2>6 DEF decrypt_block
  <2>8. QED  BY <1>3, <2>7 DEF DecryptIv, EncryptIv
<1>4. QED  BY <1>1, <1>2, <1>3 DEF Modes, PaddedModes, StreamModes

(* The last block of an encryption is a block, begins with the tail, and in a  *)
(* padded mode says in its last byte how many bytes were added: at least one.  *)
LEMMA Padding ==
  ASSUME NEW m \in Modes, NEW t \in Partial
  PROVE  /\ Len(t) \in 0 .. BlockLen - 1
         /\ PadTail(m, t) \in Block
         /\ First(PadTail(m, t), Len(t)) = t
         /\ m \in PaddedModes => padlen(PadTail(m, t)) = BlockLen - Len(t)
<1>1. PICK n \in 0 .. BlockLen - 1 : t \in [1 .. n -> Byte]  BY DEF Partial
<1>2. Len(t) = n /\ n \in Nat  BY <1>1, BlockLenAssumption
<1>3. PadTail(m, t) \in Block
  BY <1>1, <1>2, ByteAssumption, BlockLenAssumption DEF PadTail, Block
<1>4. First(PadTail(m, t), n) = [i \in 1 .. n |-> t[i]]
  BY <1>1, <1>2, BlockLenAssumption DEF PadTail, First
<1>5. t = [i \in 1 .. n |-> t[i]]  BY <1>1
<1>6. m \in PaddedModes => padlen(PadTail(m, t)) = BlockLen - n
  BY <1>1, <1>2, BlockLenAssumption DEF PadTail, padlen
<1>7. QED  BY <1>1, <1>2, <1>3, <1>4, <1>5, <1>6

(* The tests the loops make on ctx->remaining, in blocks and bytes left. *)
LEMMA RemainingCases ==
  ASSUME NEW k \in Int, NEW t \in 0 .. BlockLen - 1
  PROVE  /\ k * BlockLen + t >= BlockLen <=> k >= 1
         /\ k * BlockLen + t > BlockLen <=> k >= 2 \/ (k = 1 /\ t > 0)
         /\ k * BlockLen + t = 0 <=> k = 0 /\ t = 0
         /\ k * BlockLen + t = BlockLen <=> k = 1 /\ t = 0
         /\ k = 0 => k * BlockLen + t = t
<1>1. CASE k = 0  BY <1>1, BlockLenAssumption
<1>2. CASE k = 1  BY <1>2, BlockLenAssumption
<1>3. CASE k >= 2
  <2>1. k * BlockLen >= 2 * BlockLen  BY <1>3, BlockLenAssumption
  <2>2. QED  BY <1>3, <2>1, BlockLenAssumption
<1>4. CASE k <= -1
  <2>1. k * BlockLen <= -BlockLen  BY <1>4, BlockLenAssumption
  <2>2. QED  BY <1>4, <2>1, BlockLenAssumption
<1>5. QED  BY <1>1, <1>2, <1>3, <1>4

-----------------------------------------------------------------------------
(* The types ChainInv gives, in the form the steps below use them. *)
LEMMA Types ==
  ASSUME ChainInv
  PROVE  /\ mode \in Modes /\ iv0 \in Block /\ iv \in Block
         /\ message.blocks \in Seq(Block) /\ message.tail \in Partial
         /\ input.blocks \in Seq(Block) /\ input.tail \in Partial
         /\ output.blocks \in Seq(Block) /\ output.tail \in Partial
         /\ next \in Nat /\ next >= 1
         /\ Len(message.blocks) \in Nat /\ Len(input.blocks) \in Nat
         /\ Len(output.blocks) \in Nat
         /\ Len(input.tail) \in 0 .. BlockLen - 1
         /\ Len(message.tail) \in 0 .. BlockLen - 1
         /\ Plain(Len(message.blocks) + 1) = PadTail(mode, message.tail)
         /\ ivs \in Seq(Block) /\ Len(ivs) \in Nat
<1>1. /\ mode \in Modes /\ iv0 \in Block /\ iv \in Block
      /\ message.blocks \in Seq(Block) /\ message.tail \in Partial
      /\ input.blocks \in Seq(Block) /\ input.tail \in Partial
      /\ output.blocks \in Seq(Block) /\ output.tail \in Partial
      /\ next \in Nat /\ next >= 1
      /\ ivs \in Seq(Block)
  <2>1. TypeOK  BY DEF ChainInv
  <2>2. message \in Payload /\ input \in Payload /\ output \in Payload
    BY <2>1 DEF TypeOK
  <2>3. /\ message.blocks \in Seq(Block) /\ message.tail \in Partial
        /\ input.blocks \in Seq(Block) /\ input.tail \in Partial
        /\ output.blocks \in Seq(Block) /\ output.tail \in Partial
    BY <2>2 DEF Payload
  <2>4. next \in Nat /\ next >= 1  BY <2>1 DEF TypeOK
  <2>5. mode \in Modes /\ iv0 \in Block /\ iv \in Block /\ ivs \in Seq(Block)
    BY <2>1 DEF TypeOK
  <2>6. QED  BY <2>3, <2>4, <2>5
<1>2. Len(input.tail) \in 0 .. BlockLen - 1 /\ Len(message.tail) \in 0 .. BlockLen - 1
  BY <1>1, Padding
<1>3. QED  BY <1>1, <1>2 DEF Plain

(* Every block that is encrypted is a block, the padded tail included. *)
LEMMA PlainType ==
  ASSUME ChainInv, NEW i \in 1 .. Len(message.blocks) + 1
  PROVE  Plain(i) \in Block
<1>1. mode \in Modes /\ message.blocks \in Seq(Block) /\ message.tail \in Partial
  BY Types
<1>2. PadTail(mode, message.tail) \in Block  BY <1>1, Padding
<1>3. QED  BY <1>1, <1>2 DEF Plain

(* The chaining value is right before the first block. *)
LEMMA InitChain == Init => ChainInv
<1> SUFFICES ASSUME Init PROVE ChainInv  OBVIOUS
<1>1. message \in Payload /\ iv0 \in Block  BY MessagesAssumption DEF Init
<1>2. Empty \in Payload
  <2>1. <<>> \in Partial
    <3>1. <<>> \in [1 .. 0 -> Byte]  OBVIOUS
    <3>2. QED  BY <3>1, BlockLenAssumption DEF Partial
  <2>2. QED  BY <2>1 DEF Empty, Payload
<1>3. TypeOK  BY <1>1, <1>2 DEF Init, TypeOK, Unharmed
<1>4. Chain  BY <1>1 DEF Init, Chain, Payload
<1>5. Encrypting  BY DEF Init, Encrypting, Empty
<1>6. QED
  BY <1>3, <1>4, <1>5 DEF Init, ChainInv, Sent, Decrypting, RoundTrip, PaddingAccepted

(* While a full block remains, the encryption takes it and advances the chain. *)
LEMMA EncryptFullChain == ChainInv /\ EncryptFull => ChainInv'
<1> SUFFICES ASSUME ChainInv, EncryptFull PROVE ChainInv'  OBVIOUS
<1> DEFINE N == Len(message.blocks)
           p == input.blocks[next]
           c == encrypt_block(mode, iv, p)
           w == EncryptIv(mode, iv, p)
<1>t. /\ mode \in Modes /\ iv \in Block /\ N \in Nat /\ next \in Nat /\ next >= 1
      /\ message.blocks \in Seq(Block) /\ Len(input.tail) \in 0 .. BlockLen - 1
      /\ output.blocks \in Seq(Block) /\ ivs \in Seq(Block)
  BY Types
<1>1. /\ phase = "encrypt" /\ input = message /\ harm = Unharmed
      /\ next = Len(ivs) /\ iv = ivs[next]
      /\ Len(output.blocks) = next - 1 /\ output.tail = <<>>
      /\ \A i \in 1 .. next - 1 : output.blocks[i] = encrypt_block(mode, ivs[i], Plain(i))
  BY DEF ChainInv, Encrypting, EncryptFull
<1>2. next <= N
  <2>1. N - next + 1 \in Nat  BY <1>1, <1>t DEF ChainInv, Chain
  <2>2. N - next + 1 >= 1
    BY <1>1, <1>t, <2>1, RemainingCases DEF EncryptFull, remaining
  <2>3. QED  BY <2>2, <1>t
<1>3. p = Plain(next) /\ p \in Block  BY <1>1, <1>2, <1>t DEF Plain
<1>4. c \in Block /\ w \in Block  BY <1>3, <1>t, BlockTypes
<1>5. /\ output' = [output EXCEPT !.blocks = Append(output.blocks, c)]
      /\ iv' = w /\ ivs' = Append(ivs, w) /\ next' = next + 1
      /\ mode' = mode /\ message' = message /\ iv0' = iv0
      /\ phase' = phase /\ input' = input /\ harm' = harm
  BY DEF EncryptFull, WriteBlock, given
<1>6. /\ Len(ivs') = next + 1 /\ ivs'[next + 1] = w
      /\ \A i \in 1 .. next : ivs'[i] = ivs[i]
  BY <1>1, <1>4, <1>5, <1>t
<1>7. /\ output'.tail = <<>>
      /\ output'.blocks = Append(output.blocks, c)
      /\ output' \in Payload
  <2>1. output \in Payload  BY DEF ChainInv, TypeOK
  <2>2. Append(output.blocks, c) \in Seq(Block)  BY <1>4, <1>t
  <2>3. QED  BY <1>1, <1>5, <2>1, <2>2 DEF Payload
<1>8. /\ Len(output'.blocks) = next
      /\ output'.blocks[next] = c
      /\ \A i \in 1 .. next - 1 : output'.blocks[i] = output.blocks[i]
  BY <1>1, <1>4, <1>7, <1>t
<1>9. \A i : Plain(i)' = Plain(i)  BY <1>5 DEF Plain
<1>10. TypeOK'
  <2>1. iv' \in Block /\ ivs' \in Seq(Block)  BY <1>4, <1>5, <1>t
  <2>2. TypeOK  BY DEF ChainInv
  <2>3. next' \in Nat /\ next' >= 1  BY <1>5, <1>t
  <2>4. QED  BY <1>5, <1>7, <2>1, <2>2, <2>3 DEF TypeOK
<1>11. Chain'
  <2>1. Len(ivs') \in 1 .. Len(message'.blocks) + 1  BY <1>2, <1>5, <1>6, <1>t
  <2>2. ivs'[1] = iv0'  BY <1>1, <1>5, <1>6, <1>t DEF ChainInv, Chain
  <2>3. ASSUME NEW i \in 1 .. Len(ivs') - 1
        PROVE  ivs'[i + 1] = EncryptIv(mode', ivs'[i], Plain(i)')
    <3>1. CASE i = next  BY <1>1, <1>3, <1>5, <1>6, <1>9, <3>1
    <3>2. CASE i < next
      <4>1. i \in 1 .. Len(ivs) - 1 /\ i + 1 \in 1 .. next  BY <1>1, <1>6, <1>t, <3>2
      <4>2. ivs[i + 1] = EncryptIv(mode, ivs[i], Plain(i))  BY <4>1 DEF ChainInv, Chain
      <4>3. QED  BY <1>5, <1>6, <1>9, <1>t, <4>1, <4>2
    <3>3. QED  BY <1>6, <1>t, <3>1, <3>2
  <2>4. QED  BY <2>1, <2>2, <2>3 DEF Chain
<1>12. Encrypting'
  <2>1. ASSUME NEW i \in 1 .. next' - 1
        PROVE  output'.blocks[i] = encrypt_block(mode', ivs'[i], Plain(i)')
    <3>1. CASE i = next  BY <1>1, <1>3, <1>5, <1>6, <1>8, <1>9, <1>t, <3>1
    <3>2. CASE i # next
      <4>1. i \in 1 .. next - 1  BY <1>5, <1>t, <3>2
      <4>2. QED  BY <1>1, <1>5, <1>6, <1>8, <1>9, <1>t, <4>1
    <3>3. QED  BY <3>1, <3>2
  <2>2. QED  BY <1>1, <1>5, <1>6, <1>7, <1>8, <1>t, <2>1 DEF Encrypting
<1>13. QED
  BY <1>1, <1>5, <1>10, <1>11, <1>12
  DEF ChainInv, Sent, Decrypting, RoundTrip, PaddingAccepted

(* A prefix of a block that is short of a block is a tail, and <<>> is one. *)
LEMMA FirstIsPartial ==
  ASSUME NEW b \in Block, NEW n \in 0 .. BlockLen - 1
  PROVE  First(b, n) \in Partial /\ First(b, 0) = <<>>
<1>1. First(b, n) \in [1 .. n -> Byte]  BY BlockLenAssumption DEF First, Block
<1>2. First(b, 0) = <<>>  BY DEF First
<1>3. QED  BY <1>1, <1>2 DEF Partial

(* The padded tail closes the ciphertext. *)
LEMMA EncryptLastChain == ChainInv /\ EncryptLast => ChainInv'
<1> SUFFICES ASSUME ChainInv, EncryptLast PROVE ChainInv'  OBVIOUS
<1> DEFINE N == Len(message.blocks)
           p == PadTail(mode, message.tail)
           c == encrypt_block(mode, iv, p)
           t == Len(message.tail)
<1>t. /\ mode \in Modes /\ iv \in Block /\ N \in Nat /\ next \in Nat /\ next >= 1
      /\ message.blocks \in Seq(Block) /\ message.tail \in Partial
      /\ t \in 0 .. BlockLen - 1 /\ Len(input.tail) \in 0 .. BlockLen - 1
      /\ output.blocks \in Seq(Block) /\ ivs \in Seq(Block)
  BY Types
<1>1. /\ phase = "encrypt" /\ input = message /\ harm = Unharmed
      /\ next = Len(ivs) /\ iv = ivs[next]
      /\ Len(output.blocks) = next - 1 /\ output.tail = <<>>
      /\ \A i \in 1 .. next - 1 : output.blocks[i] = encrypt_block(mode, ivs[i], Plain(i))
  BY DEF ChainInv, Encrypting, EncryptLast
<1>2. next = N + 1 /\ remaining = t
  <2>1. N - next + 1 \in Nat  BY <1>1, <1>t DEF ChainInv, Chain
  <2>2. remaining = (N - next + 1) * BlockLen + t  BY <1>1 DEF remaining
  <2>3. ~(N - next + 1 >= 1)
    <3>0. (N - next + 1) * BlockLen \in Nat  BY <2>1, BlockLenAssumption
    <3>a. (N - next + 1) * BlockLen + t < BlockLen  BY <2>2 DEF EncryptLast
    <3>b. t \in Nat /\ BlockLen \in Nat  BY <1>t, BlockLenAssumption
    <3>1. ~((N - next + 1) * BlockLen + t >= BlockLen)
      <4> DEFINE x == (N - next + 1) * BlockLen
      <4>1. x \in Nat /\ x + t < BlockLen  BY <3>0, <3>a
      <4> HIDE DEF x
      <4>2. ~(x + t >= BlockLen)  BY <3>b, <4>1
      <4>3. QED  BY <4>2 DEF x
    <3>2. QED  BY <2>1, <3>1, <1>t, RemainingCases
  <2>4. N - next + 1 = 0  BY <2>1, <2>3
  <2>5. QED  BY <2>1, <2>2, <2>4, <1>t, RemainingCases
<1>3. p \in Block /\ Plain(next) = p  BY <1>2, <1>t, Padding DEF Plain
<1>4. c \in Block /\ EncryptIv(mode, iv, p) \in Block  BY <1>3, <1>t, BlockTypes
<1>5. /\ iv' = EncryptIv(mode, iv, p) /\ next' = next /\ ivs' = ivs
      /\ mode' = mode /\ message' = message /\ iv0' = iv0
      /\ phase' = "sent" /\ input' = input /\ harm' = harm
      /\ WriteLast(c, IF mode \in PaddedModes THEN BlockLen ELSE t)
  BY <1>1, <1>2 DEF EncryptLast, given
<1>6. \A i : Plain(i)' = Plain(i)  BY <1>5 DEF Plain
<1>7. output' \in Payload /\ IsCiphertext(output)'
  <2>0. output \in Payload /\ Len(ivs) = N + 1  BY <1>1, <1>2 DEF ChainInv, TypeOK
  <2>1. CASE mode \in PaddedModes
    <3>1. output' = [output EXCEPT !.blocks = Append(output.blocks, c)]
      BY <1>5, <2>1 DEF WriteLast, WriteBlock
    <3>2. Append(output.blocks, c) \in Seq(Block)  BY <1>4, <1>t
    <3>3. /\ output' \in Payload /\ output'.tail = <<>>
          /\ output'.blocks = Append(output.blocks, c)
      BY <1>1, <2>0, <3>1, <3>2 DEF Payload
    <3>4. ASSUME NEW i \in 1 .. Len(output'.blocks)
          PROVE  output'.blocks[i] = encrypt_block(mode', ivs'[i], Plain(i)')
      <4>1. CASE i = next
        BY <1>1, <1>3, <1>4, <1>5, <1>6, <1>t, <3>3, <4>1
      <4>2. CASE i # next
        <5>1. i \in 1 .. next - 1  BY <1>1, <1>4, <1>t, <3>3, <4>2
        <5>2. output'.blocks[i] = output.blocks[i]  BY <1>1, <1>4, <1>t, <3>3, <5>1
        <5>3. QED  BY <1>1, <1>5, <1>6, <5>1, <5>2
      <4>3. QED  BY <4>1, <4>2
    <3>5. Len(output'.blocks) = Len(ivs')  BY <1>1, <1>4, <1>5, <1>t, <3>3
    <3>6. QED  BY <1>5, <2>0, <2>1, <3>3, <3>4, <3>5 DEF IsCiphertext
  <2>2. CASE mode \notin PaddedModes
    <3>1. output' = [output EXCEPT !.tail = First(c, t)]
      BY <1>5, <1>t, <2>2, BlockLenAssumption DEF WriteLast
    <3>2. First(c, t) \in Partial  BY <1>4, <1>t, FirstIsPartial
    <3>3. /\ output' \in Payload /\ output'.tail = First(c, t)
          /\ output'.blocks = output.blocks
      BY <2>0, <3>1, <3>2 DEF Payload
    <3>4. \A i \in 1 .. Len(output'.blocks) :
             output'.blocks[i] = encrypt_block(mode', ivs'[i], Plain(i)')
      BY <1>1, <1>5, <1>6, <3>3
    <3>5. (output.tail = First(encrypt_block(mode, ivs[Len(ivs)], Plain(Len(ivs))),
                               Len(message.tail)))'
      <4>1. Plain(Len(ivs))' = p  BY <1>1, <1>3, <1>5 DEF Plain
      <4>2. QED  BY <1>1, <1>5, <3>3, <4>1
    <3>6. Len(output'.blocks) = Len(message'.blocks)
      BY <1>1, <1>2, <1>5, <1>t, <3>3
    <3>7. QED
      BY <1>5, <2>0, <2>2, <3>3, <3>4, <3>5, <3>6 DEF IsCiphertext
  <2>3. QED  BY <2>1, <2>2
<1>8. TypeOK'
  <2>1. TypeOK  BY DEF ChainInv
  <2>2. QED  BY <1>4, <1>5, <1>7, <2>1 DEF TypeOK
<1>9. Chain'
  BY <1>5, <1>6 DEF ChainInv, Chain
<1>10. QED
  BY <1>1, <1>5, <1>7, <1>8, <1>9
  DEF ChainInv, Encrypting, Sent, Decrypting, RoundTrip, PaddingAccepted

(* The last write of a command appends a whole block, or else leaves the       *)
(* blocks alone and writes a tail.                                             *)
LEMMA WriteLastEffect ==
  ASSUME output \in Payload, NEW b \in Block, NEW n \in 0 .. BlockLen, WriteLast(b, n)
  PROVE  /\ output' \in Payload
         /\ n = BlockLen => /\ output'.blocks = Append(output.blocks, b)
                            /\ output'.tail = output.tail
         /\ n < BlockLen => /\ output'.blocks = output.blocks
                            /\ output'.tail = First(b, n)
<1>1. output.blocks \in Seq(Block) /\ output.tail \in Partial  BY DEF Payload
<1>2. CASE n = BlockLen
  <2>1. output' = [output EXCEPT !.blocks = Append(output.blocks, b)]
    BY <1>2 DEF WriteLast, WriteBlock
  <2>2. Append(output.blocks, b) \in Seq(Block)  BY <1>1
  <2>3. /\ output' \in Payload /\ output'.tail = output.tail
        /\ output'.blocks = Append(output.blocks, b)
    BY <2>1, <2>2 DEF Payload
  <2>4. ~(n < BlockLen)  BY <1>2, BlockLenAssumption
  <2>5. QED  BY <1>2, <2>3, <2>4
<1>3. CASE n < BlockLen
  <2>1. output' = [output EXCEPT !.tail = First(b, n)]
    BY <1>3, BlockLenAssumption DEF WriteLast
  <2>2. First(b, n) \in Partial  BY <1>3, FirstIsPartial, BlockLenAssumption
  <2>3. QED  BY <1>3, <2>1, <2>2, BlockLenAssumption DEF Payload
<1>4. QED  BY <1>2, <1>3, BlockLenAssumption

(* A payload is its blocks and its tail. *)
LEMMA PayloadEquality ==
  ASSUME NEW a \in Payload, NEW b \in Payload, a.tail = b.tail,
         Len(a.blocks) = Len(b.blocks),
         \A i \in 1 .. Len(b.blocks) : a.blocks[i] = b.blocks[i]
  PROVE  a = b
<1>1. a.blocks \in Seq(Block) /\ b.blocks \in Seq(Block)  BY DEF Payload
<1>2. a.blocks = b.blocks  BY <1>1
<1>3. QED  BY <1>2 DEF Payload

(* A prefix of a sequence of blocks is one. *)
LEMMA PrefixBlocks ==
  ASSUME NEW s \in Seq(Block), NEW j \in 1 .. Len(s)
  PROVE  SubSeq(s, 1, j - 1) \in Seq(Block)
OBVIOUS

(* The second command starts on the ciphertext with the chain at its beginning;*)
(* a harmed ciphertext is still a payload.                                     *)
LEMMA TransmitChain == ChainInv /\ Transmit => ChainInv'
<1> SUFFICES ASSUME ChainInv, Transmit PROVE ChainInv'  OBVIOUS
<1>t. /\ mode \in Modes /\ iv0 \in Block /\ message.blocks \in Seq(Block)
      /\ output.blocks \in Seq(Block) /\ output.tail \in Partial
      /\ TypeOK /\ output \in Payload
  BY Types DEF ChainInv, TypeOK
<1>1. ASSUME NEW c \in Payload,
             NEW h \in [kind : {"none", "altered", "cut"}, at : Nat],
             h.kind = "none" => c = output,
             Receive(c, h)
      PROVE  ChainInv'
  <2>1. /\ phase = "sent" /\ phase' = "decrypt" /\ input' = c /\ harm' = h
        /\ iv' = iv0 /\ next' = 1 /\ output' = Empty
        /\ mode' = mode /\ message' = message /\ iv0' = iv0 /\ ivs' = ivs
    BY <1>1 DEF Receive, given
  <2>2. Empty \in Payload /\ Empty.tail = <<>> /\ Empty.blocks = <<>>
    <3>1. <<>> \in Partial
      BY FirstIsPartial, <1>t, BlockLenAssumption
    <3>2. QED  BY <3>1 DEF Empty, Payload
  <2>3. TypeOK'  BY <1>t, <2>1, <2>2 DEF TypeOK
  <2>4. \A i : Plain(i)' = Plain(i)  BY <2>1 DEF Plain
  <2>5. Chain'  BY <2>1, <2>4 DEF ChainInv, Chain
  <2>6. Decrypting'
    <3> SUFFICES ASSUME h.kind = "none" PROVE Decrypting'
      BY <2>1 DEF Decrypting
    <3>1. IsCiphertext(output)  BY <2>1 DEF ChainInv, Sent
    <3>2. IsCiphertext(input)'
      <4>1. Plain(Len(ivs))' = Plain(Len(ivs))  BY <2>1 DEF Plain
      <4>2. QED  BY <1>1, <2>1, <2>4, <3>1, <4>1 DEF IsCiphertext
    <3>3. Len(ivs) = Len(message.blocks) + 1 /\ ivs[1] = iv0
      BY <3>1 DEF IsCiphertext, ChainInv, Chain
    <3>4. 1 <= Len(message.blocks) \/ message.blocks = <<>>  BY <1>t
    <3>5. QED  BY <1>t, <2>1, <2>2, <3>2, <3>3, <3>4 DEF Decrypting
  <2>7. QED
    BY <2>1, <2>3, <2>5, <2>6
    DEF ChainInv, Encrypting, Sent, RoundTrip, PaddingAccepted
<1>2. CASE ReceiveIntact  BY <1>1, <1>2, <1>t DEF ReceiveIntact, Unharmed
<1>3. CASE ReceiveAltered
  <2>1. PICK j \in 1 .. Len(output.blocks), b \in Block :
           Receive([output EXCEPT !.blocks[j] = b], [kind |-> "altered", at |-> j])
    BY <1>3 DEF ReceiveAltered
  <2>2. [output EXCEPT !.blocks[j] = b] \in Payload  BY <1>t DEF Payload
  <2>3. QED  BY <1>1, <2>1, <2>2
<1>4. CASE ReceiveCut
  <2>1. PICK j \in 1 .. Len(output.blocks), n \in 0 .. BlockLen - 1 :
           Receive([blocks |-> SubSeq(output.blocks, 1, j - 1),
                    tail |-> First(output.blocks[j], n)],
                   [kind |-> "cut", at |-> j])
    BY <1>4 DEF ReceiveCut
  <2>2. [blocks |-> SubSeq(output.blocks, 1, j - 1),
         tail |-> First(output.blocks[j], n)] \in Payload
    <3>1. SubSeq(output.blocks, 1, j - 1) \in Seq(Block)  BY <1>t, PrefixBlocks
    <3>2. First(output.blocks[j], n) \in Partial  BY <1>t, FirstIsPartial
    <3>3. QED  BY <3>1, <3>2 DEF Payload
  <2>3. QED  BY <1>1, <2>1, <2>2
<1>5. QED  BY <1>2, <1>3, <1>4 DEF Transmit

(* What the decryption knows when nothing was harmed. *)
LEMMA Intact ==
  ASSUME ChainInv, phase = "decrypt", harm.kind = "none"
  PROVE  LET N == Len(message.blocks) IN
         /\ Len(ivs) = N + 1
         /\ next \in 1 .. N + 1 /\ iv = ivs[next]
         /\ Len(output.blocks) = next - 1 /\ output.tail = <<>>
         /\ \A i \in 1 .. next - 1 : output.blocks[i] = message.blocks[i]
         /\ \A i \in 1 .. Len(input.blocks) :
               input.blocks[i] = encrypt_block(mode, ivs[i], Plain(i))
         /\ mode \in PaddedModes => Len(input.blocks) = N + 1 /\ Len(input.tail) = 0
         /\ mode \notin PaddedModes =>
               /\ Len(input.blocks) = N
               /\ Len(input.tail) = Len(message.tail)
               /\ input.tail = First(encrypt_block(mode, ivs[N + 1], Plain(N + 1)),
                                     Len(message.tail))
               /\ next <= N \/ Len(message.tail) > 0 \/ N = 0
<1> DEFINE N == Len(message.blocks)
<1>t. message.blocks \in Seq(Block) /\ N \in Nat /\ Len(message.tail) \in 0 .. BlockLen - 1
  BY Types
<1>1. /\ Len(ivs) = N + 1
      /\ next \in 1 .. Len(ivs) /\ iv = ivs[next]
      /\ next <= N \/ mode \in PaddedModes \/ message.tail # <<>> \/ message.blocks = <<>>
      /\ Len(output.blocks) = next - 1 /\ output.tail = <<>>
      /\ \A i \in 1 .. next - 1 : output.blocks[i] = message.blocks[i]
      /\ \A i \in 1 .. Len(input.blocks) :
            input.blocks[i] = encrypt_block(mode, ivs[i], Plain(i))
      /\ IF mode \in PaddedModes
         THEN Len(input.blocks) = Len(ivs) /\ input.tail = <<>>
         ELSE /\ Len(input.blocks) = N
              /\ input.tail = First(encrypt_block(mode, ivs[Len(ivs)], Plain(Len(ivs))),
                                    Len(message.tail))
  BY DEF ChainInv, Decrypting, IsCiphertext
<1>2. input.tail = <<>> => Len(input.tail) = 0  OBVIOUS
<1>3. \A b : Len(First(b, Len(message.tail))) = Len(message.tail)
  BY <1>t, BlockLenAssumption DEF First
<1>4. message.tail # <<>> => Len(message.tail) > 0
  <2>1. PICK n \in 0 .. BlockLen - 1 : message.tail \in [1 .. n -> Byte]
    BY Types DEF Partial
  <2>2. Len(message.tail) = n  BY <2>1, BlockLenAssumption
  <2>3. n = 0 => message.tail = <<>>  BY <2>1
  <2>4. QED  BY <2>1, <2>2, <2>3, BlockLenAssumption
<1>5. message.blocks = <<>> => N = 0  OBVIOUS
<1>6. QED  BY <1>1, <1>2, <1>3, <1>4, <1>5

(* Up to the last block, the decryption recovers the block the encryption took *)
(* and the value it went on with.                                              *)
LEMMA DecryptFullChain == ChainInv /\ DecryptFull => ChainInv'
<1> SUFFICES ASSUME ChainInv, DecryptFull PROVE ChainInv'  OBVIOUS
<1> DEFINE N == Len(message.blocks)
           b == input.blocks[next]
           p == decrypt_block(mode, iv, b)
<1>t. /\ mode \in Modes /\ iv \in Block /\ N \in Nat /\ next \in Nat /\ next >= 1
      /\ message.blocks \in Seq(Block) /\ input.blocks \in Seq(Block)
      /\ Len(input.blocks) \in Nat
      /\ Len(input.tail) \in 0 .. BlockLen - 1 /\ message.tail \in Partial
      /\ output.blocks \in Seq(Block) /\ ivs \in Seq(Block)
  BY Types
<1>1. phase = "decrypt" /\ remaining > BlockLen  BY DEF DecryptFull
<1> DEFINE k == Len(input.blocks) - next + 1
<1>2. k >= 2 \/ (k = 1 /\ Len(input.tail) > 0)
  <2>1. k \in Int /\ k * BlockLen + Len(input.tail) > BlockLen
    BY <1>1, <1>t DEF remaining
  <2>2. QED  BY <1>t, <2>1, RemainingCases
<1>3. next \in 1 .. Len(input.blocks) /\ b \in Block  BY <1>2, <1>t
<1>4. p \in Block /\ DecryptIv(mode, iv, b) \in Block  BY <1>3, <1>t, BlockTypes
<1>5. /\ output' = [output EXCEPT !.blocks = Append(output.blocks, p)]
      /\ iv' = DecryptIv(mode, iv, b) /\ next' = next + 1
      /\ mode' = mode /\ message' = message /\ iv0' = iv0 /\ ivs' = ivs
      /\ phase' = phase /\ input' = input /\ harm' = harm
  BY DEF DecryptFull, WriteBlock, given
<1>6. /\ output' \in Payload /\ output'.tail = output.tail
      /\ output'.blocks = Append(output.blocks, p)
  <2>1. output \in Payload  BY DEF ChainInv, TypeOK
  <2>2. Append(output.blocks, p) \in Seq(Block)  BY <1>4, <1>t
  <2>3. QED  BY <1>5, <2>1, <2>2 DEF Payload
<1>7. TypeOK'
  <2>1. TypeOK  BY DEF ChainInv
  <2>2. next' \in Nat /\ next' >= 1  BY <1>5, <1>t
  <2>3. QED  BY <1>4, <1>5, <1>6, <2>1, <2>2 DEF TypeOK
<1>8. \A i : Plain(i)' = Plain(i)  BY <1>5 DEF Plain
<1>9. Chain'  BY <1>5, <1>8 DEF ChainInv, Chain
<1>10. Decrypting'
  <2> SUFFICES ASSUME harm.kind = "none" PROVE Decrypting'
    BY <1>5 DEF Decrypting
  <2>1. /\ Len(ivs) = N + 1
        /\ next \in 1 .. N + 1 /\ iv = ivs[next]
        /\ Len(output.blocks) = next - 1 /\ output.tail = <<>>
        /\ \A i \in 1 .. next - 1 : output.blocks[i] = message.blocks[i]
        /\ \A i \in 1 .. Len(input.blocks) :
              input.blocks[i] = encrypt_block(mode, ivs[i], Plain(i))
        /\ mode \in PaddedModes => Len(input.blocks) = N + 1 /\ Len(input.tail) = 0
        /\ mode \notin PaddedModes => /\ Len(input.blocks) = N
                                      /\ Len(input.tail) = Len(message.tail)
    BY <1>1, Intact
  <2>2. next <= N /\ b = encrypt_block(mode, iv, Plain(next))
    BY <1>2, <1>3, <1>t, <2>1
  <2>3. Plain(next) = message.blocks[next] /\ Plain(next) \in Block
    BY <1>t, <2>2 DEF Plain
  <2>4. p = message.blocks[next] /\ iv' = EncryptIv(mode, iv, Plain(next))
    BY <1>5, <1>t, <2>2, <2>3, BlockRoundTrip
  <2>5. iv' = ivs[next + 1]
    <3>1. next \in 1 .. Len(ivs) - 1  BY <1>t, <2>1, <2>2
    <3>2. ivs[next + 1] = EncryptIv(mode, ivs[next], Plain(next))
      BY <3>1 DEF ChainInv, Chain
    <3>3. QED  BY <2>1, <2>4, <3>2
  <2>6. IsCiphertext(input)'
    <3>1. IsCiphertext(input)  BY <1>1 DEF ChainInv, Decrypting
    <3>2. Plain(Len(ivs))' = Plain(Len(ivs))  BY <1>5 DEF Plain
    <3>3. QED  BY <1>5, <1>8, <3>1, <3>2 DEF IsCiphertext
  <2>7. Len(output'.blocks) = next' - 1  BY <1>4, <1>5, <1>6, <1>t, <2>1
  <2>8. \A i \in 1 .. next' - 1 : output'.blocks[i] = message'.blocks[i]
    <3>0. next' - 1 = next /\ message' = message  BY <1>5, <1>t
    <3> SUFFICES ASSUME NEW i \in 1 .. next
                 PROVE  output'.blocks[i] = message.blocks[i]
      BY <3>0
    <3>1. CASE i = next  BY <1>4, <1>6, <1>t, <2>1, <2>4, <3>1
    <3>2. CASE i # next
      <4>1. i \in 1 .. next - 1  BY <1>t, <3>2
      <4>2. output'.blocks[i] = output.blocks[i]  BY <1>4, <1>6, <1>t, <2>1, <4>1
      <4>3. QED  BY <2>1, <4>1, <4>2
    <3>3. QED  BY <3>1, <3>2
  <2>9. next' <= N \/ mode \in PaddedModes \/ message.tail # <<>>
    <3>1. mode \notin PaddedModes /\ next = N => Len(message.tail) > 0
      BY <1>2, <1>t, <2>1
    <3>2. message.tail = <<>> => Len(message.tail) = 0  OBVIOUS
    <3>3. QED  BY <1>5, <1>t, <2>2, <3>1, <3>2
  <2>10. next' \in 1 .. Len(ivs') /\ iv' = ivs'[next']  BY <1>5, <1>t, <2>1, <2>2, <2>5
  <2>11. QED
    BY <1>5, <1>6, <2>1, <2>6, <2>7, <2>8, <2>9, <2>10 DEF Decrypting
<1>11. QED
  BY <1>1, <1>5, <1>7, <1>9, <1>10
  DEF ChainInv, Encrypting, Sent, RoundTrip, PaddingAccepted

(* However the last block came out, what is written is a payload. *)
LEMMA FinishType ==
  ASSUME ChainInv, NEW p \in Block, Finish(p), remaining \in 0 .. BlockLen
  PROVE  output' \in Payload /\ phase' \in {"done", "bad padding"}
<1>1. output \in Payload  BY DEF ChainInv, TypeOK
<1>2. CASE mode \in PaddedModes /\ padlen(p) > BlockLen
  BY <1>1, <1>2 DEF Finish
<1>3. CASE ~(mode \in PaddedModes /\ padlen(p) > BlockLen)
  <2> DEFINE n == IF mode \in PaddedModes THEN BlockLen - padlen(p) ELSE remaining
  <2>1. phase' = "done" /\ WriteLast(p, n)  BY <1>3 DEF Finish
  <2>2. padlen(p) \in Nat
    <3>1. BlockLen \in 1 .. BlockLen  BY BlockLenAssumption
    <3>2. p[BlockLen] \in Byte  BY <3>1 DEF Block
    <3>3. QED  BY <3>2, ByteAssumption DEF padlen
  <2>3. n \in 0 .. BlockLen  BY <1>3, <2>2, BlockLenAssumption
  <2> HIDE DEF n
  <2>4. output' \in Payload  BY <1>1, <2>1, <2>3, WriteLastEffect
  <2>5. QED  BY <2>1, <2>4
<1>4. QED  BY <1>2, <1>3

(* The last block is a whole one of which nothing follows, or the tail. *)
LEMMA LastCases ==
  ASSUME ChainInv, DecryptLast, next <= Len(input.blocks) + 1
  PROVE  \/ /\ Len(input.blocks) - next + 1 = 1 /\ Len(input.tail) = 0
            /\ remaining = BlockLen
         \/ /\ Len(input.blocks) - next + 1 = 0 /\ Len(input.tail) > 0
            /\ remaining = Len(input.tail)
<1> DEFINE k == Len(input.blocks) - next + 1
<1>t. /\ next \in Nat /\ Len(input.blocks) \in Nat /\ Len(input.tail) \in 0 .. BlockLen - 1
  BY Types
<1>0. remaining > 0 /\ remaining <= BlockLen  BY DEF DecryptLast
<1>1. k \in Int /\ remaining = k * BlockLen + Len(input.tail)
  BY <1>t DEF remaining
<1>2. k * BlockLen + Len(input.tail) \in Int  BY <1>1, <1>t, BlockLenAssumption
<1>3. ~(k >= 2 \/ (k = 1 /\ Len(input.tail) > 0))
  <2>1. ~(k * BlockLen + Len(input.tail) > BlockLen)
    BY <1>0, <1>1, <1>2, BlockLenAssumption
  <2>2. QED  BY <1>t, <1>1, <2>1, RemainingCases
<1>4. k >= 0
  BY <1>t
<1>5. ~(k = 0 /\ Len(input.tail) = 0)
  <2>1. ~(k * BlockLen + Len(input.tail) = 0)  BY <1>0, <1>1, <1>2
  <2>2. QED  BY <1>t, <1>1, <2>1, RemainingCases
<1>6. \/ k = 1 /\ Len(input.tail) = 0
      \/ k = 0 /\ Len(input.tail) > 0
  <2>1. k \in Nat /\ Len(input.tail) \in Nat  BY <1>t, <1>1, <1>4, BlockLenAssumption
  <2> HIDE DEF k
  <2>2. ~(k >= 2)  BY <1>3
  <2>3. k = 0 \/ k = 1  BY <2>1, <2>2
  <2>4. Len(input.tail) = 0 \/ Len(input.tail) > 0  BY <2>1
  <2>5. CASE k = 0  BY <1>5, <2>4, <2>5
  <2>6. CASE k = 1
    <3>1. ~(Len(input.tail) > 0)  BY <1>3, <2>6
    <3>2. QED  BY <2>4, <2>6, <3>1
  <2>7. QED  BY <2>3, <2>5, <2>6
<1>7. QED  BY <1>t, <1>1, <1>6, RemainingCases

(* The last block completes the message it was made of.  In a padded mode it is *)
(* the padded tail; in a stream mode it is the tail, of which only the bytes    *)
(* that are there are written.                                                  *)
LEMMA LastBlockRight ==
  ASSUME ChainInv, DecryptLast, harm.kind = "none"
  PROVE  phase' = "done" /\ output' = message
<1> DEFINE N == Len(message.blocks)
           T == Len(message.tail)
           k == Len(input.blocks) - next + 1
<1>t. /\ mode \in Modes /\ iv \in Block /\ N \in Nat /\ next \in Nat /\ next >= 1
      /\ message.blocks \in Seq(Block) /\ message.tail \in Partial /\ T \in 0 .. BlockLen - 1
      /\ input.blocks \in Seq(Block) /\ Len(input.blocks) \in Nat
      /\ Len(input.tail) \in 0 .. BlockLen - 1
      /\ output.blocks \in Seq(Block)
      /\ Plain(N + 1) = PadTail(mode, message.tail)
      /\ message \in Payload /\ output \in Payload
  BY Types DEF ChainInv, TypeOK
<1>0. /\ phase = "decrypt" /\ remaining > 0 /\ remaining <= BlockLen
      /\ \E block \in LastBlocks : Finish(decrypt_block(mode, iv, block))
      /\ message' = message
  BY DEF DecryptLast, given
<1>1. /\ Len(ivs) = N + 1
      /\ next \in 1 .. N + 1 /\ iv = ivs[next]
      /\ Len(output.blocks) = next - 1 /\ output.tail = <<>>
      /\ \A i \in 1 .. next - 1 : output.blocks[i] = message.blocks[i]
      /\ \A i \in 1 .. Len(input.blocks) :
            input.blocks[i] = encrypt_block(mode, ivs[i], Plain(i))
      /\ mode \in PaddedModes => Len(input.blocks) = N + 1 /\ Len(input.tail) = 0
      /\ mode \notin PaddedModes =>
            /\ Len(input.blocks) = N
            /\ Len(input.tail) = T
            /\ input.tail = First(encrypt_block(mode, ivs[N + 1], Plain(N + 1)), T)
  BY <1>0, Intact
<1>2. \/ k = 1 /\ Len(input.tail) = 0 /\ remaining = BlockLen
      \/ k = 0 /\ Len(input.tail) > 0 /\ remaining = Len(input.tail)
  <2>1. next <= Len(input.blocks) + 1  BY <1>1, <1>t
  <2>2. QED  BY <2>1, LastCases
<1>3. PadTail(mode, message.tail) \in Block
      /\ First(PadTail(mode, message.tail), T) = message.tail
      /\ (mode \in PaddedModes => padlen(PadTail(mode, message.tail)) = BlockLen - T)
  BY <1>t, Padding
<1>4. CASE mode \in PaddedModes
  <2> DEFINE p == PadTail(mode, message.tail)
  <2>1. k = 1 /\ next = N + 1 /\ next <= Len(input.blocks)
    BY <1>1, <1>2, <1>4, <1>t
  <2>2. Finish(decrypt_block(mode, iv, input.blocks[next]))
    BY <1>0, <2>1 DEF LastBlocks
  <2>3. decrypt_block(mode, iv, input.blocks[next]) = p
    <3>1. input.blocks[next] = encrypt_block(mode, iv, p)  BY <1>1, <1>t, <2>1
    <3>2. QED  BY <1>3, <1>t, <3>1, BlockRoundTrip
  <2>4. Finish(p) /\ padlen(p) = BlockLen - T  BY <1>3, <1>4, <2>2, <2>3
  <2> HIDE DEF p
  <2>5. ~(padlen(p) > BlockLen) /\ BlockLen - padlen(p) = T
    BY <1>t, <2>4, BlockLenAssumption
  <2>6. phase' = "done" /\ WriteLast(p, T)  BY <1>4, <2>4, <2>5 DEF Finish
  <2>7. /\ output' \in Payload /\ output'.blocks = output.blocks
        /\ output'.tail = First(p, T)
    <3>1. T \in 0 .. BlockLen /\ T < BlockLen  BY <1>t, BlockLenAssumption
    <3>2. p \in Block  BY <1>3 DEF p
    <3>3. QED  BY <1>t, <2>6, <3>1, <3>2, WriteLastEffect
  <2>8. output'.tail = message.tail  BY <1>3, <2>7 DEF p
  <2>9. /\ Len(output'.blocks) = N
        /\ \A i \in 1 .. N : output'.blocks[i] = message.blocks[i]
    BY <1>1, <1>t, <2>1, <2>7
  <2>10. QED  BY <1>t, <2>6, <2>7, <2>8, <2>9, PayloadEquality
<1>5. CASE mode \notin PaddedModes /\ k = 1
  <2> DEFINE p == message.blocks[N]
  <2>1. next = N /\ next <= Len(input.blocks) /\ T = 0 /\ N >= 1 /\ remaining = BlockLen
    <3>1. Len(input.blocks) = N /\ Len(input.tail) = T  BY <1>1, <1>5
    <3>2. Len(input.tail) = 0 /\ remaining = BlockLen  BY <1>2, <1>5
    <3>3. N + 1 - next = 1  BY <1>5, <1>t, <3>1
    <3>4. next \in 1 .. N + 1 /\ N \in Nat  BY <1>1, <1>t
    <3>5. next = N /\ N >= 1  BY <3>3, <3>4
    <3>6. QED  BY <3>1, <3>2, <3>5
  <2>2. Finish(decrypt_block(mode, iv, input.blocks[next]))
    BY <1>0, <2>1 DEF LastBlocks
  <2>3. p \in Block /\ Plain(next) = p  BY <1>t, <2>1 DEF Plain
  <2>4. decrypt_block(mode, iv, input.blocks[next]) = p
    <3>1. input.blocks[next] = encrypt_block(mode, iv, p)  BY <1>1, <1>t, <2>1, <2>3
    <3>2. QED  BY <1>t, <2>3, <3>1, BlockRoundTrip
  <2>5. phase' = "done" /\ WriteLast(p, BlockLen)
    BY <1>5, <2>1, <2>2, <2>4 DEF Finish
  <2> HIDE DEF p
  <2>6. /\ output' \in Payload /\ output'.tail = output.tail
        /\ output'.blocks = Append(output.blocks, p)
    <3>1. BlockLen \in 0 .. BlockLen  BY BlockLenAssumption
    <3>2. QED  BY <1>t, <2>3, <2>5, <3>1, WriteLastEffect
  <2>7. message.tail = <<>>
    <3>1. First(PadTail(mode, message.tail), 0) = <<>>
      BY <1>3, FirstIsPartial, BlockLenAssumption
    <3>2. QED  BY <1>3, <2>1, <3>1
  <2>8. Len(output'.blocks) = N  BY <1>1, <1>t, <2>1, <2>3, <2>6
  <2>9. ASSUME NEW i \in 1 .. N PROVE output'.blocks[i] = message.blocks[i]
    <3>1. CASE i = N  BY <1>1, <1>t, <2>1, <2>3, <2>6, <3>1 DEF p
    <3>2. CASE i # N
      <4>1. i \in 1 .. next - 1  BY <1>t, <2>1, <3>2
      <4>2. output'.blocks[i] = output.blocks[i]  BY <1>1, <1>t, <2>3, <2>6, <4>1
      <4>3. QED  BY <1>1, <4>1, <4>2
    <3>3. QED  BY <3>1, <3>2
  <2>10. QED  BY <1>1, <1>t, <2>5, <2>6, <2>7, <2>8, <2>9, PayloadEquality
<1>6. CASE mode \notin PaddedModes /\ k = 0
  <2> DEFINE p == PadTail(mode, message.tail)
             e == encrypt_block(mode, iv, p)
  <2>1. next = N + 1 /\ ~(next <= Len(input.blocks)) /\ T > 0 /\ remaining = T
    BY <1>1, <1>2, <1>6, <1>t
  <2>2. PICK b \in Block : First(b, T) = input.tail /\ Finish(decrypt_block(mode, iv, b))
    BY <1>0, <1>1, <1>6, <2>1 DEF LastBlocks
  <2>3. First(b, T) = First(e, T)  BY <1>1, <1>6, <1>t, <2>1, <2>2
  <2>4. First(decrypt_block(mode, iv, b), T) = First(decrypt_block(mode, iv, e), T)
    <3>1. \A i \in 1 .. T : b[i] = e[i]
      <4>1. ASSUME NEW i \in 1 .. T PROVE b[i] = e[i]
        <5>1. First(b, T)[i] = b[i] /\ First(e, T)[i] = e[i]  BY DEF First
        <5>2. QED  BY <2>3, <5>1
      <4>2. QED  BY <4>1
    <3>2. mode \in {"CFB", "OFB"}
      BY <1>6, <1>t DEF Modes, PaddedModes, StreamModes
    <3>3. \A x : decrypt_block(mode, iv, x) = XorBlocks(encrypt_fun(iv), x)
      BY <3>2 DEF decrypt_block
    <3>4. \A i \in 1 .. T : XorBlocks(encrypt_fun(iv), b)[i] = XorBlocks(encrypt_fun(iv), e)[i]
      BY <1>t, <3>1, BlockLenAssumption DEF XorBlocks
    <3>5. QED  BY <3>3, <3>4 DEF First
  <2>5. decrypt_block(mode, iv, e) = p  BY <1>3, <1>t, BlockRoundTrip
  <2>6. phase' = "done" /\ WriteLast(decrypt_block(mode, iv, b), T)
    BY <1>6, <2>1, <2>2 DEF Finish
  <2>7. decrypt_block(mode, iv, b) \in Block  BY <1>t, <2>2, BlockTypes
  <2>8. /\ output' \in Payload /\ output'.blocks = output.blocks
        /\ output'.tail = First(decrypt_block(mode, iv, b), T)
    <3>1. T \in 0 .. BlockLen /\ T < BlockLen  BY <1>t, BlockLenAssumption
    <3>2. QED  BY <1>t, <2>6, <2>7, <3>1, WriteLastEffect
  <2>9. output'.tail = message.tail  BY <1>3, <2>4, <2>5, <2>8
  <2>10. /\ Len(output'.blocks) = N
         /\ \A i \in 1 .. N : output'.blocks[i] = message.blocks[i]
    BY <1>1, <1>t, <2>1, <2>8
  <2>11. QED  BY <1>t, <2>6, <2>8, <2>9, <2>10, PayloadEquality
<1>7. QED  BY <1>2, <1>4, <1>5, <1>6

(* The end of a decryption preserves ChainInv: a message that came back whole, or a *)
(* harmed one of which ChainInv says nothing.                                       *)
LEMMA DecryptLastChain == ChainInv /\ DecryptLast => ChainInv'
<1> SUFFICES ASSUME ChainInv, DecryptLast PROVE ChainInv'  OBVIOUS
<1>1. /\ phase = "decrypt" /\ remaining > 0 /\ remaining <= BlockLen
      /\ mode' = mode /\ message' = message /\ iv0' = iv0 /\ ivs' = ivs
      /\ next' = next /\ input' = input /\ harm' = harm
  BY DEF DecryptLast, given
<1>2. PICK b \in LastBlocks : /\ Finish(decrypt_block(mode, iv, b))
                              /\ iv' = DecryptIv(mode, iv, b)
  BY DEF DecryptLast
<1>3. b \in Block
  <2>1. next <= Len(input.blocks) => input.blocks[next] \in Block
    BY Types
  <2>2. QED  BY <1>2, <2>1 DEF LastBlocks
<1>4. decrypt_block(mode, iv, b) \in Block /\ iv' \in Block
  BY <1>2, <1>3, Types, BlockTypes
<1>5. remaining \in 0 .. BlockLen
  <2>1. (Len(input.blocks) - next + 1) * BlockLen \in Int
    BY Types, BlockLenAssumption
  <2>2. remaining \in Int  BY <2>1, Types, BlockLenAssumption DEF remaining
  <2>3. QED  BY <1>1, <2>2, BlockLenAssumption
<1>6. output' \in Payload /\ phase' \in {"done", "bad padding"}
  BY <1>2, <1>4, <1>5, FinishType
<1>7. TypeOK'  BY <1>1, <1>4, <1>6 DEF ChainInv, TypeOK
<1>8. Chain'
  <2>1. \A i : Plain(i)' = Plain(i)  BY <1>1 DEF Plain
  <2>2. QED  BY <1>1, <2>1 DEF ChainInv, Chain
<1>9. RoundTrip' /\ PaddingAccepted'
  BY <1>1, LastBlockRight DEF RoundTrip, PaddingAccepted
<1>10. QED
  BY <1>1, <1>6, <1>7, <1>8, <1>9 DEF ChainInv, Encrypting, Sent, Decrypting

(* With nothing to decrypt the block is not initialised; an intact ciphertext is *)
(* empty only if the message was, in a stream mode, and then nothing is written. *)
LEMMA DecryptEmptyChain == ChainInv /\ DecryptEmpty => ChainInv'
<1> SUFFICES ASSUME ChainInv, DecryptEmpty PROVE ChainInv'  OBVIOUS
<1> DEFINE N == Len(message.blocks)
           k == Len(input.blocks) - next + 1
<1>1. /\ phase = "decrypt" /\ remaining = 0
      /\ mode' = mode /\ message' = message /\ iv0' = iv0 /\ ivs' = ivs
      /\ next' = next /\ input' = input /\ harm' = harm /\ iv' = iv
  BY DEF DecryptEmpty, given
<1>2. PICK b \in Block : Finish(b)  BY DEF DecryptEmpty
<1>3. 0 \in 0 .. BlockLen /\ 0 < BlockLen  BY BlockLenAssumption
<1>4. output' \in Payload /\ phase' \in {"done", "bad padding"}
  BY <1>1, <1>2, <1>3, FinishType
<1>5. TypeOK'  BY <1>1, <1>4 DEF ChainInv, TypeOK
<1>6. Chain'
  <2>1. \A i : Plain(i)' = Plain(i)  BY <1>1 DEF Plain
  <2>2. QED  BY <1>1, <2>1 DEF ChainInv, Chain
<1>7. ASSUME harm.kind = "none" PROVE phase' = "done" /\ output' = message
  <2>1. k = 0 /\ Len(input.tail) = 0
    <3>1. k \in Int /\ k * BlockLen + Len(input.tail) = 0
      BY <1>1, Types DEF remaining
    <3>2. QED  BY <3>1, Types, RemainingCases
  <2>2. /\ next \in 1 .. N + 1 /\ N \in Nat
        /\ Len(output.blocks) = next - 1 /\ output.tail = <<>>
        /\ mode \in PaddedModes => Len(input.blocks) = N + 1
        /\ mode \notin PaddedModes =>
              /\ Len(input.blocks) = N /\ Len(input.tail) = Len(message.tail)
              /\ next <= N \/ Len(message.tail) > 0 \/ N = 0
    BY <1>1, <1>7, Intact, Types
  <2>3. mode \notin PaddedModes /\ N = 0 /\ Len(message.tail) = 0
    BY <2>1, <2>2, Types
  <2>4. phase' = "done" /\ WriteLast(b, 0)  BY <1>1, <1>2, <2>3 DEF Finish
  <2>5. output \in Payload  BY DEF ChainInv, TypeOK
  <2>6. output' \in Payload /\ output'.blocks = output.blocks /\ output'.tail = First(b, 0)
    BY <1>3, <2>4, <2>5, WriteLastEffect
  <2>7. message.tail = <<>>
    <3>1. /\ First(PadTail(mode, message.tail), 0) = message.tail
          /\ PadTail(mode, message.tail) \in Block
      BY <2>3, Types, Padding
    <3>2. QED  BY <1>3, <3>1, FirstIsPartial, BlockLenAssumption
  <2>8. output'.tail = message.tail  BY <1>3, <2>6, <2>7, FirstIsPartial, BlockLenAssumption
  <2>9. /\ Len(output'.blocks) = N
        /\ \A i \in 1 .. N : output'.blocks[i] = message.blocks[i]
    BY <2>1, <2>2, <2>3, <2>6, Types
  <2>10. message \in Payload  BY DEF ChainInv, TypeOK
  <2>11. QED  BY <2>4, <2>6, <2>8, <2>9, <2>10, PayloadEquality
<1>8. RoundTrip' /\ PaddingAccepted'
  BY <1>1, <1>7 DEF RoundTrip, PaddingAccepted
<1>9. QED
  BY <1>1, <1>4, <1>5, <1>6, <1>8 DEF ChainInv, Encrypting, Sent, Decrypting

(* A failed write ends the command; nothing else changes. *)
LEMMA WriteFailsChain == ChainInv /\ WriteFails => ChainInv'
<1> SUFFICES ASSUME ChainInv, WriteFails PROVE ChainInv'  OBVIOUS
<1>1. /\ phase' = "write error"
      /\ mode' = mode /\ message' = message /\ iv0' = iv0 /\ ivs' = ivs /\ iv' = iv
      /\ next' = next /\ input' = input /\ output' = output /\ harm' = harm
  BY DEF WriteFails, given
<1>2. \A i : Plain(i)' = Plain(i)  BY <1>1 DEF Plain
<1>3. TypeOK'  BY <1>1 DEF ChainInv, TypeOK
<1>4. Chain'  BY <1>1, <1>2 DEF ChainInv, Chain
<1>5. QED
  BY <1>1, <1>3, <1>4
  DEF ChainInv, Encrypting, Sent, Decrypting, RoundTrip, PaddingAccepted

(* Nothing changes without a step. *)
LEMMA StutterChain == ChainInv /\ UNCHANGED vars => ChainInv'
<1> SUFFICES ASSUME ChainInv, UNCHANGED vars PROVE ChainInv'  OBVIOUS
<1>1. /\ mode' = mode /\ message' = message /\ iv0' = iv0 /\ ivs' = ivs /\ iv' = iv
      /\ next' = next /\ input' = input /\ output' = output /\ harm' = harm
      /\ phase' = phase
  BY DEF vars
<1>2. \A i : Plain(i)' = Plain(i)  BY <1>1 DEF Plain
<1>3. TypeOK'  BY <1>1 DEF ChainInv, TypeOK
<1>4. Chain'  BY <1>1, <1>2 DEF ChainInv, Chain
<1>5. IsCiphertext(output) => IsCiphertext(output)'
  <2>1. Plain(Len(ivs))' = Plain(Len(ivs))  BY <1>1 DEF Plain
  <2>2. QED  BY <1>1, <1>2, <2>1 DEF IsCiphertext
<1>6. IsCiphertext(input) => IsCiphertext(input)'
  <2>1. Plain(Len(ivs))' = Plain(Len(ivs))  BY <1>1 DEF Plain
  <2>2. QED  BY <1>1, <1>2, <2>1 DEF IsCiphertext
<1>7. Encrypting'
  BY <1>1, <1>2 DEF ChainInv, Encrypting
<1>8. Sent' /\ Decrypting'
  BY <1>1, <1>5, <1>6 DEF ChainInv, Sent, Decrypting
<1>9. QED
  BY <1>1, <1>3, <1>4, <1>7, <1>8 DEF ChainInv, RoundTrip, PaddingAccepted

-----------------------------------------------------------------------------
(* What was harmed on its way.                                             *)

(* What the proofs below use of the types, and how long a message can be. *)
LEMMA BlocksOfMessage ==
  ASSUME ChainInv
  PROVE  /\ Len(message.blocks) \in Nat /\ Len(message.blocks) <= MaxBlocks /\ MaxBlocks \in Nat
         /\ mode \in Modes /\ harm.at \in Nat /\ harm.kind \in {"none", "altered", "cut"}
BY Types, MessagesAssumption DEF ChainInv, TypeOK

(* A block of the message that the harm cannot reach is decrypted in step. *)
LEMMA SparedIsSynced ==
  ASSUME ChainInv, harm.kind # "none", NEW i \in 1 .. Len(message.blocks), Spared(i)
  PROVE  Synced(i) /\ i # harm.at
<1>1. i < harm.at \/ (harm.kind = "altered" /\ i >= RecoversAt)  BY DEF Spared
<1>2. CASE i < harm.at  BY <1>2, BlocksOfMessage DEF Synced
<1>3. CASE harm.kind = "altered" /\ i >= RecoversAt
  <2>1. mode # "PCBC"
    <3>1. mode = "PCBC" => RecoversAt = MaxBlocks + 1  BY DEF RecoversAt
    <3>2. QED  BY <1>3, <3>1, BlocksOfMessage
  <2>2. RecoversAt \in {harm.at + 1, harm.at + 2}
    BY <2>1, BlocksOfMessage DEF RecoversAt, Modes, PaddedModes, StreamModes
  <2>3. i # harm.at  BY <1>3, <2>2, BlocksOfMessage
  <2>4. QED  BY <1>3, <2>1, <2>3 DEF Synced
<1>4. QED  BY <1>1, <1>2, <1>3

(* In step, and on a block that is not harmed, it decrypts what was encrypted. *)
LEMMA SparedBlock ==
  ASSUME IInv, phase = "decrypt", harm.kind # "none",
         next <= Len(message.blocks), next <= Len(input.blocks), Spared(next)
  PROVE  decrypt_block(mode, iv, input.blocks[next]) = message.blocks[next]
<1>1. next \in 1 .. Len(message.blocks) /\ next \in 1 .. Len(input.blocks) /\ ChainInv
  BY Types DEF IInv
<1>2. Synced(next) /\ next # harm.at  BY <1>1, SparedIsSynced
<1>3. iv = ivs[next] /\ input.blocks[next] = Cipher(next)
  BY <1>1, <1>2 DEF IInv, Harmed
<1>4. Plain(next) = message.blocks[next] /\ Plain(next) \in Block
  BY <1>1, Types DEF Plain
<1>5. QED  BY <1>1, <1>3, <1>4, Types, BlockRoundTrip DEF Cipher

(* One block more, which is right if the harm could not reach it. *)
LEMMA OneMoreBlock ==
  ASSUME IInv, phase = "decrypt", harm.kind # "none", NEW p \in Block,
         output'.blocks \in {output.blocks, Append(output.blocks, p)},
         mode' = mode, message' = message, harm' = harm,
         next <= Len(message.blocks) /\ Spared(next) => p = message.blocks[next]
  PROVE  Propagation'
<1>1. output.blocks \in Seq(Block) /\ next \in Nat /\ next >= 1 /\ Len(output.blocks) = next - 1
  BY Types DEF IInv, Harmed
<1>2. \A i : Spared(i)' = Spared(i)  BY DEF Spared, RecoversAt
<1>3. ASSUME NEW i \in 1 .. Len(output'.blocks), i <= Len(message.blocks), Spared(i)
      PROVE  output'.blocks[i] = message.blocks[i]
  <2>1. CASE i \in 1 .. Len(output.blocks)
    <3>1. output'.blocks[i] = output.blocks[i]  BY <1>1, <2>1
    <3>2. output.blocks[i] = message.blocks[i]
      BY <1>3, <2>1 DEF IInv, Propagation
    <3>3. QED  BY <3>1, <3>2
  <2>2. CASE i \notin 1 .. Len(output.blocks)
    <3>1. output'.blocks = Append(output.blocks, p) /\ i = next /\ output'.blocks[i] = p
      BY <1>1, <1>3, <2>2
    <3>2. QED  BY <1>3, <3>1
  <2>3. QED  BY <2>1, <2>2
<1>4. QED  BY <1>2, <1>3 DEF Propagation

(* When the second command starts, all of the ciphertext but the harm is right. *)
LEMMA TransmitHarmed ==
  ASSUME IInv, Transmit
  PROVE  Harmed' /\ Propagation' /\ CutIsPrefix'
<1> DEFINE N == Len(message.blocks)
           M == IF mode \in PaddedModes THEN N + 1 ELSE N
<1>t. /\ mode \in Modes /\ N \in Nat /\ output.blocks \in Seq(Block) /\ ChainInv
      /\ output \in Payload
  BY Types DEF IInv, ChainInv, TypeOK
<1>1. /\ phase = "sent" /\ phase' = "decrypt" /\ iv' = iv0 /\ next' = 1 /\ output' = Empty
      /\ mode' = mode /\ message' = message /\ iv0' = iv0 /\ ivs' = ivs
  BY DEF Transmit, ReceiveIntact, ReceiveAltered, ReceiveCut, Receive, given
<1>2. /\ Len(ivs) = N + 1 /\ ivs[1] = iv0 /\ Len(output.blocks) = M
      /\ \A i \in 1 .. M : output.blocks[i] = Cipher(i)
      /\ mode \in PaddedModes => output.tail = <<>>
  <2>1. IsCiphertext(output)  BY <1>1, <1>t DEF ChainInv, Sent
  <2>2. QED  BY <1>t, <2>1 DEF IsCiphertext, ChainInv, Chain, Cipher
<1>3. \A i : Cipher(i)' = Cipher(i)  BY <1>1 DEF Cipher, Plain
<1>4. output'.blocks = <<>> /\ output'.tail = <<>> /\ Len(output'.blocks) = 0
  BY <1>1 DEF Empty
<1>5. Propagation' /\ CutIsPrefix'  BY <1>1, <1>4 DEF Propagation, CutIsPrefix
<1>6. CASE ReceiveIntact
  <2>1. harm'.kind = "none"  BY <1>6 DEF ReceiveIntact, Receive, Unharmed
  <2>2. QED  BY <1>5, <2>1 DEF Harmed
<1>7. CASE ReceiveAltered
  <2>1. PICK j \in 1 .. M, b \in Block :
           Receive([output EXCEPT !.blocks[j] = b], [kind |-> "altered", at |-> j])
    BY <1>2, <1>7 DEF ReceiveAltered
  <2>2. harm'.kind = "altered" /\ harm'.at = j /\ input' = [output EXCEPT !.blocks[j] = b]
    BY <2>1 DEF Receive
  <2>3. input'.blocks = [output.blocks EXCEPT ![j] = b] /\ input'.tail = output.tail
    BY <1>t, <2>2 DEF Payload
  <2>4. Len(input'.blocks) = M /\ \A i \in 1 .. M : i # j => input'.blocks[i] = Cipher(i)
    BY <1>t, <1>2, <2>3
  <2>5. mode \in PaddedModes => Len(input'.tail) = 0  BY <1>2, <2>3
  <2>6. Harmed'
    BY <1>t, <1>1, <1>2, <1>3, <1>4, <2>2, <2>4, <2>5 DEF Harmed
  <2>7. QED  BY <1>5, <2>6
<1>8. CASE ReceiveCut
  <2>1. PICK j \in 1 .. M, n \in 0 .. BlockLen - 1 :
           Receive([blocks |-> SubSeq(output.blocks, 1, j - 1),
                    tail |-> First(output.blocks[j], n)],
                   [kind |-> "cut", at |-> j])
    BY <1>2, <1>8 DEF ReceiveCut
  <2>2. /\ harm'.kind = "cut" /\ harm'.at = j
        /\ input'.blocks = SubSeq(output.blocks, 1, j - 1)
        /\ input'.tail = First(output.blocks[j], n)
    BY <2>1 DEF Receive
  <2>3. /\ Len(input'.blocks) = j - 1
        /\ \A i \in 1 .. j - 1 : input'.blocks[i] = Cipher(i)
    BY <1>t, <1>2, <2>2
  <2>4. Len(input'.tail) = n  BY <2>2, BlockLenAssumption DEF First
  <2>5. input'.tail = First(Cipher(j), Len(input'.tail))  BY <1>2, <2>2, <2>4
  <2>6. Cipher(harm.at)' = Cipher(j)  BY <1>1, <2>2 DEF Cipher, Plain
  <2>7. (input.tail = First(Cipher(harm.at), Len(input.tail)))'  BY <2>5, <2>6
  <2>8. Harmed'
    BY <1>t, <1>1, <1>2, <1>3, <1>4, <2>2, <2>3, <2>7 DEF Harmed
  <2>9. QED  BY <1>5, <2>8
<1>9. QED  BY <1>6, <1>7, <1>8 DEF Transmit

(* A step of the decryption gets into step again, or stays in it: a mode that    *)
(* chains ciphertext does so after any block that is not harmed, a mode that     *)
(* does not after any block.                                                     *)
LEMMA StaysSynced ==
  ASSUME IInv, phase = "decrypt", harm.kind # "none",
         next \in 1 .. Len(input.blocks), next <= Len(message.blocks), Synced(next + 1)
  PROVE  DecryptIv(mode, iv, input.blocks[next]) = ivs[next + 1]
<1> DEFINE v == ivs[next]
           b == input.blocks[next]
<1>1. /\ Len(ivs) = Len(message.blocks) + 1 /\ ivs \in Seq(Block) /\ b \in Block /\ iv \in Block
      /\ next \in Nat /\ harm.at \in Nat /\ mode \in Modes /\ v \in Block
      /\ Plain(next) \in Block
  <2>1. ChainInv /\ Len(ivs) = Len(message.blocks) + 1  BY DEF IInv, Harmed
  <2>2. next \in 1 .. Len(message.blocks) + 1 /\ next \in 1 .. Len(ivs)  BY <2>1, Types
  <2>3. QED  BY <2>1, <2>2, Types, BlocksOfMessage, PlainType
<1>2. ivs[next + 1] = EncryptIv(mode, v, Plain(next))
  <2>1. next \in 1 .. Len(ivs) - 1  BY <1>1
  <2>2. QED  BY <2>1 DEF IInv, ChainInv, Chain
<1>3. next # harm.at => b = encrypt_block(mode, v, Plain(next))
  BY DEF IInv, Harmed, Cipher
<1>4. CASE mode \in {"ECB", "OFB"}
  <2>1. Synced(next)
    <3>1. RecoversAt = harm.at + 1  BY <1>4 DEF RecoversAt
    <3>2. QED  BY <1>1, <1>4, <3>1 DEF Synced
  <2>2. iv = v  BY <2>1 DEF IInv, Harmed
  <2>3. QED  BY <1>2, <1>4, <2>2 DEF DecryptIv, EncryptIv
<1>5. CASE mode \in {"CBC", "CFB"}
  <2>1. next # harm.at
    <3>1. RecoversAt = harm.at + 2  BY <1>5 DEF RecoversAt
    <3>2. QED  BY <1>1, <3>1 DEF Synced
  <2>2. QED  BY <1>2, <1>3, <1>5, <2>1 DEF DecryptIv, EncryptIv
<1>6. CASE mode = "PCBC"
  <2>1. next < harm.at  BY <1>1, <1>6 DEF Synced
  <2>2. Synced(next) /\ next # harm.at  BY <1>1, <2>1 DEF Synced
  <2>3. iv = v  BY <2>2 DEF IInv, Harmed
  <2>4. QED  BY <1>1, <1>2, <1>3, <2>2, <2>3, BlockRoundTrip
<1>7. QED  BY <1>1, <1>4, <1>5, <1>6 DEF Modes, PaddedModes, StreamModes

LEMMA DecryptFullHarmed ==
  ASSUME IInv, DecryptFull, ChainInv'
  PROVE  Harmed' /\ Propagation' /\ CutIsPrefix'
<1> DEFINE N == Len(message.blocks)
           b == input.blocks[next]
           p == decrypt_block(mode, iv, b)
           k == Len(input.blocks) - next + 1
<1>t. /\ ChainInv /\ mode \in Modes /\ iv \in Block /\ N \in Nat /\ next \in Nat /\ next >= 1
      /\ input.blocks \in Seq(Block) /\ Len(input.blocks) \in Nat
      /\ Len(input.tail) \in 0 .. BlockLen - 1 /\ output.blocks \in Seq(Block)
      /\ Len(ivs) \in Nat /\ harm.at \in Nat /\ harm.kind \in {"none", "altered", "cut"}
  BY Types, BlocksOfMessage DEF IInv
<1>1. /\ phase = "decrypt" /\ phase' = "decrypt" /\ remaining > BlockLen
      /\ output' = [output EXCEPT !.blocks = Append(output.blocks, p)]
      /\ iv' = DecryptIv(mode, iv, b) /\ next' = next + 1
      /\ mode' = mode /\ message' = message /\ iv0' = iv0 /\ ivs' = ivs
      /\ input' = input /\ harm' = harm
  BY DEF DecryptFull, WriteBlock, given
<1>2. CutIsPrefix'  BY <1>1 DEF CutIsPrefix
<1>3. CASE harm.kind = "none"
  <2>1. Harmed'  BY <1>1, <1>3 DEF Harmed
  <2>2. Decrypting'  BY DEF ChainInv
  <2>3. Propagation'  BY <1>1, <1>3, <2>2 DEF Decrypting, Propagation
  <2>4. QED  BY <1>2, <2>1, <2>3
<1>4. CASE harm.kind # "none"
  <2>1. k >= 2 \/ (k = 1 /\ Len(input.tail) > 0)
    <3>1. k \in Int /\ k * BlockLen + Len(input.tail) > BlockLen
      BY <1>1, <1>t DEF remaining
    <3>2. QED  BY <1>t, <3>1, RemainingCases
  <2>2. /\ Len(ivs) = N + 1 /\ harm.at \in 1 .. (IF mode \in PaddedModes THEN Len(ivs) ELSE N)
        /\ Len(output.blocks) = next - 1 /\ output.tail = <<>>
        /\ harm.kind = "altered" =>
              IF mode \in PaddedModes THEN Len(input.blocks) = Len(ivs) /\ Len(input.tail) = 0
                                      ELSE Len(input.blocks) = N
        /\ harm.kind = "cut" => Len(input.blocks) = harm.at - 1
    BY <1>1, <1>4 DEF IInv, Harmed
  <2>3. next \in 1 .. Len(input.blocks) /\ next <= N
    <3>1. next <= Len(input.blocks)  BY <1>t, <2>1
    <3>2. CASE harm.kind = "altered"
      <4>1. CASE mode \in PaddedModes
        BY <1>t, <2>1, <2>2, <3>2, <4>1
      <4>2. CASE mode \notin PaddedModes
        BY <1>t, <2>2, <3>1, <3>2, <4>2
      <4>3. QED  BY <1>t, <3>1, <4>1, <4>2
    <3>3. CASE harm.kind = "cut"
      <4>1. harm.at <= N + 1  BY <1>t, <2>2
      <4>2. QED  BY <1>t, <2>2, <3>1, <3>3, <4>1
    <3>4. QED  BY <1>4, <1>t, <3>1, <3>2, <3>3
  <2>4. b \in Block /\ p \in Block
    <3>1. b \in Block  BY <1>t, <2>3
    <3>2. QED  BY <1>t, <3>1, BlockTypes
  <2>5. /\ output'.blocks = Append(output.blocks, p) /\ output'.tail = output.tail
        /\ Len(output'.blocks) = next
    <3>1. output \in Payload  BY DEF IInv, ChainInv, TypeOK
    <3>2. output'.blocks = Append(output.blocks, p) /\ output'.tail = output.tail
      BY <1>1, <3>1 DEF Payload
    <3>3. QED  BY <1>t, <2>2, <2>4, <3>2
  <2>6. Propagation'
    <3>1. next <= N /\ Spared(next) => p = message.blocks[next]
      BY <1>1, <1>4, <2>3, SparedBlock
    <3>2. QED  BY <1>1, <1>4, <2>4, <2>5, <3>1, OneMoreBlock
  <2>7. Harmed'
    <3>1. Synced(next)' = Synced(next + 1)  BY <1>1 DEF Synced, RecoversAt
    <3>2. Synced(next)' => iv' = ivs'[next']
      BY <1>1, <1>4, <2>3, <3>1, StaysSynced
    <3>3. \A i : Cipher(i)' = Cipher(i)  BY <1>1 DEF Cipher, Plain
    <3>4. \A i \in 1 .. Len(input'.blocks) : i # harm'.at => input'.blocks[i] = Cipher(i)'
      <4>1. \A i \in 1 .. Len(input.blocks) : i # harm.at => input.blocks[i] = Cipher(i)
        BY <1>1, <1>4 DEF IInv, Harmed
      <4>2. QED  BY <1>1, <3>3, <4>1
    <3>5. harm.kind = "cut" => (input.tail = First(Cipher(harm.at), Len(input.tail)))'
      <4>1. Cipher(harm.at)' = Cipher(harm.at)  BY <1>1 DEF Cipher, Plain
      <4>2. harm.kind = "cut" => input.tail = First(Cipher(harm.at), Len(input.tail))
        BY <1>1 DEF IInv, Harmed
      <4>3. QED  BY <1>1, <4>1, <4>2
    <3>6. next' \in 1 .. Len(ivs') /\ next' <= Len(input'.blocks) + 1 /\ Len(output'.blocks) = next' - 1
      BY <1>t, <1>1, <2>2, <2>3, <2>5
    <3>7. QED  BY <1>1, <1>4, <2>2, <2>5, <3>2, <3>4, <3>5, <3>6 DEF Harmed
  <2>8. QED  BY <1>2, <2>6, <2>7
<1>5. QED  BY <1>3, <1>4

(* What the end of a decryption writes, and that a stream mode always gets there. *)
LEMMA FinishEffect ==
  ASSUME ChainInv, NEW p \in Block, Finish(p), remaining \in 0 .. BlockLen
  PROVE  /\ output'.blocks \in {output.blocks, Append(output.blocks, p)}
         /\ mode \in StreamModes /\ remaining = BlockLen =>
               output'.blocks = Append(output.blocks, p) /\ output'.tail = output.tail
         /\ mode \in StreamModes /\ remaining < BlockLen =>
               output'.blocks = output.blocks /\ output'.tail = First(p, remaining)
<1>1. output \in Payload  BY DEF ChainInv, TypeOK
<1>2. CASE mode \in PaddedModes /\ padlen(p) > BlockLen
  <2>1. mode \notin StreamModes  BY <1>2 DEF PaddedModes, StreamModes
  <2>2. QED  BY <1>2, <2>1 DEF Finish
<1>3. CASE ~(mode \in PaddedModes /\ padlen(p) > BlockLen)
  <2> DEFINE n == IF mode \in PaddedModes THEN BlockLen - padlen(p) ELSE remaining
  <2>1. WriteLast(p, n)  BY <1>3 DEF Finish
  <2>2. padlen(p) \in Nat
    <3>1. BlockLen \in 1 .. BlockLen  BY BlockLenAssumption
    <3>2. p[BlockLen] \in Byte  BY <3>1 DEF Block
    <3>3. QED  BY <3>2, ByteAssumption DEF padlen
  <2>3. n \in 0 .. BlockLen  BY <1>3, <2>2, BlockLenAssumption
  <2>4. mode \in StreamModes => n = remaining  BY DEF PaddedModes, StreamModes
  <2> HIDE DEF n
  <2>5. n = BlockLen \/ n < BlockLen  BY <2>3, BlockLenAssumption
  <2>6. /\ n = BlockLen => output'.blocks = Append(output.blocks, p) /\ output'.tail = output.tail
        /\ n < BlockLen => output'.blocks = output.blocks /\ output'.tail = First(p, n)
    BY <1>1, <2>1, <2>3, WriteLastEffect
  <2>7. QED  BY <2>4, <2>5, <2>6
<1>4. QED  BY <1>2, <1>3

(* A sequence that agrees with the beginning of another is that beginning. *)
LEMMA IsBeginning ==
  ASSUME NEW m \in Seq(Block), NEW s \in Seq(Block), NEW n \in Nat, n <= Len(m),
         Len(s) = n, \A i \in 1 .. n : s[i] = m[i]
  PROVE  s = SubSeq(m, 1, n)
OBVIOUS

(* A stream mode decrypts the bytes of a tail one by one. *)
LEMMA StreamTail ==
  ASSUME NEW m \in StreamModes, NEW v, NEW b \in Block, NEW e \in Block, NEW n \in 0 .. BlockLen - 1,
         First(b, n) = First(e, n)
  PROVE  First(decrypt_block(m, v, b), n) = First(decrypt_block(m, v, e), n)
<1>1. \A i \in 1 .. n : b[i] = e[i]
  <2>1. ASSUME NEW i \in 1 .. n PROVE b[i] = e[i]
    <3>1. First(b, n)[i] = b[i] /\ First(e, n)[i] = e[i]  BY DEF First
    <3>2. QED  BY <3>1
  <2>2. QED  BY <2>1
<1>2. \A x : decrypt_block(m, v, x) = XorBlocks(encrypt_fun(v), x)
  BY DEF decrypt_block, StreamModes
<1>3. \A i \in 1 .. n : XorBlocks(encrypt_fun(v), b)[i] = XorBlocks(encrypt_fun(v), e)[i]
  BY <1>1, BlockLenAssumption DEF XorBlocks
<1>4. QED  BY <1>2, <1>3 DEF First

(* The end of the decryption of what was harmed, for the last block b. *)
LEMMA HarmedEnds ==
  ASSUME IInv, ChainInv', phase = "decrypt", harm.kind # "none", NEW b \in Block,
         NEW p \in Block, Finish(p), remaining \in 0 .. BlockLen,
         mode' = mode, message' = message, harm' = harm, input' = input,
         next <= Len(message.blocks) /\ Spared(next) => p = message.blocks[next],
         harm.kind = "cut" /\ mode \in StreamModes =>
            \/ next = harm.at - 1 /\ Len(input.tail) = 0 /\ remaining = BlockLen
            \/ /\ next = harm.at /\ remaining = Len(input.tail) /\ remaining < BlockLen
               /\ First(p, remaining) = First(message.blocks[harm.at], remaining)
  PROVE  Harmed' /\ Propagation' /\ CutIsPrefix'
<1> DEFINE N == Len(message.blocks)
<1>t. /\ ChainInv /\ mode \in Modes /\ N \in Nat /\ next \in Nat /\ next >= 1
      /\ message.blocks \in Seq(Block) /\ output.blocks \in Seq(Block) /\ harm.at \in Nat
      /\ output'.blocks \in Seq(Block)
  <2>1. output'.blocks \in Seq(Block)  BY DEF ChainInv, TypeOK, Payload
  <2>2. QED  BY <2>1, Types, BlocksOfMessage DEF IInv
<1>1. phase' \in {"done", "bad padding"}
  BY <1>t, FinishType
<1>2. Harmed'  BY <1>1 DEF Harmed
<1>3. Propagation'
  <2>1. output'.blocks \in {output.blocks, Append(output.blocks, p)}  BY <1>t, FinishEffect
  <2>2. QED  BY <2>1, OneMoreBlock
<1>4. ASSUME phase' = "done", harm.kind = "cut", mode \in StreamModes
      PROVE  /\ Len(output'.blocks) = harm.at - 1 /\ harm.at <= N
             /\ output'.blocks = SubSeq(message.blocks, 1, harm.at - 1)
             /\ output'.tail = First(message.blocks[harm.at], Len(input.tail))
  <2>1. Len(output.blocks) = next - 1 /\ output.tail = <<>> /\ harm.at \in 1 .. N
    <3>1. mode \notin PaddedModes  BY <1>4 DEF PaddedModes, StreamModes
    <3>2. QED  BY <3>1 DEF IInv, Harmed
  <2>2. Len(output'.blocks) = harm.at - 1
        /\ output'.tail = First(message.blocks[harm.at], Len(input.tail))
    <3>1. CASE next = harm.at - 1 /\ Len(input.tail) = 0 /\ remaining = BlockLen
      <4>1. output'.blocks = Append(output.blocks, p) /\ output'.tail = <<>>
        BY <1>t, <1>4, <2>1, <3>1, FinishEffect
      <4>2. Len(output'.blocks) = harm.at - 1  BY <1>t, <2>1, <3>1, <4>1
      <4>3. message.blocks[harm.at] \in Block  BY <1>t, <2>1
      <4>4. First(message.blocks[harm.at], 0) = <<>>
        BY <4>3, FirstIsPartial, BlockLenAssumption
      <4>5. QED  BY <3>1, <4>1, <4>2, <4>4
    <3>2. CASE /\ next = harm.at /\ remaining = Len(input.tail) /\ remaining < BlockLen
               /\ First(p, remaining) = First(message.blocks[harm.at], remaining)
      <4>1. output'.blocks = output.blocks /\ output'.tail = First(p, remaining)
        BY <1>t, <1>4, <3>2, FinishEffect
      <4>2. QED  BY <2>1, <3>2, <4>1
    <3>3. QED  BY <1>4, <3>1, <3>2
  <2>3. ASSUME NEW i \in 1 .. harm.at - 1 PROVE output'.blocks[i] = message.blocks[i]
    <3>1. i \in 1 .. Len(output'.blocks) /\ i <= N /\ i < harm.at  BY <1>t, <2>1, <2>2
    <3>2. Spared(i)'  BY <3>1 DEF Spared
    <3>3. QED  BY <1>3, <1>4, <3>1, <3>2 DEF Propagation
  <2>4. harm.at - 1 \in Nat /\ harm.at - 1 <= N  BY <1>t, <2>1
  <2>5. output'.blocks = SubSeq(message.blocks, 1, harm.at - 1)
    BY <1>t, <2>2, <2>3, <2>4, IsBeginning
  <2>6. QED  BY <2>1, <2>2, <2>5
<1>5. CutIsPrefix'  BY <1>4 DEF CutIsPrefix
<1>6. QED  BY <1>2, <1>3, <1>5

(* A message that came through whole is itself at the end, in every block. *)
LEMMA WholeEnds ==
  ASSUME ChainInv', harm'.kind = "none", phase' \in {"done", "bad padding"}
  PROVE  Harmed' /\ Propagation' /\ CutIsPrefix'
<1>1. phase' = "done" => output' = message'  BY DEF ChainInv, RoundTrip
<1>2. QED  BY <1>1 DEF Harmed, Propagation, CutIsPrefix

(* Where the index stands when a block or less of what was harmed remains. *)
LEMMA LastOfHarmed ==
  ASSUME IInv, phase = "decrypt", harm.kind # "none", next > Len(input.blocks)
  PROVE  /\ harm.kind = "cut" => next = harm.at
         /\ next <= Len(message.blocks) => ~Spared(next)
<1>1. /\ next <= Len(input.blocks) + 1 /\ next \in Nat /\ Len(input.blocks) \in Nat
      /\ Len(message.blocks) \in Nat /\ harm.at \in Nat /\ harm.kind \in {"altered", "cut"}
      /\ Len(ivs) = Len(message.blocks) + 1
      /\ harm.kind = "cut" => Len(input.blocks) = harm.at - 1
      /\ harm.kind = "altered" => Len(input.blocks) \in {Len(ivs), Len(message.blocks)}
  BY Types, BlocksOfMessage DEF IInv, Harmed
<1>2. harm.kind = "cut" => next = harm.at  BY <1>1
<1>3. harm.kind = "cut" => ~Spared(next)  BY <1>1, <1>2 DEF Spared
<1>4. harm.kind = "altered" => ~(next <= Len(message.blocks))  BY <1>1
<1>5. QED  BY <1>1, <1>2, <1>3, <1>4

LEMMA DecryptLastHarmed ==
  ASSUME IInv, DecryptLast, ChainInv'
  PROVE  Harmed' /\ Propagation' /\ CutIsPrefix'
<1> DEFINE N == Len(message.blocks)
<1>t. /\ ChainInv /\ mode \in Modes /\ iv \in Block /\ N \in Nat /\ next \in Nat /\ next >= 1
      /\ message.blocks \in Seq(Block) /\ input.blocks \in Seq(Block) /\ Len(input.blocks) \in Nat
      /\ Len(input.tail) \in 0 .. BlockLen - 1 /\ harm.at \in Nat /\ ivs \in Seq(Block)
  BY Types, BlocksOfMessage DEF IInv
<1>1. /\ phase = "decrypt" /\ remaining > 0 /\ remaining <= BlockLen
      /\ mode' = mode /\ message' = message /\ input' = input /\ harm' = harm
  BY DEF DecryptLast, given
<1>2. PICK b \in LastBlocks : Finish(decrypt_block(mode, iv, b))
  BY DEF DecryptLast
<1> DEFINE p == decrypt_block(mode, iv, b)
<1>3. b \in Block /\ p \in Block
  <2>1. b \in Block
    <3>1. next <= Len(input.blocks) => input.blocks[next] \in Block  BY <1>t
    <3>2. QED  BY <1>2, <3>1 DEF LastBlocks
  <2>2. QED  BY <1>t, <2>1, BlockTypes
<1>4. remaining \in 0 .. BlockLen
  <2>1. (Len(input.blocks) - next + 1) * BlockLen \in Int  BY <1>t, BlockLenAssumption
  <2>2. remaining \in Int  BY <1>t, <2>1, BlockLenAssumption DEF remaining
  <2>3. QED  BY <1>1, <2>2, BlockLenAssumption
<1>5. CASE harm.kind = "none"
  <2>1. phase' \in {"done", "bad padding"}  BY <1>t, <1>2, <1>3, <1>4, FinishType
  <2>2. QED  BY <1>1, <1>5, <2>1, WholeEnds
<1>6. CASE harm.kind # "none"
  <2>1. next <= Len(input.blocks) + 1  BY <1>1, <1>6 DEF IInv, Harmed
  <2>2. \/ Len(input.blocks) - next + 1 = 1 /\ Len(input.tail) = 0 /\ remaining = BlockLen
        \/ Len(input.blocks) - next + 1 = 0 /\ Len(input.tail) > 0 /\ remaining = Len(input.tail)
    BY <1>t, <2>1, LastCases
  <2>3. next <= N /\ Spared(next) => p = message.blocks[next]
    <3>1. CASE next <= Len(input.blocks)
      <4>1. b = input.blocks[next]  BY <1>2, <3>1 DEF LastBlocks
      <4>2. QED  BY <1>1, <1>6, <3>1, <4>1, SparedBlock
    <3>2. CASE ~(next <= Len(input.blocks))
      <4>1. next > Len(input.blocks)  BY <1>t, <3>2
      <4>2. QED  BY <1>1, <1>6, <4>1, LastOfHarmed
    <3>3. QED  BY <3>1, <3>2
  <2>4. ASSUME harm.kind = "cut", mode \in StreamModes
        PROVE  \/ next = harm.at - 1 /\ Len(input.tail) = 0 /\ remaining = BlockLen
               \/ /\ next = harm.at /\ remaining = Len(input.tail) /\ remaining < BlockLen
                  /\ First(p, remaining) = First(message.blocks[harm.at], remaining)
    <3>1. /\ Len(input.blocks) = harm.at - 1 /\ harm.at \in 1 .. N /\ Len(ivs) = N + 1
          /\ input.tail = First(Cipher(harm.at), Len(input.tail))
          /\ Synced(next) => iv = ivs[next]
      <4>1. mode \notin PaddedModes  BY <2>4 DEF PaddedModes, StreamModes
      <4>2. QED  BY <1>1, <2>4, <4>1 DEF IInv, Harmed
    <3>2. CASE Len(input.blocks) - next + 1 = 1 /\ Len(input.tail) = 0 /\ remaining = BlockLen
      BY <1>t, <3>1, <3>2
    <3>3. CASE Len(input.blocks) - next + 1 = 0 /\ Len(input.tail) > 0 /\ remaining = Len(input.tail)
      <4>1. next = harm.at /\ ~(next <= Len(input.blocks)) /\ next \in 1 .. N
        BY <1>t, <3>1, <3>3
      <4>2. First(b, Len(input.tail)) = First(Cipher(harm.at), Len(input.tail))
        BY <1>2, <3>1, <4>1 DEF LastBlocks
      <4>3. iv = ivs[next]  BY <1>t, <3>1, <4>1 DEF Synced
      <4>4. Plain(next) = message.blocks[next] /\ Plain(next) \in Block
        BY <1>t, <4>1 DEF Plain
      <4>5. Cipher(next) \in Block /\ decrypt_block(mode, iv, Cipher(next)) = message.blocks[next]
        <5>1. Cipher(next) = encrypt_block(mode, iv, Plain(next))  BY <4>3 DEF Cipher
        <5>2. /\ encrypt_block(mode, iv, Plain(next)) \in Block
              /\ decrypt_block(mode, iv, encrypt_block(mode, iv, Plain(next))) = Plain(next)
          BY <1>t, <4>4, BlockTypes, BlockRoundTrip
        <5>3. QED  BY <4>4, <5>1, <5>2
      <4>6. First(p, Len(input.tail)) = First(message.blocks[next], Len(input.tail))
        BY <1>t, <1>3, <2>4, <4>1, <4>2, <4>5, StreamTail
      <4>7. remaining < BlockLen  BY <1>t, <3>3, BlockLenAssumption
      <4>8. QED  BY <3>3, <4>1, <4>6, <4>7
    <3>4. QED  BY <2>2, <3>2, <3>3
  <2>5. QED  BY <1>1, <1>2, <1>3, <1>4, <1>6, <2>3, <2>4, HarmedEnds
<1>7. QED  BY <1>5, <1>6

LEMMA DecryptEmptyHarmed ==
  ASSUME IInv, DecryptEmpty, ChainInv'
  PROVE  Harmed' /\ Propagation' /\ CutIsPrefix'
<1>t. /\ ChainInv /\ next \in Nat /\ next >= 1 /\ Len(input.blocks) \in Nat
      /\ Len(input.tail) \in 0 .. BlockLen - 1 /\ message.blocks \in Seq(Block)
      /\ Len(message.blocks) \in Nat
  BY Types DEF IInv
<1>1. /\ phase = "decrypt" /\ remaining = 0
      /\ mode' = mode /\ message' = message /\ input' = input /\ harm' = harm
  BY DEF DecryptEmpty, given
<1>2. PICK b \in Block : Finish(b)  BY DEF DecryptEmpty
<1>3. remaining \in 0 .. BlockLen /\ 0 < BlockLen  BY <1>1, BlockLenAssumption
<1>4. Len(input.blocks) - next + 1 = 0 /\ Len(input.tail) = 0
  <2> DEFINE k == Len(input.blocks) - next + 1
  <2>1. k \in Int /\ k * BlockLen + Len(input.tail) = 0  BY <1>1, <1>t DEF remaining
  <2>2. QED  BY <1>t, <2>1, RemainingCases
<1>5. CASE harm.kind = "none"
  <2>1. phase' \in {"done", "bad padding"}  BY <1>t, <1>2, <1>3, FinishType
  <2>2. QED  BY <1>1, <1>5, <2>1, WholeEnds
<1>6. CASE harm.kind # "none"
  <2>1. next > Len(input.blocks)  BY <1>t, <1>4
  <2>2. /\ harm.kind = "cut" => next = harm.at
        /\ next <= Len(message.blocks) => ~Spared(next)
    BY <1>1, <1>6, <2>1, LastOfHarmed
  <2>3. ASSUME harm.kind = "cut", mode \in StreamModes
        PROVE  /\ next = harm.at /\ remaining = Len(input.tail) /\ remaining < BlockLen
               /\ First(b, remaining) = First(message.blocks[harm.at], remaining)
    <3>1. mode \notin PaddedModes  BY <2>3 DEF PaddedModes, StreamModes
    <3>2. harm.at \in 1 .. Len(message.blocks)  BY <1>1, <1>6, <3>1 DEF IInv, Harmed
    <3>3. message.blocks[harm.at] \in Block  BY <1>t, <3>2
    <3>4. First(b, 0) = <<>> /\ First(message.blocks[harm.at], 0) = <<>>
      BY <3>3, FirstIsPartial, BlockLenAssumption
    <3>5. QED  BY <1>1, <1>3, <1>4, <2>2, <2>3, <3>4
  <2>4. QED  BY <1>1, <1>2, <1>3, <1>6, <2>2, <2>3, HarmedEnds
<1>7. QED  BY <1>5, <1>6

(* The other steps leave the decryption, or have not reached it, or do nothing. *)
LEMMA StutterHarmed ==
  ASSUME IInv, UNCHANGED vars
  PROVE  Harmed' /\ Propagation' /\ CutIsPrefix'
<1>1. /\ mode' = mode /\ message' = message /\ iv0' = iv0 /\ ivs' = ivs /\ iv' = iv
      /\ next' = next /\ input' = input /\ output' = output /\ harm' = harm
      /\ phase' = phase
  BY DEF vars
<1>2. (\A i : Spared(i)' = Spared(i)) /\ (\A i : Cipher(i)' = Cipher(i)) /\ RecoversAt' = RecoversAt
  BY <1>1 DEF Spared, RecoversAt, Cipher, Plain
<1>3. Synced(next)' = Synced(next) /\ Cipher(harm.at)' = Cipher(harm.at)
  BY <1>1 DEF Synced, RecoversAt, Cipher, Plain
<1>4. Harmed'  BY <1>1, <1>2, <1>3 DEF IInv, Harmed
<1>5. Propagation'  BY <1>1, <1>2 DEF IInv, Propagation
<1>6. CutIsPrefix'  BY <1>1 DEF IInv, CutIsPrefix
<1>7. QED  BY <1>4, <1>5, <1>6

(* IInv holds in every state: every action of the two commands and of the way   *)
(* between them preserves it.                                                   *)
THEOREM Invariance == Spec => []IInv
<1>1. Init => IInv
  BY InitChain DEF Init, IInv, Harmed, Propagation, CutIsPrefix
<1>2. IInv /\ [Next]_vars => IInv'
  <2> SUFFICES ASSUME IInv, [Next]_vars PROVE IInv'  OBVIOUS
  <2>1. ChainInv  BY DEF IInv
  <2>2. CASE Encrypt
    <3>1. ChainInv'  BY <2>1, <2>2, EncryptFullChain, EncryptLastChain DEF Encrypt
    <3>2. phase' \in {"encrypt", "sent"}  BY <2>2 DEF Encrypt, EncryptFull, EncryptLast
    <3>3. QED  BY <3>1, <3>2 DEF IInv, Harmed, Propagation, CutIsPrefix
  <2>3. CASE Transmit
    BY <2>1, <2>3, TransmitChain, TransmitHarmed DEF IInv
  <2>4. CASE DecryptFull
    BY <2>1, <2>4, DecryptFullChain, DecryptFullHarmed DEF IInv
  <2>5. CASE DecryptLast
    BY <2>1, <2>5, DecryptLastChain, DecryptLastHarmed DEF IInv
  <2>6. CASE DecryptEmpty
    BY <2>1, <2>6, DecryptEmptyChain, DecryptEmptyHarmed DEF IInv
  <2>7. CASE WriteFails
    <3>1. ChainInv' /\ phase' = "write error"
      BY <2>1, <2>7, WriteFailsChain DEF WriteFails
    <3>2. QED  BY <3>1 DEF IInv, Harmed, Propagation, CutIsPrefix
  <2>8. CASE Ended \/ UNCHANGED vars
    BY <2>1, <2>8, StutterChain, StutterHarmed DEF IInv, Ended
  <2>9. QED  BY <2>2, <2>3, <2>4, <2>5, <2>6, <2>7, <2>8 DEF Next, Decrypt
<1>3. QED  BY <1>1, <1>2, PTL DEF Spec

(* What was encrypted and not harmed on its way is decrypted to itself, in every *)
(* mode, for every message.                                                     *)
THEOREM RoundTripHolds == Spec => []RoundTrip
<1>1. IInv => RoundTrip  BY DEF IInv, ChainInv
<1>2. QED  BY <1>1, Invariance, PTL

(* The padding of an unharmed ciphertext is never refused. *)
THEOREM PaddingAcceptedHolds == Spec => []PaddingAccepted
<1>1. IInv => PaddingAccepted  BY DEF IInv, ChainInv
<1>2. QED  BY <1>1, Invariance, PTL

(* Encryption and decryption walk the same chain of initialisation vectors. *)
THEOREM IvSyncHolds == Spec => []IvSync
<1>1. IInv => IvSync  BY DEF IInv, ChainInv, Decrypting, IvSync
<1>2. QED  BY <1>1, Invariance, PTL

(* An altered block spoils itself, and in CBC and CFB the next one, and in PCBC  *)
(* all that follow; what the end of a lost ciphertext held spoils nothing before. *)
THEOREM PropagationHolds == Spec => []Propagation
<1>1. IInv => Propagation  BY DEF IInv
<1>2. QED  BY <1>1, Invariance, PTL

(* Of a ciphertext that lost its end, a stream mode gives back a beginning of the *)
(* message, to the byte, whatever lies in memory behind the payload.             *)
THEOREM CutIsPrefixHolds == Spec => []CutIsPrefix
<1>1. IInv => CutIsPrefix  BY DEF IInv
<1>2. QED  BY <1>1, Invariance, PTL

(* Every variable keeps its type, whatever the ciphertext became on its way. *)
THEOREM TypeCorrect == Spec => []TypeOK
<1>1. IInv => TypeOK  BY DEF IInv, ChainInv
<1>2. QED  BY <1>1, Invariance, PTL
=============================================================================
