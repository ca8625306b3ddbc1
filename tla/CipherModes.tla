----------------------------- MODULE CipherModes -----------------------------
(***************************************************************************)
(* srcs/cipher.c: the five modes of operation (ECB, CBC, PCBC, CFB, OFB)   *)
(* that des.c and des3.c share, cipher_encrypt and cipher_decrypt.         *)
(*                                                                         *)
(* A message is encrypted by one command, handed over in a file or a pipe, *)
(* possibly damaged on the way, and decrypted by another command with the  *)
(* same key and the same initialisation vector.  The block cipher itself   *)
(* is a parameter: any pair of functions of which the second undoes the    *)
(* first (Des shows that for des.c, Des3 that des3.c may break it).        *)
(*                                                                         *)
(* A payload is its full blocks followed by a tail shorter than a block,   *)
(* which is how the loops walk it: ctx->payload is the index of the next   *)
(* block, ctx->remaining counts the bytes from there to the end.           *)
(***************************************************************************)
EXTENDS Integers, Sequences

CONSTANTS
    Byte,               \* the values of a byte
    BlockLen,           \* bytes in a block, 8 in the code
    ByteXor(_, _),      \* exclusive or of two bytes
    encrypt_fun(_),     \* ctx->encrypt_fun(block, ctx->data), the key fixed
    decrypt_fun(_),     \* ctx->decrypt_fun(block, ctx->data)
    Messages,           \* the payloads that are encrypted
    IVs,                \* the initialisation vectors in use
    MaxBlocks           \* bound on the number of full blocks of a message

Block == [1 .. BlockLen -> Byte]
Partial == UNION {[1 .. n -> Byte] : n \in 0 .. BlockLen - 1}
Payload == [blocks : Seq(Block), tail : Partial]

PaddedModes == {"ECB", "CBC", "PCBC"}
StreamModes == {"CFB", "OFB"}
Modes == PaddedModes \cup StreamModes

XorBlocks(a, b) == [i \in 1 .. BlockLen |-> ByteXor(a[i], b[i])]

ASSUME ByteAssumption == Byte \subseteq Nat /\ 0 .. BlockLen \subseteq Byte
ASSUME BlockLenAssumption == BlockLen \in Nat /\ BlockLen >= 1
ASSUME XorAssumption ==
    \A a, b \in Byte : /\ ByteXor(a, b) \in Byte
                       /\ ByteXor(a, b) = ByteXor(b, a)
                       /\ ByteXor(ByteXor(a, b), b) = a
ASSUME CipherAssumption ==
    \A b \in Block : /\ encrypt_fun(b) \in Block
                     /\ decrypt_fun(b) \in Block
                     /\ decrypt_fun(encrypt_fun(b)) = b
ASSUME MessagesAssumption ==
    /\ IVs \subseteq Block
    /\ MaxBlocks \in Nat
    /\ \A m \in Messages : m \in Payload /\ Len(m.blocks) <= MaxBlocks

-----------------------------------------------------------------------------
(* encrypt_block and decrypt_block: the block they return and the value they *)
(* leave in ctx->iv.                                                         *)

encrypt_block(mode, iv, block) ==
    CASE mode = "ECB"  -> encrypt_fun(block)
      [] mode = "CBC"  -> encrypt_fun(XorBlocks(block, iv))
      [] mode = "PCBC" -> encrypt_fun(XorBlocks(block, iv))
      [] mode = "CFB"  -> XorBlocks(encrypt_fun(iv), block)
      [] mode = "OFB"  -> XorBlocks(encrypt_fun(iv), block)

EncryptIv(mode, iv, block) ==
    CASE mode = "ECB"  -> iv
      [] mode = "CBC"  -> encrypt_block(mode, iv, block)
      [] mode = "PCBC" -> XorBlocks(block, encrypt_block(mode, iv, block))
      [] mode = "CFB"  -> encrypt_block(mode, iv, block)
      [] mode = "OFB"  -> encrypt_fun(iv)

decrypt_block(mode, iv, block) ==
    CASE mode = "ECB"  -> decrypt_fun(block)
      [] mode = "CBC"  -> XorBlocks(decrypt_fun(block), iv)
      [] mode = "PCBC" -> XorBlocks(decrypt_fun(block), iv)
      [] mode = "CFB"  -> XorBlocks(encrypt_fun(iv), block)
      [] mode = "OFB"  -> XorBlocks(encrypt_fun(iv), block)

\* Fault: CFB chains what it has decrypted.
DecryptIvFeedback(mode, iv, block) ==
    CASE mode = "ECB"  -> iv
      [] mode = "CBC"  -> block
      [] mode = "PCBC" -> XorBlocks(block, decrypt_block(mode, iv, block))
      [] mode = "CFB"  -> decrypt_block(mode, iv, block)
      [] mode = "OFB"  -> encrypt_fun(iv)

DecryptIv(mode, iv, block) ==
    CASE mode = "ECB"  -> iv
      [] mode = "CBC"  -> block
      [] mode = "PCBC" -> XorBlocks(block, decrypt_block(mode, iv, block))
      [] mode = "CFB"  -> block
      [] mode = "OFB"  -> encrypt_fun(iv)

\* Fault: every mode pads with 0.
PadTailZero(mode, t) ==
    [i \in 1 .. BlockLen |-> IF i <= Len(t) THEN t[i] ELSE 0]

\* The last block cipher_encrypt makes of the tail: every byte it lacks holds
\* how many it lacks, or 0 in the modes that write only the tail's length.
PadTail(mode, t) ==
    [i \in 1 .. BlockLen |->
        IF i <= Len(t) THEN t[i]
        ELSE IF mode \in PaddedModes THEN BlockLen - Len(t) ELSE 0]

First(block, n) == [i \in 1 .. n |-> block[i]]

\* Fault: the first byte of the last block is taken for the padding length.
padlenFirst(block) == block[1]

\* ctx->padlen of the decrypted block: its last byte.
padlen(block) == block[BlockLen]

-----------------------------------------------------------------------------
VARIABLES
    mode,       \* ctx->enc_mode
    message,    \* what was given to the first command
    iv0,        \* the initialisation vector both commands were given
    phase,      \* what is running, or how it ended
    iv,         \* ctx->iv of the command that is running
    next,       \* index of the block ctx->payload points at
    input,      \* the payload of the command that is running
    output,     \* what it has written to ctx->fd_out
    ivs,        \* history: ctx->iv of the encryption before each block
    harm        \* what the way did to the ciphertext: a kind and a block index

vars == <<mode, message, iv0, phase, iv, next, input, output, ivs, harm>>
given == <<mode, message, iv0>>

\* ctx->remaining, and the block the next memcpy reads.
remaining == (Len(input.blocks) - next + 1) * BlockLen + Len(input.tail)

Empty == [blocks |-> <<>>, tail |-> <<>>]
Unharmed == [kind |-> "none", at |-> 0]

WriteBlock(b) == output' = [output EXCEPT !.blocks = Append(@, b)]
\* The last write of a command: a whole block, or fewer bytes.
WriteLast(b, n) == IF n = BlockLen THEN WriteBlock(b)
                   ELSE output' = [output EXCEPT !.tail = First(b, n)]

Init == /\ mode \in Modes
        /\ message \in Messages
        /\ iv0 \in IVs
        /\ phase = "encrypt"
        /\ iv = iv0
        /\ next = 1
        /\ input = message
        /\ output = Empty
        /\ ivs = <<iv0>>
        /\ harm = Unharmed

\* Fault: the chaining value is not updated.
EncryptFullSameIv ==
    /\ phase = "encrypt" /\ remaining >= BlockLen
    /\ WriteBlock(encrypt_block(mode, iv, input.blocks[next]))
    /\ ivs' = Append(ivs, iv)
    /\ next' = next + 1
    /\ UNCHANGED <<given, phase, iv, input, harm>>

\* The loop of cipher_encrypt: while a full block remains.
EncryptFull ==
    /\ phase = "encrypt" /\ remaining >= BlockLen
    /\ LET block == input.blocks[next] IN
          /\ WriteBlock(encrypt_block(mode, iv, block))
          /\ iv' = EncryptIv(mode, iv, block)
          /\ ivs' = Append(ivs, iv')
    /\ next' = next + 1
    /\ UNCHANGED <<given, phase, input, harm>>

\* What follows it: the tail, even an empty one, is padded and encrypted.
EncryptLast ==
    /\ phase = "encrypt" /\ remaining < BlockLen
    /\ LET block == PadTail(mode, input.tail) IN
          /\ WriteLast(encrypt_block(mode, iv, block),
                       IF mode \in PaddedModes THEN BlockLen ELSE remaining)
          /\ iv' = EncryptIv(mode, iv, block)
    /\ phase' = "sent"
    /\ UNCHANGED <<given, next, input, ivs, harm>>

\* A write that fails ends the command with an error, whatever it was writing.
WriteFails ==
    /\ phase \in {"encrypt", "decrypt"}
    /\ phase' = "write error"
    /\ UNCHANGED <<given, iv, next, input, output, ivs, harm>>

\* The second command reads what the first wrote.  On the way one block may have
\* been altered, or the end lost (a full disk: a short write goes unnoticed).
Receive(ciphertext, harmed) ==
    /\ phase = "sent"
    /\ phase' = "decrypt"
    /\ input' = ciphertext
    /\ harm' = harmed
    /\ iv' = iv0
    /\ next' = 1
    /\ output' = Empty
    /\ UNCHANGED <<given, ivs>>

ReceiveIntact == Receive(output, Unharmed)

ReceiveAltered ==
    \E j \in 1 .. Len(output.blocks), b \in Block :
        /\ b # output.blocks[j]
        /\ Receive([output EXCEPT !.blocks[j] = b], [kind |-> "altered", at |-> j])

\* The full blocks before the j-th survive, and perhaps some bytes of it.
ReceiveCut ==
    \E j \in 1 .. Len(output.blocks), n \in 0 .. BlockLen - 1 :
        Receive([blocks |-> SubSeq(output.blocks, 1, j - 1),
                 tail |-> First(output.blocks[j], n)],
                [kind |-> "cut", at |-> j])

\* The loop of cipher_decrypt up to the last block, which is left to DecryptLast.
DecryptFull ==
    /\ phase = "decrypt" /\ remaining > BlockLen
    /\ LET block == input.blocks[next] IN
          /\ WriteBlock(decrypt_block(mode, iv, block))
          /\ iv' = DecryptIv(mode, iv, block)
    /\ next' = next + 1
    /\ UNCHANGED <<given, phase, input, ivs, harm>>

\* Fault: a stream mode writes all of its last block.
FinishWhole(block) ==
    IF mode \in PaddedModes /\ padlen(block) > BlockLen
    THEN phase' = "bad padding" /\ UNCHANGED output
    ELSE /\ phase' = "done"
         /\ WriteLast(block, IF mode \in PaddedModes
                             THEN BlockLen - padlen(block) ELSE BlockLen)

\* The end of cipher_decrypt, for the block in hand: a padded mode strips what the
\* last byte says, and refuses it if it says more than a block.
Finish(block) ==
    IF mode \in PaddedModes /\ padlen(block) > BlockLen
    THEN phase' = "bad padding" /\ UNCHANGED output
    ELSE /\ phase' = "done"
         /\ WriteLast(block, IF mode \in PaddedModes
                             THEN BlockLen - padlen(block) ELSE remaining)

\* A whole block is always copied from the payload; the bytes past the end of a
\* tail are whatever the memory behind it holds.
LastBlocks == IF next <= Len(input.blocks) THEN {input.blocks[next]}
              ELSE {b \in Block : First(b, Len(input.tail)) = input.tail}

DecryptLast ==
    /\ phase = "decrypt" /\ remaining > 0 /\ remaining <= BlockLen
    /\ \E block \in LastBlocks :
          /\ Finish(decrypt_block(mode, iv, block))
          /\ iv' = DecryptIv(mode, iv, block)
    /\ UNCHANGED <<given, next, input, ivs, harm>>

\* With an empty payload the loop does not run and block is not initialised.
DecryptEmpty ==
    /\ phase = "decrypt" /\ remaining = 0
    /\ \E block \in Block : Finish(block)
    /\ UNCHANGED <<given, iv, next, input, ivs, harm>>

Ended == phase \in {"done", "bad padding", "write error"} /\ UNCHANGED vars

Encrypt == EncryptFull \/ EncryptLast
Transmit == ReceiveIntact \/ ReceiveAltered \/ ReceiveCut
Decrypt == DecryptFull \/ DecryptLast \/ DecryptEmpty
Next == Encrypt \/ Transmit \/ Decrypt \/ WriteFails \/ Ended

Spec == Init /\ [][Next]_vars

-----------------------------------------------------------------------------
TypeOK == /\ mode \in Modes
          /\ message \in Payload
          /\ iv0 \in Block
          /\ phase \in {"encrypt", "sent", "decrypt", "done", "bad padding", "write error"}
          /\ iv \in Block
          /\ next \in Nat /\ next >= 1
          /\ input \in Payload
          /\ output \in Payload
          /\ ivs \in Seq(Block)
          /\ harm \in [kind : {"none", "altered", "cut"}, at : Nat]

\* A message that was not harmed on its way comes back as it was, in every mode,
\* whatever its length is modulo the block: empty, a whole number of blocks, or
\* one byte short of one.
RoundTrip == phase = "done" /\ harm.kind = "none" => output = message

\* ... and is never refused for its padding.
PaddingAccepted == phase = "bad padding" => harm.kind # "none"

\* The two commands walk the same chain: before each block the decryption holds the
\* value the encryption held before that block, however the mode computes it.
IvSync == phase = "decrypt" /\ harm.kind = "none" =>
             next \in 1 .. Len(ivs) /\ iv = ivs[next]

\* The first block of the message that an altered block of ciphertext cannot spoil.
\* PCBC never recovers; the modes that chain ciphertext lose the block after it too.
RecoversAt == CASE mode \in {"ECB", "OFB"} -> harm.at + 1
                [] mode \in {"CBC", "CFB"} -> harm.at + 2
                [] mode = "PCBC" -> MaxBlocks + 1

\* The blocks the harm done to the ciphertext cannot reach.
Spared(i) == \/ harm.kind = "none"
             \/ i < harm.at
             \/ harm.kind = "altered" /\ i >= RecoversAt

\* Damage stays where the mode confines it: every block before the harm, and every
\* block after its reach, is what was encrypted.
Propagation ==
    phase \in {"decrypt", "done"} =>
        \A i \in 1 .. Len(output.blocks) :
            i <= Len(message.blocks) /\ Spared(i) =>
                output.blocks[i] = message.blocks[i]

\* A stream mode reads past the end of a cut payload, but nothing it found there
\* is written: what was not lost of the message is still a prefix of it.
CutIsPrefix ==
    phase = "done" /\ harm.kind = "cut" /\ mode \in StreamModes =>
        /\ Len(output.blocks) = harm.at - 1 /\ harm.at <= Len(message.blocks)
        /\ output.blocks = SubSeq(message.blocks, 1, harm.at - 1)
        /\ output.tail = First(message.blocks[harm.at], Len(input.tail))

-----------------------------------------------------------------------------
(* The strengthening that makes RoundTrip inductive: the ciphertext, block by *)
(* block, in terms of the chaining values the encryption went through.        *)

\* The i-th block that is encrypted: of the message, and then the padded tail.
Plain(i) == IF i <= Len(message.blocks) THEN message.blocks[i]
            ELSE PadTail(mode, message.tail)

Chain == /\ Len(ivs) \in 1 .. Len(message.blocks) + 1
         /\ ivs[1] = iv0
         /\ \A i \in 1 .. Len(ivs) - 1 : ivs[i + 1] = EncryptIv(mode, ivs[i], Plain(i))

IsCiphertext(c) ==
    /\ Len(ivs) = Len(message.blocks) + 1
    /\ \A i \in 1 .. Len(c.blocks) : c.blocks[i] = encrypt_block(mode, ivs[i], Plain(i))
    /\ IF mode \in PaddedModes
       THEN Len(c.blocks) = Len(ivs) /\ c.tail = <<>>
       ELSE /\ Len(c.blocks) = Len(message.blocks)
            /\ c.tail = First(encrypt_block(mode, ivs[Len(ivs)], Plain(Len(ivs))),
                              Len(message.tail))

Encrypting == phase = "encrypt" =>
    /\ input = message
    /\ harm = Unharmed
    /\ next = Len(ivs) /\ iv = ivs[next]
    /\ Len(output.blocks) = next - 1 /\ output.tail = <<>>
    /\ \A i \in 1 .. next - 1 : output.blocks[i] = encrypt_block(mode, ivs[i], Plain(i))

Sent == phase = "sent" => IsCiphertext(output) /\ harm = Unharmed

Decrypting == phase = "decrypt" /\ harm.kind = "none" =>
    /\ IsCiphertext(input)
    /\ next \in 1 .. Len(ivs) /\ iv = ivs[next]
    /\ next <= Len(message.blocks) \/ mode \in PaddedModes \/
          message.tail # <<>> \/ message.blocks = <<>>
    /\ Len(output.blocks) = next - 1 /\ output.tail = <<>>
    /\ \A i \in 1 .. next - 1 : output.blocks[i] = message.blocks[i]

\* What both commands know of a message that came through whole.
ChainInv == /\ TypeOK /\ message \in Messages /\ Chain
            /\ Encrypting /\ Sent /\ Decrypting
            /\ RoundTrip /\ PaddingAccepted

\* The i-th block of the ciphertext as it was made.
Cipher(i) == encrypt_block(mode, ivs[i], Plain(i))

\* Before its i-th block a decryption of what was harmed has the encryption's value:
\* up to the harm, and again from where the mode recovers.
Synced(i) == \/ i <= harm.at
             \/ harm.kind = "altered" /\ mode # "PCBC" /\ i >= RecoversAt

Harmed == phase = "decrypt" /\ harm.kind # "none" =>
    /\ Len(ivs) = Len(message.blocks) + 1 /\ next \in 1 .. Len(ivs)
    /\ harm.at \in 1 .. (IF mode \in PaddedModes THEN Len(ivs) ELSE Len(message.blocks))
    /\ next <= Len(input.blocks) + 1
    /\ Synced(next) => iv = ivs[next]
    /\ Len(output.blocks) = next - 1 /\ output.tail = <<>>
    /\ \A i \in 1 .. Len(input.blocks) : i # harm.at => input.blocks[i] = Cipher(i)
    /\ harm.kind = "altered" =>
          IF mode \in PaddedModes THEN Len(input.blocks) = Len(ivs) /\ Len(input.tail) = 0
                                  ELSE Len(input.blocks) = Len(message.blocks)
    /\ harm.kind = "cut" => /\ Len(input.blocks) = harm.at - 1
                            /\ input.tail = First(Cipher(harm.at), Len(input.tail))

\* The inductive invariant: of messages that came through whole, and of the others.
IInv == ChainInv /\ Harmed /\ Propagation /\ CutIsPrefix
=============================================================================
