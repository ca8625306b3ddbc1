-------------------------------- MODULE Des3 --------------------------------
(***************************************************************************)
(* Triple DES (srcs/des3.c) on the first block of a message, in the five   *)
(* modes: what des3_encode writes is handed to des3_decode, with the same  *)
(* options, and each call of the cipher goes through its three stages.     *)
(*                                                                         *)
(* DES is any family of permutations; DesProofs shows that the one of des.c*)
(* satisfies DesAssumption.  The password path is left to Session.         *)
(***************************************************************************)
EXTENDS Integers

CONSTANTS Block, Key, BlockXor(_, _),
          des_algo_encrypt(_, _), des_algo_decrypt(_, _)

ASSUME DesAssumption ==
    \A b \in Block, k \in Key :
        /\ des_algo_encrypt(b, k) \in Block
        /\ des_algo_decrypt(b, k) \in Block
        /\ des_algo_decrypt(des_algo_encrypt(b, k), k) = b
        /\ des_algo_encrypt(des_algo_decrypt(b, k), k) = b
ASSUME XorAssumption ==
    \A a, b \in Block : BlockXor(a, b) \in Block /\ BlockXor(BlockXor(a, b), b) = a

\* des3_encode and des3_decode ask for padding in these modes; they are also the
\* ones in which cipher.c decrypts with decrypt_fun.
Chained == {"ECB", "CBC", "PCBC"}
Stream == {"CFB", "OFB"}

VARIABLES
    enc_mode, keys, iv, plain,  \* what the two commands are given
    call,       \* "encode", "decode" or "done"
    stage,      \* how many of the three stages are done
    block,      \* the block in des3_algo_encrypt or des3_algo_decrypt
    cipher,     \* history: what des3_encode wrote
    result      \* history: what des3_decode wrote

vars == <<enc_mode, keys, iv, plain, call, stage, block, cipher, result>>

\* What cipher.c hands to the cipher for the first block, and what it makes of
\* the answer, in an encryption and in a decryption.
EncodeInput == CASE enc_mode = "ECB" -> plain
                 [] enc_mode \in {"CBC", "PCBC"} -> BlockXor(plain, iv)
                 [] enc_mode \in Stream -> iv
EncodeOutput(b) == IF enc_mode \in Stream THEN BlockXor(plain, b) ELSE b
DecodeInput(c) == IF enc_mode \in Stream THEN iv ELSE c
DecodeOutput(b) == CASE enc_mode = "ECB" -> b
                     [] enc_mode \in {"CBC", "PCBC"} -> BlockXor(b, iv)
                     [] enc_mode \in Stream -> BlockXor(cipher, b)

Init == /\ enc_mode \in Chained \cup Stream
        /\ keys \in [0 .. 2 -> Key]
        /\ iv \in Block
        /\ plain \in Block
        /\ call = "encode"
        /\ stage = 0
        /\ block = EncodeInput
        /\ cipher = plain
        /\ result = plain

-----------------------------------------------------------------------------
\* Fault: a stream mode decodes with decrypt_fun.
EncryptsToEncode == call = "encode"

\* Which of the two functions of the cipher context runs.
Encrypts == call = "encode" \/ enc_mode \in Stream

des3_algo_encrypt ==
    block' = IF stage = 1 THEN des_algo_decrypt(block, keys[stage])
                          ELSE des_algo_encrypt(block, keys[stage])
\* Fault: three decryptions.
des3_algo_decrypt_all == block' = des_algo_decrypt(block, keys[stage])

\* The keys are taken in the same order as in an encryption.
des3_algo_decrypt ==
    block' = IF stage = 1 THEN des_algo_encrypt(block, keys[stage])
                          ELSE des_algo_decrypt(block, keys[stage])

Stage ==
    /\ call \in {"encode", "decode"} /\ stage < 3
    /\ IF Encrypts THEN des3_algo_encrypt ELSE des3_algo_decrypt
    /\ stage' = stage + 1
    /\ UNCHANGED <<enc_mode, keys, iv, plain, call, cipher, result>>

Encoded ==
    /\ call = "encode" /\ stage = 3
    /\ cipher' = EncodeOutput(block)
    /\ block' = DecodeInput(cipher')
    /\ call' = "decode" /\ stage' = 0
    /\ UNCHANGED <<enc_mode, keys, iv, plain, result>>

Decoded ==
    /\ call = "decode" /\ stage = 3
    /\ result' = DecodeOutput(block)
    /\ call' = "done"
    /\ UNCHANGED <<enc_mode, keys, iv, plain, stage, block, cipher>>

Ended == call = "done" /\ UNCHANGED vars

Next == Stage \/ Encoded \/ Decoded \/ Ended
Spec == Init /\ [][Next]_vars

-----------------------------------------------------------------------------
TypeOK == /\ enc_mode \in Chained \cup Stream
          /\ keys \in [0 .. 2 -> Key]
          /\ {iv, plain, block, cipher, result} \subseteq Block
          /\ call \in {"encode", "decode", "done"}
          /\ stage \in 0 .. 3

\* The stream modes only ever encrypt, so they decode what they encode whatever
\* des3_algo_decrypt computes.
StreamRoundTrip == call = "done" /\ enc_mode \in Stream => result = plain

\* Two-key triple DES: with the first key used again as the third, the order of
\* the keys in des3_algo_decrypt does not matter and every mode decodes.
TwoKeyRoundTrip == call = "done" /\ keys[0] = keys[2] => result = plain

\* With one key three times, triple DES is DES: the data of a des command with
\* that key can be read.
SingleKeyIsDes ==
    call # "encode" /\ keys[0] = keys[1] /\ keys[1] = keys[2]
        => cipher = EncodeOutput(des_algo_encrypt(EncodeInput, keys[0]))

\* What the usage promises: the decode mode undoes the encode mode, with any key.
DecodeUndoesEncode == call = "done" => result = plain

\* The two calls walk the three stages in opposite directions when the first and
\* the third key are one: after s stages of the decryption the block is what it
\* was after 3 - s stages of the encryption.
Partial(s) ==
    LET e1 == des_algo_encrypt(EncodeInput, keys[0])
        e2 == des_algo_decrypt(e1, keys[1])
        e3 == des_algo_encrypt(e2, keys[2])
    IN  CASE s = 0 -> EncodeInput [] s = 1 -> e1 [] s = 2 -> e2 [] s = 3 -> e3

IInv ==
    /\ TypeOK
    /\ call = "encode" => block = Partial(stage)
    /\ call # "encode" => cipher = EncodeOutput(Partial(3))
    /\ call = "decode" /\ enc_mode \in Stream => block = Partial(stage)
    /\ call = "decode" /\ enc_mode \in Chained /\ keys[0] = keys[2]
          => block = Partial(3 - stage)
    /\ StreamRoundTrip /\ TwoKeyRoundTrip
=============================================================================
