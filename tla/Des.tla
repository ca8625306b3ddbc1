-------------------------------- MODULE Des --------------------------------
(***************************************************************************)
(* The block cipher of srcs/des.c: des_gen_keys, des_algo_encrypt and      *)
(* des_algo_decrypt.  Two calls are made in a row on one block with one    *)
(* key, an encryption and a decryption in either order, round by round.    *)
(***************************************************************************)
EXTENDS DesFunctions

VARIABLES
    order,      \* which of the two calls comes first
    given,      \* the key and the block
    round_keys, \* the round keys des_gen_keys has made so far
    des_call,   \* the call that is running: 1 or 2
    pc,         \* "keys", then "enter" and "rounds" of each call, "done"
    round,      \* the loop's index, i in the code
    bits, left, right,      \* the local variables of the function that runs
    between,    \* history: what the first call returned
    halves      \* history: <<left, right>> before each round of the first call

desvars == <<order, given, round_keys, des_call, pc, round, bits, left, right, between, halves>>

\* The round keys in the order of the code, or, in a decryption, backwards.
Forward == order = "encrypt first" <=> des_call = 1
\* Fault: a decryption takes the round keys in the order of an encryption.
RoundKeyForward == round_keys[1 + round]

RoundKey == IF Forward THEN round_keys[1 + round] ELSE round_keys[Rounds - round]

DesInit == /\ order \in {"encrypt first", "decrypt first"}
           /\ given \in Cases
           /\ round_keys = <<>>
           /\ des_call = 1
           /\ pc = "keys"
           /\ round = 0
           /\ bits = given.block
           /\ left = FirstHalf(permute(given.key, pc1))
           /\ right = SecondHalf(permute(given.key, pc1))
           /\ between = <<>>
           /\ halves = [n \in 0 .. Rounds |-> <<>>]

\* des_gen_keys: both halves of the key rotate, then a round key is picked.
GenKey ==
    /\ pc = "keys" /\ round < Rounds
    /\ left' = left_rotate28(left, shifts[round + 1])
    /\ right' = left_rotate28(right, shifts[round + 1])
    /\ round_keys' = Append(round_keys, permute(left' \o right', pc2))
    /\ round' = round + 1
    /\ UNCHANGED <<order, given, des_call, pc, bits, between, halves>>

KeysMade ==
    /\ pc = "keys" /\ round = Rounds
    /\ pc' = "enter"
    /\ UNCHANGED <<order, given, round_keys, des_call, round, bits, left, right, between, halves>>

\* The initial permutation, cut in two.
Enter ==
    /\ pc = "enter"
    /\ bits' = permute(bits, ip)
    /\ left' = FirstHalf(bits')
    /\ right' = SecondHalf(bits')
    /\ round' = 0
    /\ halves' = IF des_call = 1 THEN [halves EXCEPT ![0] = <<left', right'>>] ELSE halves
    /\ pc' = "rounds"
    /\ UNCHANGED <<order, given, round_keys, des_call, between>>

Round ==
    /\ pc = "rounds" /\ round < Rounds
    /\ right' = XorBits(mangler_function(right, RoundKey), left)
    /\ left' = right
    /\ round' = round + 1
    /\ halves' = IF des_call = 1 THEN [halves EXCEPT ![round + 1] = <<left', right'>>] ELSE halves
    /\ UNCHANGED <<order, given, round_keys, des_call, pc, bits, between>>

\* The halves are put back swapped, and the final permutation applied.
Leave ==
    /\ pc = "rounds" /\ round = Rounds
    /\ bits' = permute(right \o left, fp)
    /\ IF des_call = 1 THEN des_call' = 2 /\ pc' = "enter" /\ between' = bits'
                       ELSE pc' = "done" /\ UNCHANGED <<des_call, between>>
    /\ UNCHANGED <<order, given, round_keys, round, left, right, halves>>

DesEnded == pc = "done" /\ UNCHANGED desvars

DesNext == GenKey \/ KeysMade \/ Enter \/ Round \/ Leave \/ DesEnded
DesSpec == DesInit /\ [][DesNext]_desvars

-----------------------------------------------------------------------------
DesTypeOK == /\ order \in {"encrypt first", "decrypt first"}
             /\ given \in Cases
             /\ Len(round_keys) = IF pc = "keys" THEN round ELSE Rounds
             /\ des_call \in {1, 2}
             /\ pc \in {"keys", "enter", "rounds", "done"}
             /\ round \in 0 .. Rounds
             /\ bits \in Bits
             /\ pc = "rounds" => left \in Half /\ right \in Half
             /\ between = <<>> \/ between \in Bits
             /\ DOMAIN halves = 0 .. Rounds

\* Each of des_algo_encrypt and des_algo_decrypt undoes the other.
RoundTrip == pc = "done" => bits = given.block

\* The second call walks the rounds of the first backwards, with its halves
\* exchanged: it is the same network, and only the order of the keys differs.
Mirror == des_call = 2 /\ pc = "rounds" => halves[Rounds - round] = <<right, left>>

-----------------------------------------------------------------------------
(* The strengthening: the first call is a Feistel network whose halves are in *)
(* the history, and the second undoes it.                                     *)

\* The round key the first call uses in round i.
FirstKey(i) == IF order = "encrypt first" THEN round_keys[1 + i] ELSE round_keys[Rounds - i]

Network(n) ==
    LET start == permute(given.block, ip)
    IN  /\ halves[0] = <<FirstHalf(start), SecondHalf(start)>>
        /\ \A i \in 0 .. n : halves[i] \in Half \X Half
        /\ \A i \in 0 .. n - 1 :
              halves[i + 1] = <<halves[i][2],
                                XorBits(mangler_function(halves[i][2], FirstKey(i)), halves[i][1])>>

Control == /\ order \in {"encrypt first", "decrypt first"}
           /\ given \in Cases
           /\ des_call \in {1, 2}
           /\ pc \in {"keys", "enter", "rounds", "done"}
           /\ pc = "keys" => des_call = 1
           /\ pc = "done" => des_call = 2
           /\ round \in 0 .. Rounds
           /\ halves \in [0 .. Rounds -> {<<>>} \cup (Half \X Half)]

FirstCall == des_call = 1 => /\ pc \in {"keys", "enter"} => bits = given.block
                             /\ pc = "rounds" => Network(round) /\ halves[round] = <<left, right>>

SecondCall == des_call = 2 =>
    /\ Network(Rounds)
    /\ pc = "enter" => bits = permute(halves[Rounds][2] \o halves[Rounds][1], fp)

DesIInv == Control /\ FirstCall /\ SecondCall /\ Mirror /\ RoundTrip
=============================================================================
