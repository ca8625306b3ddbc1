-------------------------------- MODULE Md5 ---------------------------------
(***************************************************************************)
(* MD5: add_md5_block, one round per step, on the blocks that Digest hands *)
(* it, and the change of byte order at the end of hash_buff_md5.           *)
(***************************************************************************)
EXTENDS Digest, Words, DigestTables

VARIABLES
    state,      \* the digest so far
    new_state,  \* the local copy of it, <<>> outside of add_md5_block
    i,          \* the rounds that are done
    reverted    \* whether the bytes of the digest are in the order they are printed in

vars == <<dvars, state, new_state, i, reverted>>

MdInit == /\ Init
          /\ state = [n \in 1 .. 4 |-> Word(Md5State[n])]
          /\ new_state = <<>> /\ i = 0 /\ reverted = FALSE

\* hash_buff_md5 calls add_md5_block.
Call == /\ FullBlock \/ Pad \/ Second
        /\ UNCHANGED <<state, new_state, i, reverted>>

Copy == /\ block # <<>> /\ new_state = <<>>
        /\ new_state' = state
        /\ UNCHANGED <<dvars, state, i, reverted>>

\* The function of a round, on all words of the state but the first, and the word of
\* the block it takes, from 0.
f(s) == CASE i \div 16 = 0 -> Or(And(s[2], s[3]), And(Not(s[2]), s[4]))
          [] i \div 16 = 1 -> Or(And(s[4], s[2]), And(Not(s[4]), s[3]))
          [] i \div 16 = 2 -> Xor(Xor(s[2], s[3]), s[4])
          [] i \div 16 = 3 -> Xor(s[3], Or(s[2], Not(s[4])))
g == CASE i \div 16 = 0 -> i
       [] i \div 16 = 1 -> (5 * i + 1) % 16
       [] i \div 16 = 2 -> (3 * i + 5) % 16
       [] i \div 16 = 3 -> (7 * i) % 16

Round ==
    /\ new_state # <<>> /\ i < 64
    /\ LET s == new_state
           sum == Sum(<<s[1], f(s), Word(Md5Constants[i + 1]), LowFirst(block, g + 1, 32)>>)
       IN  new_state' = <<s[4], Sum(<<left_rotate(sum, Rotates[i + 1]), s[2]>>), s[2], s[3]>>
    /\ i' = i + 1
    /\ UNCHANGED <<dvars, state, reverted>>

\* The end of add_md5_block.
AddUp == /\ i = 64
         /\ state' = [n \in 1 .. 4 |-> Sum(<<state[n], new_state[n]>>)]
         /\ new_state' = <<>> /\ i' = 0
         /\ Absorb
         /\ UNCHANGED reverted

\* The bytes of a word the other way round.
REVERT_ENDIANESS_32(x) == [n \in 1 .. 32 |-> x[32 - 8 * ((n - 1) \div 8 + 1) + ((n - 1) % 8) + 1]]
Revert == /\ pc = "done" /\ block = <<>> /\ ~reverted
          /\ state' = [n \in 1 .. 4 |-> REVERT_ENDIANESS_32(state[n])]
          /\ reverted' = TRUE
          /\ UNCHANGED <<dvars, new_state, i>>

MdReturned == Returned /\ reverted /\ UNCHANGED <<state, new_state, i, reverted>>

MdNext == Call \/ Copy \/ Round \/ AddUp \/ Revert \/ MdReturned
=============================================================================
