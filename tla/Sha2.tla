-------------------------------- MODULE Sha2 --------------------------------
(***************************************************************************)
(* SHA-224, SHA-256 and SHA-512: add_*_block, one round per step, on the   *)
(* blocks that Digest hands it.                                            *)
(***************************************************************************)
EXTENDS Digest, Words

CONSTANTS Constants,    \* the table of the rounds, which says how many there are
          InitState,    \* init_state
          Shifts        \* the rotations and shifts, which differ with the width

Rounds == Len(Constants)

VARIABLES
    state,      \* the digest so far
    new_state,  \* the local copy of it
    w,          \* the schedule, as far as it was computed
    i           \* the rounds that are done

vars == <<dvars, state, new_state, w, i>>

ShaInit == /\ Init
           /\ state = [n \in 1 .. 8 |-> Word(InitState[n])]
           /\ new_state = <<>> /\ w = <<>> /\ i = 0

\* hash_buff_* calls add_*_block.
Call == /\ FullBlock \/ Pad \/ Second
        /\ UNCHANGED <<state, new_state, w, i>>

Copy == /\ block # <<>> /\ w = <<>>
        /\ new_state' = state
        /\ w' = [n \in 1 .. 16 |-> HighFirst(block, n, BlockLen \div 2)]
        /\ UNCHANGED <<dvars, state, i>>

\* Two rotations and a shift, and three rotations.
small(x, by) == Xor(Xor(right_rotate(x, by[1]), right_rotate(x, by[2])), ShiftRight(x, by[3]))
large(x, by) == Xor(Xor(right_rotate(x, by[1]), right_rotate(x, by[2])), right_rotate(x, by[3]))

\* Fault: the word before last is taken where the one before it is meant.
ExtendWrongWord ==
    /\ block # <<>> /\ w # <<>> /\ Len(w) < Rounds
    /\ LET n == Len(w) + 1
           s0 == small(w[n - 15], Shifts.w0)
           s1 == small(w[n - 1], Shifts.w1)
       IN  w' = Append(w, Sum(<<w[n - 16], s0, w[n - 7], s1>>))
    /\ UNCHANGED <<dvars, state, new_state, i>>

Extend ==
    /\ block # <<>> /\ w # <<>> /\ Len(w) < Rounds
    /\ LET n == Len(w) + 1
           s0 == small(w[n - 15], Shifts.w0)
           s1 == small(w[n - 2], Shifts.w1)
       IN  w' = Append(w, Sum(<<w[n - 16], s0, w[n - 7], s1>>))
    /\ UNCHANGED <<dvars, state, new_state, i>>

Choose(x, y, z) == Xor(And(x, y), And(Not(x), z))
Majority(x, y, z) == Xor(Xor(And(x, y), And(x, z)), And(y, z))

Round ==
    /\ block # <<>> /\ Len(w) = Rounds /\ i < Rounds
    /\ LET s == new_state
           tmp1 == Sum(<<s[8], large(s[5], Shifts.s1), Choose(s[5], s[6], s[7]),
                         Word(Constants[i + 1]), w[i + 1]>>)
           tmp2 == Sum(<<large(s[1], Shifts.s0), Majority(s[1], s[2], s[3])>>)
       IN  new_state' = <<Sum(<<tmp1, tmp2>>), s[1], s[2], s[3], Sum(<<s[4], tmp1>>), s[5], s[6], s[7]>>
    /\ i' = i + 1
    /\ UNCHANGED <<dvars, state, w>>

\* The end of add_*_block.
AddUp ==
    /\ i = Rounds
    /\ state' = [n \in 1 .. 8 |-> Sum(<<state[n], new_state[n]>>)]
    /\ new_state' = <<>> /\ w' = <<>> /\ i' = 0
    /\ Absorb

ShaReturned == Returned /\ UNCHANGED <<state, new_state, w, i>>

Step == Call \/ Copy \/ Extend \/ Round \/ AddUp
ShaNext == Step \/ ShaReturned
=============================================================================
