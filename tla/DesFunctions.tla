---------------------------- MODULE DesFunctions ----------------------------
(***************************************************************************)
(* What DES in srcs/des.c computes on bits, over the tables it is given    *)
(* (DesTables has those of the code): permute and left_rotate28 of         *)
(* srcs/bitwise.c, and mangler_function.                                   *)
(*                                                                         *)
(* A block is the sequence of its bits in memory order, which is what      *)
(* htobe64 makes of it.                                                    *)
(***************************************************************************)
EXTENDS Integers, Sequences

CONSTANTS
    pc1, pc2, shifts,   \* the key schedule
    ip, fp,             \* the permutations around the rounds
    expp, sboxes, per,  \* the mangler function
    Cases               \* the pairs of a key and a block that are tried

Bit == {0, 1}
HalfLen == 4 * Len(sboxes)      \* 32 for the eight s-boxes of the code
BlockLen == 2 * HalfLen
Rounds == Len(shifts)

Half == [1 .. HalfLen -> Bit]
Bits == [1 .. BlockLen -> Bit]

\* What the tables must satisfy for a decryption to undo an encryption: their
\* sizes fit, and the final permutation is the inverse of the initial one.
ASSUME TablesAssumption ==
    /\ Len(sboxes) \in Nat
    /\ Rounds \in Nat
    /\ Len(ip) = BlockLen /\ Len(fp) = BlockLen /\ Len(per) = HalfLen
    /\ \A i \in 1 .. BlockLen : /\ ip[i] \in 1 .. BlockLen /\ fp[i] \in 1 .. BlockLen
                                /\ ip[fp[i]] = i /\ fp[ip[i]] = i
    /\ \A i \in 1 .. HalfLen : per[i] \in 1 .. HalfLen
ASSUME CasesAssumption == \A c \in Cases : c.block \in Bits

-----------------------------------------------------------------------------
permute(n, pt) == [i \in 1 .. Len(pt) |-> n[pt[i]]]
XorBits(a, b) == [i \in DOMAIN a |-> IF a[i] = b[i] THEN 0 ELSE 1]
FirstHalf(n) == [i \in 1 .. Len(n) \div 2 |-> n[i]]
SecondHalf(n) == [i \in 1 .. Len(n) \div 2 |-> n[i + Len(n) \div 2]]
\* Fault: the halves of the key rotate to the right.
rotate_right(n, off) == [i \in 1 .. Len(n) |-> n[1 + ((i - 1 + Len(n) - off) % Len(n))]]

left_rotate28(n, off) == [i \in 1 .. Len(n) |-> n[1 + ((i - 1 + off) % Len(n))]]

\* Six bits select the row (the outer two) and the column of an s-box.
Substitute(box, c) ==
    box[1 + 16 * (2 * c[1] + c[6]) + 8 * c[2] + 4 * c[3] + 2 * c[4] + c[5]]
mangler_function(right, key) ==
    LET mixed == XorBits(permute(right, expp), key)
        chunk(b) == [j \in 1 .. 6 |-> mixed[6 * (b - 1) + j]]
        nibble == [b \in 1 .. Len(sboxes) |-> Substitute(sboxes[b], chunk(b))]
        subst == [i \in 1 .. HalfLen |->
                    IF (nibble[1 + ((i - 1) \div 4)] \div <<8, 4, 2, 1>>[1 + ((i - 1) % 4)]) % 2 = 1
                    THEN 1 ELSE 0]
    IN  permute(subst, per)
=============================================================================
