------------------------------- MODULE MCDes3 -------------------------------
(* Triple DES for TLC: a block is one of four values and a key one of the four *)
(* permutations below, of which no two but the identity and another commute.   *)
EXTENDS Des3, Bitwise

MCBlock == 0 .. 3
MCXor(a, b) == a ^^ b

Table == [identity |-> <<0, 1, 2, 3>>, swap |-> <<1, 0, 2, 3>>,
          turn |-> <<1, 2, 3, 0>>, three |-> <<0, 2, 3, 1>>]
MCKey == DOMAIN Table
MCEncrypt(b, k) == Table[k][b + 1]
MCDecrypt(b, k) == (CHOOSE i \in 1 .. 4 : Table[k][i] = b) - 1
=============================================================================
