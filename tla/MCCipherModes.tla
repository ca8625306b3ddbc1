---------------------------- MODULE MCCipherModes ----------------------------
(* CipherModes for TLC: blocks of two bytes of two bits.  The block cipher is *)
(* a permutation of the sixteen blocks that does not distribute over xor, so  *)
(* that no mode works by accident.                                            *)
EXTENDS CipherModes, Bitwise

MCByte == 0 .. 3
MCXor(a, b) == a ^^ b

Number(b) == 4 * b[1] + b[2]
ToBlock(n) == <<n \div 4, n % 4>>
MCEncrypt(b) == ToBlock((5 * Number(b) + 7) % 16)
MCDecrypt(b) == ToBlock((13 * (Number(b) + 9)) % 16)

SomeBlocks == {<<0, 0>>, <<1, 2>>, <<3, 1>>}
SomeTails == {<<>>, <<3>>}
MCMessages == {[blocks |-> bs, tail |-> t] :
                 bs \in {<<>>} \cup {<<b>> : b \in SomeBlocks} \cup
                        {<<<<1, 2>>, b>> : b \in SomeBlocks} \cup
                        {<<<<1, 2>>, <<0, 3>>, b>> : b \in SomeBlocks},
                 t \in SomeTails}
MCIVs == {<<0, 0>>, <<2, 1>>}
=============================================================================
