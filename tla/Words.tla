------------------------------- MODULE Words --------------------------------
(***************************************************************************)
(* Machine words as the digests use them (srcs/bitwise.c and the operators *)
(* of C): a word is the sequence of its bits, the highest first, and its   *)
(* length is 32 or 64.  Tables are written by half-words of 16 bits.       *)
(***************************************************************************)
EXTENDS Integers, Sequences, SequencesExt

Xor(x, y) == [i \in DOMAIN x |-> (x[i] + y[i]) % 2]
And(x, y) == [i \in DOMAIN x |-> x[i] * y[i]]
Or(x, y) == [i \in DOMAIN x |-> x[i] + y[i] - x[i] * y[i]]
Not(x) == [i \in DOMAIN x |-> 1 - x[i]]

right_rotate(x, n) == [i \in DOMAIN x |-> x[((i - 1 - n) % Len(x)) + 1]]
left_rotate(x, n) == [i \in DOMAIN x |-> x[((i - 1 + n) % Len(x)) + 1]]
ShiftRight(x, n) == [i \in DOMAIN x |-> IF i > n THEN x[i - n] ELSE 0]

\* A word from its half-words, and a half-word of a word.  TLC evaluates what SubSeq
\* returns once, and a function every time it is applied.
Bit(halves, i) == (halves[(i - 1) \div 16 + 1] \div 2 ^ (15 - ((i - 1) % 16))) % 2
Word(halves) == SubSeq([i \in 1 .. 16 * Len(halves) |-> Bit(halves, i)], 1, 16 * Len(halves))
Nibble(x, i) == x[i] * 8 + x[i + 1] * 4 + x[i + 2] * 2 + x[i + 3]
Half(x, k) == LET i == 16 * (k - 1) + 1
              IN  Nibble(x, i) * 4096 + Nibble(x, i + 4) * 256 + Nibble(x, i + 8) * 16 + Nibble(x, i + 12)

\* The sum of words, modulo 2 to the power of their length: half-words are added from
\* the lowest to the highest, with what the last sum carries.
Sum(words) ==
    LET halves(k) == FoldLeft(LAMBDA n, x : n + Half(x, k), 0, words)
        step(k, acc) == LET s == halves(k) + acc.carry
                        IN  [carry |-> s \div 65536, halves |-> <<s % 65536>> \o acc.halves]
    IN  Word(FoldRight(step, [k \in 1 .. Len(words[1]) \div 16 |-> k], [carry |-> 0, halves |-> <<>>]).halves)

\* The n-th word of w bits of a block, whose bytes are in memory the highest first or
\* the lowest first.
HighFirst(block, n, w) ==
    Word([h \in 1 .. w \div 16 |-> LET at == (n - 1) * (w \div 8) + 2 * h - 1
                                   IN  block[at] * 256 + block[at + 1]])
LowFirst(block, n, w) ==
    Word([h \in 1 .. w \div 16 |-> LET at == n * (w \div 8) - 2 * h + 1
                                   IN  block[at + 1] * 256 + block[at]])
=============================================================================
