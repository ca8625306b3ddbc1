\* Triple DES with every key triple out of four permutations, every block and every IV;
\* DES with the tables of des.c, twenty keys and blocks, both orders of the two calls.
SPECIFICATION CipherSpec
CONSTANTS
    Block <- MCBlock
    Key <- MCKey
    BlockXor <- MCXor
    des_algo_encrypt <- MCEncrypt
    des_algo_decrypt <- MCDecrypt
    pc1 <- des_pc1
    pc2 <- des_pc2
    shifts <- des_shifts
    ip <- des_ip
    fp <- des_fp
    expp <- des_expp
    sboxes <- des_sboxes
    per <- des_per
    Cases <- MCCases
INVARIANTS
    RoundTrip
    KnownAnswer
    StreamRoundTrip
    TwoKeyRoundTrip
