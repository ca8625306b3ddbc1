------------------------------ MODULE MCCiphers ------------------------------
(* DES and triple DES for TLC, one of them in a behaviour.  DES has the tables  *)
(* of the code, on published known answers: the nineteen substitution table     *)
(* tests of NBS Special Publication 500-20, made so that a wrong entry in an    *)
(* s-box or a permutation changes an answer, and one more.                      *)
EXTENDS MCDes3, Des, DesTables

\* The 64 bits of four 16-bit words, the most significant first.
BitsOf(words) ==
    [n \in 1 .. 64 |->
        (words[1 + ((n - 1) \div 16)] \div (2 ^ (15 - ((n - 1) % 16)))) % 2]

KnownAnswers == {
    [key |-> <<\h7CA1, \h1045, \h4A1A, \h6E57>>,
     plain |-> <<\h01A1, \hD6D0, \h3977, \h6742>>,
     cipher |-> <<\h690F, \h5B0D, \h9A26, \h939B>>],
    [key |-> <<\h0131, \hD961, \h9DC1, \h376E>>,
     plain |-> <<\h5CD5, \h4CA8, \h3DEF, \h57DA>>,
     cipher |-> <<\h7A38, \h9D10, \h354B, \hD271>>],
    [key |-> <<\h07A1, \h133E, \h4A0B, \h2686>>,
     plain |-> <<\h0248, \hD438, \h06F6, \h7172>>,
     cipher |-> <<\h868E, \hBB51, \hCAB4, \h599A>>],
    [key |-> <<\h3849, \h674C, \h2602, \h319E>>,
     plain |-> <<\h5145, \h4B58, \h2DDF, \h440A>>,
     cipher |-> <<\h7178, \h876E, \h01F1, \h9B2A>>],
    [key |-> <<\h04B9, \h15BA, \h43FE, \hB5B6>>,
     plain |-> <<\h42FD, \h4430, \h5957, \h7FA2>>,
     cipher |-> <<\hAF37, \hFB42, \h1F8C, \h4095>>],
    [key |-> <<\h0113, \hB970, \hFD34, \hF2CE>>,
     plain |-> <<\h059B, \h5E08, \h51CF, \h143A>>,
     cipher |-> <<\h86A5, \h60F1, \h0EC6, \hD85B>>],
    [key |-> <<\h0170, \hF175, \h468F, \hB5E6>>,
     plain |-> <<\h0756, \hD8E0, \h7747, \h61D2>>,
     cipher |-> <<\h0CD3, \hDA02, \h0021, \hDC09>>],
    [key |-> <<\h4329, \h7FAD, \h38E3, \h73FE>>,
     plain |-> <<\h7625, \h14B8, \h29BF, \h486A>>,
     cipher |-> <<\hEA67, \h6B2C, \hB7DB, \h2B7A>>],
    [key |-> <<\h07A7, \h1370, \h45DA, \h2A16>>,
     plain |-> <<\h3BDD, \h1190, \h4937, \h2802>>,
     cipher |-> <<\hDFD6, \h4A81, \h5CAF, \h1A0F>>],
    [key |-> <<\h0468, \h9104, \hC2FD, \h3B2F>>,
     plain |-> <<\h2695, \h5F68, \h35AF, \h609A>>,
     cipher |-> <<\h5C51, \h3C9C, \h4886, \hC088>>],
    [key |-> <<\h37D0, \h6BB5, \h16CB, \h7546>>,
     plain |-> <<\h164D, \h5E40, \h4F27, \h5232>>,
     cipher |-> <<\h0A2A, \hEEAE, \h3FF4, \hAB77>>],
    [key |-> <<\h1F08, \h260D, \h1AC2, \h465E>>,
     plain |-> <<\h6B05, \h6E18, \h759F, \h5CCA>>,
     cipher |-> <<\hEF1B, \hF03E, \h5DFA, \h575A>>],
    [key |-> <<\h5840, \h2364, \h1ABA, \h6176>>,
     plain |-> <<\h004B, \hD6EF, \h0917, \h6062>>,
     cipher |-> <<\h88BF, \h0DB6, \hD70D, \hEE56>>],
    [key |-> <<\h0258, \h1616, \h4629, \hB007>>,
     plain |-> <<\h480D, \h3900, \h6EE7, \h62F2>>,
     cipher |-> <<\hA1F9, \h9155, \h4102, \h0B56>>],
    [key |-> <<\h4979, \h3EBC, \h79B3, \h258F>>,
     plain |-> <<\h4375, \h40C8, \h698F, \h3CFA>>,
     cipher |-> <<\h6FBF, \h1CAF, \hCFFD, \h0556>>],
    [key |-> <<\h4FB0, \h5E15, \h15AB, \h73A7>>,
     plain |-> <<\h072D, \h43A0, \h7707, \h5292>>,
     cipher |-> <<\h2F22, \hE49B, \hAB7C, \hA1AC>>],
    [key |-> <<\h49E9, \h5D6D, \h4CA2, \h29BF>>,
     plain |-> <<\h02FE, \h5577, \h8117, \hF12A>>,
     cipher |-> <<\h5A6B, \h612C, \hC26C, \hCE4A>>],
    [key |-> <<\h0183, \h10DC, \h409B, \h26D6>>,
     plain |-> <<\h1D9D, \h5C50, \h18F7, \h28C2>>,
     cipher |-> <<\h5F4C, \h038E, \hD12B, \h2E41>>],
    [key |-> <<\h1C58, \h7F1C, \h1392, \h4FEF>>,
     plain |-> <<\h3055, \h3228, \h6D6F, \h295A>>,
     cipher |-> <<\h63FA, \hC0D0, \h34D9, \hF793>>],
    [key |-> <<\h1334, \h5779, \h9BBC, \hDFF1>>,
     plain |-> <<\h0123, \h4567, \h89AB, \hCDEF>>,
     cipher |-> <<\h85E8, \h1354, \h0F0A, \hB405>>]}

MCCases == {[key |-> BitsOf(v.key), block |-> BitsOf(v.plain)] : v \in KnownAnswers}

Nothing == "none"
NoDes == /\ order = Nothing /\ given = Nothing /\ round_keys = Nothing /\ des_call = Nothing
         /\ pc = Nothing /\ round = Nothing /\ bits = Nothing /\ left = Nothing /\ right = Nothing
         /\ between = Nothing /\ halves = Nothing
NoDes3 == /\ enc_mode = Nothing /\ keys = Nothing /\ iv = Nothing /\ plain = Nothing /\ call = Nothing
          /\ stage = Nothing /\ block = Nothing /\ cipher = Nothing /\ result = Nothing

CipherSpec == /\ (Init /\ NoDes) \/ (DesInit /\ NoDes3)
              /\ [][(Next /\ UNCHANGED desvars) \/ (DesNext /\ UNCHANGED vars)]_<<vars, desvars>>

\* des_algo_encrypt is DES: on every published vector it returns the published
\* ciphertext, with the round keys des_gen_keys made of the published key.
KnownAnswer ==
    order = "encrypt first" /\ des_call = 2 =>
        \E v \in KnownAnswers : /\ given = [key |-> BitsOf(v.key), block |-> BitsOf(v.plain)]
                                /\ between = BitsOf(v.cipher)
=============================================================================
