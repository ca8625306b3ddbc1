------------------------------ MODULE MCHashes -------------------------------
(* Hashes for TLC: messages of the examples of FIPS 180-4 and of the test suite *)
(* of RFC 1321, and others as long as a block, or as a block without the marker *)
(* and the length; the padding alone with blocks of four bytes, of which two    *)
(* are for the length, and all messages of up to nine that may look like it; or *)
(* the calls of ft_printf that MCPrintf names, with the lines of the digests.   *)
EXTENDS Hashes, MCPrintf

abc == <<97, 98, 99>>
As(n) == [k \in 1 .. n |-> 97]
digits == [k \in 1 .. 80 |-> 48 + (k % 10)]
alphanumeric == [k \in 1 .. 26 |-> 64 + k] \o [k \in 1 .. 26 |-> 96 + k] \o [k \in 1 .. 10 |-> 47 + k]
m448 ==
    <<97, 98, 99, 100, 98, 99, 100, 101, 99, 100, 101, 102, 100, 101, 102, 103, 101, 102, 103, 104,
      102, 103, 104, 105, 103, 104, 105, 106, 104, 105, 106, 107, 105, 106, 107, 108, 106, 107, 108, 109,
      107, 108, 109, 110, 108, 109, 110, 111, 109, 110, 111, 112, 110, 111, 112, 113>>
m896 ==
    <<97, 98, 99, 100, 101, 102, 103, 104, 98, 99, 100, 101, 102, 103, 104, 105, 99, 100, 101, 102,
      103, 104, 105, 106, 100, 101, 102, 103, 104, 105, 106, 107, 101, 102, 103, 104, 105, 106, 107, 108,
      102, 103, 104, 105, 106, 107, 108, 109, 103, 104, 105, 106, 107, 108, 109, 110, 104, 105, 106, 107,
      108, 109, 110, 111, 105, 106, 107, 108, 109, 110, 111, 112, 106, 107, 108, 109, 110, 111, 112, 113,
      107, 108, 109, 110, 111, 112, 113, 114, 108, 109, 110, 111, 112, 113, 114, 115, 109, 110, 111, 112,
      113, 114, 115, 116, 110, 111, 112, 113, 114, 115, 116, 117>>

Known_md5 ==
    {[algorithm |-> "md5", message |-> <<>>,
     digest |-> <<<<\hd41d, \h8cd9>>, <<\h8f00, \hb204>>, <<\he980, \h0998>>, <<\hecf8, \h427e>>>>],
     [algorithm |-> "md5", message |-> abc,
     digest |-> <<<<\h9001, \h5098>>, <<\h3cd2, \h4fb0>>, <<\hd696, \h3f7d>>, <<\h28e1, \h7f72>>>>],
     [algorithm |-> "md5", message |-> digits,
     digest |-> <<<<\h57ed, \hf4a2>>, <<\h2be3, \hc955>>, <<\hac49, \hda2e>>, <<\h2107, \hb67a>>>>],
     [algorithm |-> "md5", message |-> alphanumeric,
     digest |-> <<<<\hd174, \hab98>>, <<\hd277, \hd9f5>>, <<\ha561, \h1c2c>>, <<\h9f41, \h9d9f>>>>],
     [algorithm |-> "md5", message |-> As(55),
     digest |-> <<<<\hef17, \h72b6>>, <<\hdff9, \ha122>>, <<\h3585, \h5295>>, <<\h4ad0, \hdf65>>>>],
     [algorithm |-> "md5", message |-> As(56),
     digest |-> <<<<\h3b0c, \h8ac7>>, <<\h03f8, \h28b0>>, <<\h4c6c, \h1970>>, <<\h06d1, \h7218>>>>],
     [algorithm |-> "md5", message |-> As(64),
     digest |-> <<<<\h0148, \h42d4>>, <<\h80b5, \h7149>>, <<\h5a4a, \h0363>>, <<\h793f, \h7367>>>>]}

Known_sha224 ==
    {[algorithm |-> "sha224", message |-> <<>>,
     digest |-> <<<<\hd14a, \h028c>>, <<\h2a3a, \h2bc9>>, <<\h4761, \h02bb>>, <<\h2882, \h34c4>>, <<\h15a2, \hb01f>>, <<\h828e, \ha62a>>, <<\hc5b3, \he42f>>>>],
     [algorithm |-> "sha224", message |-> abc,
     digest |-> <<<<\h2309, \h7d22>>, <<\h3405, \hd822>>, <<\h8642, \ha477>>, <<\hbda2, \h55b3>>, <<\h2aad, \hbce4>>, <<\hbda0, \hb3f7>>, <<\he36c, \h9da7>>>>],
     [algorithm |-> "sha224", message |-> As(55),
     digest |-> <<<<\hfb0b, \hd626>>, <<\ha70c, \h2854>>, <<\h1dfa, \h781b>>, <<\hb5cc, \h4d7d>>, <<\h7f56, \h622a>>, <<\h58f0, \h1a0b>>, <<\h1ddd, \h646f>>>>],
     [algorithm |-> "sha224", message |-> m448,
     digest |-> <<<<\h7538, \h8b16>>, <<\h5127, \h76cc>>, <<\h5dba, \h5da1>>, <<\hfd89, \h0150>>, <<\hb0c6, \h455c>>, <<\hb4f5, \h8b19>>, <<\h5252, \h2525>>>>]}

Known_sha256 ==
    {[algorithm |-> "sha256", message |-> <<>>,
     digest |-> <<<<\he3b0, \hc442>>, <<\h98fc, \h1c14>>, <<\h9afb, \hf4c8>>, <<\h996f, \hb924>>, <<\h27ae, \h41e4>>, <<\h649b, \h934c>>, <<\ha495, \h991b>>, <<\h7852, \hb855>>>>],
     [algorithm |-> "sha256", message |-> abc,
     digest |-> <<<<\hba78, \h16bf>>, <<\h8f01, \hcfea>>, <<\h4141, \h40de>>, <<\h5dae, \h2223>>, <<\hb003, \h61a3>>, <<\h9617, \h7a9c>>, <<\hb410, \hff61>>, <<\hf200, \h15ad>>>>],
     [algorithm |-> "sha256", message |-> As(55),
     digest |-> <<<<\h9f43, \h90f8>>, <<\hd30c, \h2dd9>>, <<\h2ec9, \hf095>>, <<\hb65e, \h2b9a>>, <<\he9b0, \ha925>>, <<\ha525, \h8e24>>, <<\h1c9f, \h1e91>>, <<\h0f73, \h4318>>>>],
     [algorithm |-> "sha256", message |-> m448,
     digest |-> <<<<\h248d, \h6a61>>, <<\hd206, \h38b8>>, <<\he5c0, \h2693>>, <<\h0c3e, \h6039>>, <<\ha33c, \he459>>, <<\h64ff, \h2167>>, <<\hf6ec, \hedd4>>, <<\h19db, \h06c1>>>>],
     [algorithm |-> "sha256", message |-> As(64),
     digest |-> <<<<\hffe0, \h54fe>>, <<\h7ae0, \hcb6d>>, <<\hc65c, \h3af9>>, <<\hb61d, \h5209>>, <<\hf439, \h851d>>, <<\hb43d, \h0ba5>>, <<\h9973, \h37df>>, <<\h1546, \h68eb>>>>]}

Known_sha512 ==
    {[algorithm |-> "sha512", message |-> <<>>,
     digest |-> <<<<\hcf83, \he135, \h7eef, \hb8bd>>, <<\hf154, \h2850, \hd66d, \h8007>>, <<\hd620, \he405, \h0b57, \h15dc>>, <<\h83f4, \ha921, \hd36c, \he9ce>>,
                  <<\h47d0, \hd13c, \h5d85, \hf2b0>>, <<\hff83, \h18d2, \h877e, \hec2f>>, <<\h63b9, \h31bd, \h4741, \h7a81>>, <<\ha538, \h327a, \hf927, \hda3e>>>>],
     [algorithm |-> "sha512", message |-> abc,
     digest |-> <<<<\hddaf, \h35a1, \h9361, \h7aba>>, <<\hcc41, \h7349, \hae20, \h4131>>, <<\h12e6, \hfa4e, \h89a9, \h7ea2>>, <<\h0a9e, \heee6, \h4b55, \hd39a>>,
                  <<\h2192, \h992a, \h274f, \hc1a8>>, <<\h36ba, \h3c23, \ha3fe, \hebbd>>, <<\h454d, \h4423, \h643c, \he80e>>, <<\h2a9a, \hc94f, \ha54c, \ha49f>>>>],
     [algorithm |-> "sha512", message |-> As(111),
     digest |-> <<<<\hfa91, \h21c7, \hb32b, \h9e01>>, <<\h733d, \h034c, \hfc78, \hcbf6>>, <<\h7f92, \h6c7e, \hd83e, \h8220>>, <<\h0ef8, \h6818, \h1969, \h2176>>,
                  <<\h0b4b, \heff4, \h8404, \hdf81>>, <<\h1b95, \h3828, \h2744, \h6167>>, <<\h3c68, \hd04e, \h297b, \h0eb7>>, <<\hb2b4, \hd60f, \hc6b5, \h66a2>>>>],
     [algorithm |-> "sha512", message |-> m896,
     digest |-> <<<<\h8e95, \h9b75, \hdae3, \h13da>>, <<\h8cf4, \hf728, \h14fc, \h143f>>, <<\h8f77, \h79c6, \heb9f, \h7fa1>>, <<\h7299, \haead, \hb688, \h9018>>,
                  <<\h501d, \h289e, \h4900, \hf7e4>>, <<\h331b, \h99de, \hc4b5, \h433a>>, <<\hc7d3, \h29ee, \hb6dd, \h2654>>, <<\h5e96, \he55b, \h874b, \he909>>>>],
     [algorithm |-> "sha512", message |-> As(128),
     digest |-> <<<<\hb73d, \h1929, \haa61, \h5934>>, <<\he61a, \h8715, \h96b3, \hf3b3>>, <<\h3359, \hf42b, \h8175, \h602e>>, <<\h89f7, \he06e, \h5f65, \h8a24>>,
                  <<\h3667, \h807e, \hd300, \h314b>>, <<\h95ca, \hcdd5, \h79f3, \he33a>>, <<\hbdfb, \he351, \h9095, \h19a8>>, <<\h46d4, \h65c5, \h9582, \hf321>>>>]}

MCMessages == UNION {[1 .. n -> {0, Marker}] : n \in 0 .. 9}
MCLengthField(n) == <<(n * 8) \div 256, (n * 8) % 256>>

MCKnown == Known_md5 \cup Known_sha224 \cup Known_sha256 \cup Known_sha512

-----------------------------------------------------------------------------
\* A behaviour is about a digest or about calls of ft_printf.
Nothing == "none"
NoCall == /\ script = <<>> /\ str = 1 /\ fields = <<>> /\ args_req = <<>> /\ arg_index = 0
          /\ pos_format = 0 /\ out = <<>> /\ nbr_chars = 0 /\ stage = Nothing
NoHash == /\ algorithm = Nothing /\ message = <<>> /\ remaining = 0 /\ padding = <<>> /\ block = <<>>
          /\ pc = Nothing /\ fed = <<>> /\ state = <<>> /\ new_state = <<>> /\ w = <<>> /\ i = 0
          /\ reverted = FALSE
DigestsInit == (HashInit /\ NoCall) \/ (PrintInit /\ NoHash)
DigestsNext == \/ HashNext /\ UNCHANGED pvars
               \/ PrintfNext /\ UNCHANGED hvars
DigestsSpec == DigestsInit /\ [][DigestsNext]_<<hvars, pvars>>
=============================================================================
