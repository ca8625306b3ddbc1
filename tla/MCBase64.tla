------------------------------ MODULE MCBase64 ------------------------------
(* Base64 for TLC: lines of two groups, so that a line is full after the first, *)
(* the second and the fourth of them, depending on where it began.              *)
EXTENDS Base64

MCPayloads == {<<>>, <<255>>, <<1, 130>>, <<254, 9, 77>>, <<0, 0, 0, 16>>, <<7, 255, 3, 128, 64>>,
               <<90, 165, 60, 195, 15, 240, 1>>}
\* Texts no encoding writes: '=' where it may not be, or where it is taken for
\* a character; newlines between and inside groups; a short group; others.
MCTexts == {<<PADDING_CHARACTER, 1, 2, 3>>,
            <<1, 2, PADDING_CHARACTER, 3>>,
            <<1, PADDING_CHARACTER, 2, 3>>, <<2, PADDING_CHARACTER, PADDING_CHARACTER, PADDING_CHARACTER>>,
            <<1, 16, PADDING_CHARACTER, PADDING_CHARACTER, 4, 5, 6, 7>>,
            <<Return, Newline, 1, 2, 3, 4, Return, Newline>>,
            <<1, 2, Newline, 3, 4>>,
            <<1, 2, 3>>, <<1>>, <<1, 2, 3, 4, 5, 6>>,
            <<1, 2, 3, Other>>, <<Nul, 2, 3, 4>>, <<Other, 2, 3, PADDING_CHARACTER>>, <<>>}
=============================================================================
