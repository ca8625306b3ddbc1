------------------------------- MODULE Hashes --------------------------------
(***************************************************************************)
(* The four digests of ft_ssl, each a call of its hash_buff_* on one       *)
(* message, with the constants of its source file; and the padding alone,  *)
(* with the small blocks that the constants of this module name.           *)
(***************************************************************************)
EXTENDS Digest, DigestTables

CONSTANT Known  \* records of an algorithm, a message and what its digest should be

VARIABLES algorithm, state, new_state, w, i,    \* see Sha2
          reverted                              \* see Md5

hvars == <<algorithm, dvars, state, new_state, w, i, reverted>>

MessagesOf(name) == {known.message : known \in {k \in Known : k.algorithm = name}}

\* The number of bits as the length field holds it, the lowest byte first or last; it
\* is that of a message that fits here, in two bytes.
Little(n) == [k \in 1 .. 8 |-> IF k = 1 THEN (n * 8) % 256 ELSE IF k = 2 THEN (n * 8) \div 256 ELSE 0]
Big(n, len) == [k \in 1 .. len |-> IF k = len THEN (n * 8) % 256 ELSE IF k = len - 1 THEN (n * 8) \div 256 ELSE 0]
Big8(n) == Big(n, 8)
Big16(n) == Big(n, 16)

md5 == INSTANCE Md5
    WITH BlockLen <- 64, LengthLen <- 8, LengthField <- Little, Messages <- MessagesOf("md5")
sha224 == INSTANCE Sha2
    WITH BlockLen <- 64, LengthLen <- 8, LengthField <- Big8, Messages <- MessagesOf("sha224"),
         Constants <- Sha256Constants, InitState <- Sha224State, Shifts <- Sha256Shifts
sha256 == INSTANCE Sha2
    WITH BlockLen <- 64, LengthLen <- 8, LengthField <- Big8, Messages <- MessagesOf("sha256"),
         Constants <- Sha256Constants, InitState <- Sha256State, Shifts <- Sha256Shifts
sha512 == INSTANCE Sha2
    WITH BlockLen <- 128, LengthLen <- 16, LengthField <- Big16, Messages <- MessagesOf("sha512"),
         Constants <- Sha512Constants, InitState <- Sha512State, Shifts <- Sha512Shifts

PaddingInit == /\ Init
               /\ state = <<>> /\ new_state = <<>> /\ w = <<>> /\ i = 0 /\ reverted = FALSE
PaddingNext == Next /\ UNCHANGED <<state, new_state, w, i, reverted>>

HashInit == \/ algorithm = "padding" /\ PaddingInit
            \/ algorithm = "md5" /\ md5!MdInit /\ w = <<>>
            \/ algorithm = "sha224" /\ sha224!ShaInit /\ reverted = FALSE
            \/ algorithm = "sha256" /\ sha256!ShaInit /\ reverted = FALSE
            \/ algorithm = "sha512" /\ sha512!ShaInit /\ reverted = FALSE

HashNext == /\ \/ algorithm = "padding" /\ PaddingNext
               \/ algorithm = "md5" /\ md5!MdNext /\ UNCHANGED w
               \/ algorithm = "sha224" /\ sha224!ShaNext /\ UNCHANGED reverted
               \/ algorithm = "sha256" /\ sha256!ShaNext /\ UNCHANGED reverted
               \/ algorithm = "sha512" /\ sha512!ShaNext /\ UNCHANGED reverted
            /\ UNCHANGED algorithm
HashSpec == HashInit /\ [][HashNext]_hvars

-----------------------------------------------------------------------------
\* What each of them hashes is its message, padded as RFC 1321 and FIPS 180-4 say:
\* Padded, for the blocks of each digest and for every message of the small ones.
BlocksPadded == CASE algorithm = "padding" -> Padded
                  [] algorithm = "md5" -> md5!Padded
                  [] algorithm = "sha224" -> sha224!Padded
                  [] algorithm = "sha256" -> sha256!Padded
                  [] algorithm = "sha512" -> sha512!Padded
                  [] OTHER -> TRUE

\* The messages of RFC 1321 and FIPS 180-4, and others as long as a block or as a
\* block without marker and length, have the digests they should have; the command
\* prints the words of them that are listed, seven of eight for SHA-224.
KnownAnswer ==
    algorithm \in {k.algorithm : k \in Known} /\ pc = "done" /\ block = <<>> /\ (algorithm = "md5" => reverted) =>
        LET answer == (CHOOSE k \in Known : k.algorithm = algorithm /\ k.message = message).digest
        IN  \A n \in 1 .. Len(answer) : state[n] = sha256!Word(answer[n])
=============================================================================
