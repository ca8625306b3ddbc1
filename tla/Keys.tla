-------------------------------- MODULE Keys --------------------------------
(***************************************************************************)
(* Where des and des3 take their key and IV from: hexadecimal numbers of   *)
(* the command line (parse_args_des.c, ft_hex_decode.c, ft_strtoul_hex.c), *)
(* or a password and a salt (derive_key in des.c and des3.c, pbkdf.c).  A  *)
(* file is encoded and then decoded; the second command line is any, or    *)
(* gives the key and the IV that the first command showed with -P.         *)
(*                                                                         *)
(* A text is the sequence of its characters: a digit is its value, and two *)
(* more numbers stand for white space and for everything else.  A word is  *)
(* a u_int64_t of Size digits; two digits are a byte.                      *)
(***************************************************************************)
EXTENDS Integers, Sequences, FiniteSets, SequencesExt, FiniteSetsExt

CONSTANTS Base, Size,       \* 16 and 16: a base above 2, an even number of digits
          PasswordMax,      \* MAX_PASSWORD_LEN
          Typed,            \* what may be typed where the password is asked for
          Lines,            \* pairs of command lines: sequences of an option and its text
          Md(_, _)          \* a digest by its name: the bytes of data to bytes

Digit == 0 .. Base - 1
Space == Base
Other == Base + 1
KeyWord == 0 .. (Base ^ Size) - 1
Bytes == Size \div 2    \* in a word
MaxWord == (Base ^ Size) - 1

ASSUME NumberAssumption == Base \in Nat /\ Base > 2 /\ Size \in Nat \ {0} /\ Size % 2 = 0
ASSUME TextAssumption ==
    \A l \in Lines :
        /\ Len(l) = 2
        /\ l \in Seq(Seq([id : {"key", "salt", "iv", "pass"}, value : Seq(0 .. Other)] \cup [id : {"md"}, value : STRING]))

\* get_hash_props knows three digests, here with the words of their output.
Output == [md5 |-> 2, sha256 |-> 4, sha512 |-> 8]

VARIABLES
    algo,       \* "des" or "des3"
    lines,      \* the two command lines
    key_printed,    \* history: the second is made of what the first command showed
    command,    \* 1 encodes, 2 decodes
    key_line,   \* the options that are left
    opts,       \* t_options_des, the key as bytes for both ciphers
    key_pc, key_ret,
    key_text,   \* what is left of the text of an option
    out,        \* the bytes that ft_hex_decode wrote
    dest,       \* the number of ft_strtoul_hex
    header,     \* the salt behind "Salted__" in the file, or NoHeader
    dk,         \* what pbkdf1 wrote
    used        \* history: the options that each command came to work with

kvars == <<algo, lines, key_printed, command, key_line, opts, key_pc, key_ret, key_text, out, dest, header, dk, used>>
parser == <<key_text, out, dest>>

NoHeader == -1
KeyBytes == IF algo = "des3" THEN 3 * Bytes ELSE Bytes
Zeros(n) == [k \in 1 .. n |-> 0]

\* The word that bytes are the big-endian form of, and the other way round.
Number(bytes) == FoldLeft(LAMBDA n, byte : n * Base * Base + byte, 0, bytes)
BigEndian(word) == [k \in 1 .. Bytes |-> (word \div (Base ^ (2 * (Bytes - k)))) % (Base * Base)]

default_opts == [key |-> Zeros(KeyBytes), keyGiven |-> FALSE, salt |-> 0, saltGiven |-> FALSE,
                 iv |-> 0, ivGiven |-> FALSE, password |-> <<>>, prompt |-> TRUE, md |-> "sha256"]

KeysInit == /\ algo \in {"des", "des3"}
        /\ lines \in Lines
        /\ key_printed = FALSE
        /\ command = 1 /\ key_line = lines[1]
        /\ opts = default_opts
        /\ key_pc = "options" /\ key_ret = 0
        /\ key_text = <<>> /\ out = <<>> /\ dest = 0
        /\ header = NoHeader /\ dk = <<>> /\ used = <<>>

Same == UNCHANGED <<algo, lines, key_printed, command>>
Fail(status) == key_pc' = "failed" /\ key_ret' = status

-----------------------------------------------------------------------------
\* An option is met and its handler called.
Option == Head(key_line)
Meets(id) == key_pc = "options" /\ key_line # <<>> /\ Option.id = id

register_text ==
    /\ \/ Meets("key") /\ key_pc' = "hex"
       \/ Meets("salt") /\ key_pc' = "spaces"
       \/ Meets("iv") /\ key_pc' = "spaces"
    /\ key_text' = Option.value /\ out' = <<>> /\ dest' = 0
    /\ Same /\ UNCHANGED <<key_line, opts, key_ret, header, dk, used>>

Handled == key_line' = Tail(key_line) /\ key_pc' = "options"

register_password_value ==
    /\ Meets("pass")
    /\ IF Len(Option.value) > PasswordMax - 1
       THEN Fail(2) /\ UNCHANGED <<key_line, opts>>
       ELSE /\ opts' = [opts EXCEPT !.password = Option.value, !.prompt = FALSE]
            /\ Handled /\ UNCHANGED key_ret
    /\ Same /\ UNCHANGED <<parser, header, dk, used>>

register_md ==
    /\ Meets("md")
    /\ opts' = [opts EXCEPT !.md = Option.value]
    /\ Handled
    /\ Same /\ UNCHANGED <<key_ret, parser, header, dk, used>>

-----------------------------------------------------------------------------
\* ft_hex_decode, two characters at a time; a last one alone is the high half
\* of its byte.
HexPair ==
    /\ key_pc = "hex" /\ Len(key_text) >= 2 /\ Len(out) < KeyBytes
    /\ IF key_text[1] \in Digit /\ key_text[2] \in Digit
       THEN /\ out' = Append(out, key_text[1] * Base + key_text[2])
            /\ key_text' = Tail(Tail(key_text))
            /\ UNCHANGED <<key_pc, key_ret>>
       ELSE Fail(2) /\ UNCHANGED <<out, key_text>>
    /\ Same /\ UNCHANGED <<key_line, opts, dest, header, dk, used>>

HexLast ==
    /\ key_pc = "hex" /\ Len(key_text) = 1 /\ Len(out) < KeyBytes
    /\ IF key_text[1] \in Digit
       THEN out' = Append(out, key_text[1] * Base) /\ key_text' = <<>> /\ UNCHANGED <<key_pc, key_ret>>
       ELSE Fail(2) /\ UNCHANGED <<out, key_text>>
    /\ Same /\ UNCHANGED <<key_line, opts, dest, header, dk, used>>

\* register_key has a buffer of zeros for DES; for triple DES the bytes go where
\* those of an earlier -k may be.
Overlaid == [k \in 1 .. KeyBytes |->
                IF k <= Len(out) THEN out[k] ELSE IF algo = "des" THEN 0 ELSE opts.key[k]]
register_key ==
    /\ key_pc = "hex" /\ (key_text = <<>> \/ Len(out) = KeyBytes)
    /\ IF key_text # <<>>
       THEN Fail(2) /\ UNCHANGED <<key_line, opts>>
       ELSE /\ opts' = [opts EXCEPT !.key = Overlaid, !.keyGiven = TRUE]
            /\ Handled /\ UNCHANGED key_ret
    /\ Same /\ UNCHANGED <<parser, header, dk, used>>

-----------------------------------------------------------------------------
\* ft_strtoul_hex: white space, at least one digit, the digits, and then nothing
\* or white space and anything.
Here(chars) == key_text # <<>> /\ key_text[1] \in chars

SkipSpaces ==
    /\ key_pc = "spaces"
    /\ \/ Here({Space}) /\ key_text' = Tail(key_text) /\ UNCHANGED <<key_pc, key_ret>>
       \/ Here(Digit) /\ key_pc' = "digits" /\ UNCHANGED <<key_text, key_ret>>
       \/ ~Here(Digit \cup {Space}) /\ Fail(2) /\ UNCHANGED key_text
    /\ Same /\ UNCHANGED <<key_line, opts, out, dest, header, dk, used>>

\* Fault: the last number that can grow does not.
increment_nbr_fails_early(index) == dest >= MaxWord \div Base

\* The overflow test, before the number grows.
increment_nbr_fails(index) ==
    \/ dest > MaxWord \div Base
    \/ dest = MaxWord \div Base /\ index > MaxWord % Base

TakeDigit ==
    /\ key_pc = "digits" /\ Here(Digit)
    /\ IF increment_nbr_fails(key_text[1])
       THEN Fail(2) /\ UNCHANGED <<dest, key_text>>
       ELSE /\ dest' = (dest * Base + key_text[1]) % (Base ^ Size)
            /\ key_text' = Tail(key_text) /\ UNCHANGED <<key_pc, key_ret>>
    /\ Same /\ UNCHANGED <<key_line, opts, out, header, dk, used>>

\* The digits move up until the highest is not zero.
padd_left_u64_hex(n) ==
    LET high == {i \in 0 .. Size - 1 : (n \div (Base ^ (Size - 1 - i))) % Base # 0}
    IN  IF high = {} THEN n ELSE (n * (Base ^ Min(high))) % (Base ^ Size)

\* register_salt, register_iv.
register_number ==
    /\ key_pc = "digits" /\ ~Here(Digit)
    /\ IF Here({Other})
       THEN Fail(2) /\ UNCHANGED <<key_line, opts>>
       ELSE /\ opts' = IF Option.id = "salt"
                       THEN [opts EXCEPT !.salt = padd_left_u64_hex(dest), !.saltGiven = TRUE]
                       ELSE [opts EXCEPT !.iv = padd_left_u64_hex(dest), !.ivGiven = TRUE]
            /\ Handled /\ UNCHANGED key_ret
    /\ Same /\ UNCHANGED <<parser, header, dk, used>>

-----------------------------------------------------------------------------
\* parse_des_args asks for a password that it was not given, unless there is a key.
read_pass ==
    /\ key_pc = "options" /\ key_line = <<>> /\ ~opts.keyGiven /\ opts.prompt
    /\ \/ \E pass \in Typed : IF Len(pass) > PasswordMax - 1
                              THEN Fail(2) /\ UNCHANGED opts
                              ELSE /\ opts' = [opts EXCEPT !.password = pass]
                                   /\ key_pc' = "salt" /\ UNCHANGED key_ret
       \/ Fail(2) /\ UNCHANGED opts      \* getpass fails
    /\ Same /\ UNCHANGED <<key_line, parser, header, dk, used>>

Parsed ==
    /\ key_pc = "options" /\ key_line = <<>> /\ (opts.keyGiven \/ ~opts.prompt)
    /\ key_pc' = IF opts.keyGiven THEN "ready" ELSE "salt"
    /\ Same /\ UNCHANGED <<key_line, opts, key_ret, parser, header, dk, used>>

\* Each of Size digits, none of them the highest, is put in front of the last and moved
\* up with the others: the first moves out, and the last digit is always zero.
random_u64 == {Number([k \in 1 .. Bytes |-> d[2 * k - 1] * Base + d[2 * k]]) :
                   d \in {e \in [1 .. Size -> 0 .. Base - 2] : e[Size] = 0}}

\* derive_key: an encryption writes its salt, a given or a random one.
write_salt ==
    /\ key_pc = "salt" /\ command = 1
    /\ \E salt \in IF opts.saltGiven THEN {opts.salt} ELSE random_u64 :
          opts' = [opts EXCEPT !.salt = salt] /\ header' = salt
    /\ key_pc' = "derive"
    /\ Same /\ UNCHANGED <<key_line, key_ret, parser, dk, used>>

\* Fault: a salt that is given is used instead.
read_salt_unless_given ==
    /\ key_pc = "salt" /\ command = 2
    /\ IF header = NoHeader
       THEN Fail(1) /\ UNCHANGED opts
       ELSE /\ opts' = IF opts.saltGiven THEN opts ELSE [opts EXCEPT !.salt = header]
            /\ key_pc' = "derive" /\ UNCHANGED key_ret
    /\ Same /\ UNCHANGED <<key_line, parser, header, dk, used>>

\* A decryption takes the one in the file, whatever was given.
read_salt ==
    /\ key_pc = "salt" /\ command = 2
    /\ IF header = NoHeader
       THEN Fail(1) /\ UNCHANGED opts
       ELSE /\ opts' = [opts EXCEPT !.salt = header]
            /\ key_pc' = "derive" /\ UNCHANGED key_ret
    /\ Same /\ UNCHANGED <<key_line, parser, header, dk, used>>

\* The bytes that each command wants: one word more than the key, for the IV.
dk_len == KeyBytes + Bytes

\* pbkdf1 with one iteration: the digest of the password and the salt, as many
\* bytes as are wanted.  It writes nothing, and says so to nobody, when the
\* digest has fewer.
pbkdf1(md, password, salt) ==
    IF dk_len > Output[md] * Bytes THEN <<>>
    ELSE LET digest == Md(md, password \o BigEndian(salt)) IN [k \in 1 .. dk_len |-> digest[k]]

\* Fault: des3 takes a digest that is too short for it.
KnownMd(md) == md \in DOMAIN Output

\* Which digests derive_key takes.
ValidMd(md) == md \in DOMAIN Output /\ ~(algo = "des3" /\ md = "md5")

\* The word behind the key.
IvOf(derived) == Number(SubSeq(derived, KeyBytes + 1, KeyBytes + Bytes))

\* What dk holds where nothing was written is whatever it is.
derive_key ==
    /\ key_pc = "derive"
    /\ IF ~ValidMd(opts.md)
       THEN Fail(1) /\ UNCHANGED <<opts, dk>>
       ELSE /\ dk' = pbkdf1(opts.md, opts.password, opts.salt)
            /\ \E derived \in IF dk' # <<>> THEN {dk'} ELSE {Zeros(dk_len), [k \in 1 .. dk_len |-> 1]} :
                 opts' = [opts EXCEPT !.key = SubSeq(derived, 1, KeyBytes),
                                      !.iv = IF opts.ivGiven THEN @ ELSE IvOf(derived)]
            /\ key_pc' = "ready" /\ UNCHANGED key_ret
    /\ Same /\ UNCHANGED <<key_line, parser, header, used>>

-----------------------------------------------------------------------------
\* %lX of a word: no zeros in front, but one for zero itself.
Digits(word) == [k \in 1 .. Size |-> (word \div (Base ^ (Size - k))) % Base]
Stripped(digits) ==
    LET first == {k \in 1 .. Len(digits) : digits[k] # 0}
    IN  IF first = {} THEN <<>> ELSE SubSeq(digits, Min(first), Len(digits))
Hex(word) == IF word = 0 THEN <<0>> ELSE Stripped(Digits(word))

\* Two digits for each byte.
TwoDigits(bytes) == [k \in 1 .. 2 * Len(bytes) |->
                        IF k % 2 = 1 THEN bytes[(k + 1) \div 2] \div Base ELSE bytes[k \div 2] % Base]

\* What -P shows of the key: a number for DES, all of the bytes for triple DES.
print_key(key) == IF algo = "des" THEN Hex(Number(key)) ELSE TwoDigits(key)

\* A command has its key and IV.
Ready ==
    /\ key_pc = "ready"
    /\ used' = Append(used, opts)
    /\ key_pc' = IF command = 1 THEN "next" ELSE "done"
    /\ Same /\ UNCHANGED <<key_line, opts, key_ret, parser, header, dk>>

\* The file is decoded, with other options or with what the first command showed.
Decode ==
    /\ key_pc = "next"
    /\ \/ key_line' = lines[2] /\ key_printed' = FALSE
       \/ /\ key_line' = <<[id |-> "key", value |-> print_key(opts.key)], [id |-> "iv", value |-> Hex(opts.iv)]>>
          /\ key_printed' = TRUE
    /\ command' = 2 /\ opts' = default_opts /\ key_pc' = "options"
    /\ key_text' = <<>> /\ out' = <<>> /\ dest' = 0 /\ dk' = <<>>
    /\ UNCHANGED <<algo, lines, key_ret, header, used>>

KeysEnded == key_pc \in {"done", "failed"} /\ UNCHANGED kvars

Parse == \/ register_text \/ register_password_value \/ register_md
         \/ HexPair \/ HexLast \/ register_key
         \/ SkipSpaces \/ TakeDigit \/ register_number
         \/ read_pass \/ Parsed
Derive == write_salt \/ read_salt \/ derive_key \/ Ready \/ Decode
KeysNext == Parse \/ Derive \/ KeysEnded
KeysSpec == KeysInit /\ [][KeysNext]_kvars

-----------------------------------------------------------------------------
KeyByte == 0 .. (Base * Base) - 1
KeysTypeOK == /\ opts.key \in [1 .. KeyBytes -> KeyByte]
          /\ {opts.salt, opts.iv, dest} \subseteq KeyWord
          /\ Len(out) <= KeyBytes
          /\ header \in KeyWord \cup {NoHeader}
          /\ Len(used) <= command /\ key_ret \in 0 .. 2

\* The first command line up to the option that is being read, and the options of
\* it that were accepted.
Accepted == IF command = 1 THEN SubSeq(lines[1], 1, Len(lines[1]) - Len(key_line)) ELSE <<>>
LastText(id) == LET places == {n \in 1 .. Len(Accepted) : Accepted[n].id = id}
            IN  IF places = {} THEN <<>> ELSE <<Accepted[Max(places)].value>>
\* The option that a failed command line could not read.
Refused(id) == command = 1 /\ key_pc = "failed" /\ key_line # <<>> /\ Option.id = id

Times(id) == Cardinality({n \in 1 .. Len(Accepted) : Accepted[n].id = id})
IsKey(t) == Len(t) <= 2 * KeyBytes /\ \A k \in 1 .. Len(t) : t[k] \in Digit

\* The number in a text for a salt or an IV: the digits behind the white space.
Start(t) == LET inner == {k \in 1 .. Len(t) : t[k] # Space} IN IF inner = {} THEN Len(t) + 1 ELSE Min(inner)
NumberEnd(t) == LET after == {k \in Start(t) .. Len(t) : t[k] \notin Digit}
                IN  IF after = {} THEN Len(t) + 1 ELSE Min(after)
Written(t) == Stripped(SubSeq(t, Start(t), NumberEnd(t) - 1))
IsNumber(t) == /\ NumberEnd(t) > Start(t)
               /\ NumberEnd(t) <= Len(t) => t[NumberEnd(t)] = Space
               /\ Len(Written(t)) <= Size

\* The last text of an option that was accepted is what it stands for.
KeyRead == \A n \in 1 .. Len(LastText("key")) :
               LET t == LastText("key")[n]
               IN  IsKey(t) /\ (algo = "des" \/ Times("key") = 1
                                => TwoDigits(opts.key) = t \o Zeros(2 * KeyBytes - Len(t)))
NumberRead(id, value) ==
    \A n \in 1 .. Len(LastText(id)) :
        LET t == LastText(id)[n]
        IN  IsNumber(t) /\ Digits(value) = Written(t) \o Zeros(Size - Len(Written(t)))

\* The key is the digits as they are written, and zeros behind them.  A second -k is read
\* so for DES only.
KeyAsWritten ==
    /\ command = 1 /\ key_pc \in {"options", "salt"} /\ opts.keyGiven => KeyRead
    /\ Refused("key") => ~IsKey(Option.value)

\* A key, a salt or an IV is the digits as they are written, those of a number from the
\* first that is not zero, filled up with zeros behind them.  A text is refused when it
\* has too many of them or something else stands where they should, and never otherwise.
ReadAsWritten ==
    /\ KeyAsWritten
    /\ command = 1 /\ key_pc = "options" => NumberRead("salt", opts.salt) /\ NumberRead("iv", opts.iv)
    /\ Refused("salt") \/ Refused("iv") => ~IsNumber(Option.value)

Shows(word) == word = 0 \/ Digits(word)[1] # 0

\* What a command encoded is decoded with the same key and IV when it is given the same
\* password and digest, whatever salt the two command lines give.
OpensWithPassword ==
    key_pc = "done" /\ ~used[1].keyGiven /\ ~used[2].keyGiven
        /\ used[1].password = used[2].password /\ used[1].md = used[2].md =>
            /\ used[1].key = used[2].key
            /\ ~used[1].ivGiven /\ ~used[2].ivGiven => used[1].iv = used[2].iv

\* It also is when it is given what -P showed of both with -k and -v, but for a number that
\* begins with zeros, which are not shown: of these only zero itself is read as what it was.
Reopens ==
    /\ OpensWithPassword
    /\ key_printed =>
           /\ key_pc # "failed"
           /\ key_pc = "done" =>
                 /\ used[2].key = used[1].key <=> (algo = "des3" \/ Shows(Number(used[1].key)))
                 /\ used[2].iv = used[1].iv <=> Shows(used[1].iv)

\* No command works with a key that pbkdf1 did not write: derive_key does not look
\* at what it returns.
NothingUnset == key_pc = "ready" /\ ~opts.keyGiven => Len(dk) = dk_len
=============================================================================
