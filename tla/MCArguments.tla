---------------------------- MODULE MCArguments -----------------------------
(* The command line for TLC.  A behaviour is about its words, as MCOptions has    *)
(* them, or about the keys in it: digits of base three, four of them in a word.   *)
(* Every text of up to five characters is given alone for a key, a salt or an IV, *)
(* others where they are at the end of a triple DES key, and a few together.      *)
EXTENDS MCOptions, Keys

Nothing == "none"
NoKeys == /\ algo = Nothing /\ lines = <<>> /\ key_printed = FALSE /\ command = 0 /\ key_line = <<>>
          /\ opts = Nothing /\ key_pc = Nothing /\ key_ret = 0 /\ key_text = <<>> /\ out = <<>>
          /\ dest = 0 /\ header = 0 /\ dk = <<>> /\ used = <<>>
NoWords == /\ kind = "digest" /\ argv = <<>> /\ Started /\ pc = Nothing
           /\ source = Nothing /\ line = <<>> /\ text = <<>> /\ counted = 0 /\ at = 1 /\ words = <<>> /\ typed = 0
ArgumentsInit == (PromptInit /\ NoKeys) \/ (KeysInit /\ NoWords)
ArgumentsNext == \/ algo = Nothing /\ PromptNext /\ UNCHANGED kvars
                 \/ algo # Nothing /\ KeysNext /\ UNCHANGED pvars
ArgumentsSpec == ArgumentsInit /\ [][ArgumentsNext]_<<pvars, kvars>>

-----------------------------------------------------------------------------
KeyChars == {0, 1, 2, Space, Other}
Texts == UNION {[1 .. n -> KeyChars] : n \in 0 .. 5}
Long == {[k \in 1 .. n |-> k % 2] : n \in 11 .. 13}
    \cup {[k \in 1 .. 12 |-> IF k = n THEN Other ELSE 1] : n \in 11 .. 12}
    \cup {[k \in 1 .. 12 |-> IF k = 1 THEN 0 ELSE 1], [k \in 1 .. 12 |-> IF k < 5 THEN 0 ELSE 1]}

One(name, chars) == [id |-> name, value |-> chars]
p == One("pass", <<1>>)
q == One("pass", <<0, 1>>)
Alone == {<<One(id, t)>> : id \in {"key"}, t \in Texts \cup Long}
    \cup {<<p, One(id, t)>> : id \in {"salt", "iv"}, t \in Texts}
Pairs == {<<One("key", <<1, 1, 1, 1, 1>>), One("key", <<0, 1>>)>>, <<One("key", <<1, 1, 1>>), One("key", <<0, 1>>)>>,
          <<One("key", <<0, 1>>), One("iv", <<0, 1, 0>>)>>}
Secrets == {<<>>, <<p>>, <<q>>, <<One("pass", <<1, 1, 1>>)>>, <<p, One("salt", <<1>>)>>, <<p, One("salt", <<0, 1, 1>>)>>,
            <<p, One("iv", <<1>>)>>}
    \cup {<<p, One("md", md)>> : md \in {"md5", "sha512", "sha3"}}

MCLines == {<<a, <<p>>>> : a \in Alone \cup Pairs} \cup Secrets \X (Secrets \cup {<<One("key", <<1>>)>>})
MCTyped == {<<1>>, <<1, 1, 1>>}

\* A digest that tells its data apart: it repeats them, in an order of its own.
Names == [md5 |-> 0, sha256 |-> 1, sha512 |-> 2]
MCMd(md, data) == [k \in 1 .. Output[md] * Bytes |->
                      (data[1 + ((k + Names[md]) % Len(data))] + (k \div 3)) % (Base * Base)]
=============================================================================
