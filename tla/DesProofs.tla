------------------------------ MODULE DesProofs ------------------------------
(***************************************************************************)
(* Proofs about Des, for every set of tables that fit and every key and    *)
(* block: whatever the key schedule and the mangler function compute, the  *)
(* second call walks the network of the first backwards.  And about Des3,  *)
(* for every block cipher that decrypts what it encrypts and encrypts what *)
(* it decrypts, and every set of keys.  At the end about Keys, for every   *)
(* command line, digest and size of a word.                                *)
(***************************************************************************)
EXTENDS Des, Des3, Keys, FiniteSetTheorems, SequenceTheorems, TLAPS

(* The sizes are numbers. *)
LEMMA Sizes == /\ HalfLen \in Nat /\ BlockLen = 2 * HalfLen /\ BlockLen \in Nat
               /\ Rounds \in Nat
BY TablesAssumption DEF HalfLen, BlockLen

(* The exclusive or of two halves is a half, and a second one undoes it. *)
LEMMA XorLaws ==
  ASSUME NEW a \in Half, NEW b \in Half
  PROVE  XorBits(a, b) \in Half /\ XorBits(a, XorBits(a, b)) = b
<1>1. \A i \in 1 .. HalfLen : a[i] \in Bit /\ b[i] \in Bit  BY DEF Half
<1>2. DOMAIN a = 1 .. HalfLen /\ b = [i \in 1 .. HalfLen |-> b[i]]  BY DEF Half
<1>3. XorBits(a, b) = [i \in 1 .. HalfLen |-> IF a[i] = b[i] THEN 0 ELSE 1]
  BY <1>2 DEF XorBits
<1>4. XorBits(a, b) \in Half  BY <1>3 DEF Half, Bit
<1>5. XorBits(a, XorBits(a, b)) = [i \in 1 .. HalfLen |-> IF a[i] = XorBits(a, b)[i] THEN 0 ELSE 1]
  BY <1>2 DEF XorBits
<1>6. \A i \in 1 .. HalfLen : (IF a[i] = XorBits(a, b)[i] THEN 0 ELSE 1) = b[i]
  BY <1>1, <1>3 DEF Bit
<1>7. QED  BY <1>2, <1>4, <1>5, <1>6

(* The mangler function returns a half, whatever it is given. *)
LEMMA ManglerType == \A r, k : mangler_function(r, k) \in Half
<1> SUFFICES ASSUME NEW r, NEW k PROVE mangler_function(r, k) \in Half
  OBVIOUS
<1> DEFINE mixed == XorBits(permute(r, expp), k)
           chunk(b) == [j \in 1 .. 6 |-> mixed[6 * (b - 1) + j]]
           nibble == [b \in 1 .. Len(sboxes) |-> Substitute(sboxes[b], chunk(b))]
           subst == [i \in 1 .. HalfLen |->
                      IF (nibble[1 + ((i - 1) \div 4)] \div <<8, 4, 2, 1>>[1 + ((i - 1) % 4)]) % 2 = 1
                      THEN 1 ELSE 0]
<1>1. mangler_function(r, k) = permute(subst, per)  BY DEF mangler_function
<1> HIDE DEF nibble
<1>2. \A i \in 1 .. HalfLen : subst[i] \in Bit  BY DEF Bit
<1> HIDE DEF subst
<1>3. permute(subst, per) = [i \in 1 .. HalfLen |-> subst[per[i]]]
  BY TablesAssumption DEF permute
<1>4. \A i \in 1 .. HalfLen : per[i] \in 1 .. HalfLen  BY TablesAssumption
<1>5. QED  BY <1>1, <1>2, <1>3, <1>4 DEF Half

(* A block can be cut in two and put together, and the other way round. *)
LEMMA Cut ==
  ASSUME NEW n \in Bits
  PROVE  /\ FirstHalf(n) \in Half /\ SecondHalf(n) \in Half
         /\ FirstHalf(n) \o SecondHalf(n) = n
<1>1. n \in Seq(Bit) /\ Len(n) = BlockLen  BY Sizes DEF Bits
<1>2. Len(n) \div 2 = HalfLen  BY <1>1, Sizes
<1>3. FirstHalf(n) = [i \in 1 .. HalfLen |-> n[i]]  BY <1>2 DEF FirstHalf
<1>4. SecondHalf(n) = [i \in 1 .. HalfLen |-> n[i + HalfLen]]  BY <1>2 DEF SecondHalf
<1>5. FirstHalf(n) \in Half
  <2>1. \A i \in 1 .. HalfLen : n[i] \in Bit  BY Sizes DEF Bits
  <2>2. QED  BY <1>3, <2>1 DEF Half
<1>6. SecondHalf(n) \in Half
  <2>1. \A i \in 1 .. HalfLen : n[i + HalfLen] \in Bit  BY Sizes DEF Bits
  <2>2. QED  BY <1>4, <2>1 DEF Half
<1>7. FirstHalf(n) \o SecondHalf(n) = n
  <2> DEFINE a == FirstHalf(n)
             b == SecondHalf(n)
  <2>1. a \in Seq(Bit) /\ b \in Seq(Bit) /\ Len(a) = HalfLen /\ Len(b) = HalfLen
    BY <1>5, <1>6, Sizes DEF Half
  <2>2. /\ a \o b \in Seq(Bit) /\ Len(a \o b) = Len(n)
        /\ \A i \in 1 .. Len(n) : (a \o b)[i] = IF i <= HalfLen THEN a[i] ELSE b[i - HalfLen]
    BY <2>1, <1>1, Sizes
  <2>3. \A i \in 1 .. Len(n) : (a \o b)[i] = n[i]  BY <2>2, <1>3, <1>4, <1>1, Sizes
  <2>4. QED  BY <2>2, <2>3, <1>1
<1>8. QED  BY <1>5, <1>6, <1>7

LEMMA Join ==
  ASSUME NEW a \in Half, NEW b \in Half
  PROVE  a \o b \in Bits /\ FirstHalf(a \o b) = a /\ SecondHalf(a \o b) = b
<1>1. a \in Seq(Bit) /\ b \in Seq(Bit) /\ Len(a) = HalfLen /\ Len(b) = HalfLen
  BY Sizes DEF Half
<1>2. /\ Len(a \o b) = BlockLen /\ a \o b \in Seq(Bit)
      /\ \A i \in 1 .. BlockLen : (a \o b)[i] = IF i <= HalfLen THEN a[i] ELSE b[i - HalfLen]
  BY <1>1, Sizes
<1>3. a \o b \in Bits
  <2> DEFINE c == a \o b
  <2>1. c \in Seq(Bit) /\ Len(c) = BlockLen  BY <1>2
  <2> HIDE DEF c
  <2>2. c \in [1 .. Len(c) -> Bit]  BY <2>1
  <2>3. QED  BY <2>1, <2>2 DEF Bits, c
<1>4. Len(a \o b) \div 2 = HalfLen  BY <1>2, Sizes
<1>5. FirstHalf(a \o b) = a
  <2>1. FirstHalf(a \o b) = [i \in 1 .. HalfLen |-> (a \o b)[i]]  BY <1>4 DEF FirstHalf
  <2>2. \A i \in 1 .. HalfLen : (a \o b)[i] = a[i]  BY <1>2, Sizes
  <2>3. a = [i \in 1 .. HalfLen |-> a[i]]  BY DEF Half
  <2>4. QED  BY <2>1, <2>2, <2>3
<1>6. SecondHalf(a \o b) = b
  <2>1. SecondHalf(a \o b) = [i \in 1 .. HalfLen |-> (a \o b)[i + HalfLen]]
    BY <1>4 DEF SecondHalf
  <2>2. \A i \in 1 .. HalfLen : (a \o b)[i + HalfLen] = b[i]  BY <1>2, Sizes
  <2>3. b = [i \in 1 .. HalfLen |-> b[i]]  BY DEF Half
  <2>4. QED  BY <2>1, <2>2, <2>3
<1>7. QED  BY <1>3, <1>5, <1>6

(* The two permutations around the rounds undo each other. *)
LEMMA PermutationsFit ==
  ASSUME NEW n \in Bits
  PROVE  /\ permute(n, ip) \in Bits /\ permute(n, fp) \in Bits
         /\ permute(permute(n, ip), fp) = n
         /\ permute(permute(n, fp), ip) = n
<1>1. /\ permute(n, ip) = [i \in 1 .. BlockLen |-> n[ip[i]]]
      /\ permute(n, fp) = [i \in 1 .. BlockLen |-> n[fp[i]]]
  BY TablesAssumption DEF permute
<1>2. /\ permute(permute(n, ip), fp) = [i \in 1 .. BlockLen |-> permute(n, ip)[fp[i]]]
      /\ permute(permute(n, fp), ip) = [i \in 1 .. BlockLen |-> permute(n, fp)[ip[i]]]
  BY TablesAssumption DEF permute
<1>3. \A i \in 1 .. BlockLen : /\ ip[i] \in 1 .. BlockLen /\ fp[i] \in 1 .. BlockLen
                               /\ ip[fp[i]] = i /\ fp[ip[i]] = i
  BY TablesAssumption
<1>4. permute(n, ip) \in Bits /\ permute(n, fp) \in Bits  BY <1>1, <1>3 DEF Bits
<1>5. \A i \in 1 .. BlockLen : permute(n, ip)[fp[i]] = n[i] /\ permute(n, fp)[ip[i]] = n[i]
  BY <1>1, <1>3
<1>6. n = [i \in 1 .. BlockLen |-> n[i]]  BY DEF Bits
<1>7. QED  BY <1>2, <1>4, <1>5, <1>6

-----------------------------------------------------------------------------
(* The lengths of the history never change, so neither do its first entries: *)
(* writing the one after it extends a network by one round.                  *)
LEMMA NetworkGrows ==
  ASSUME Control, NEW n \in Nat, n < Rounds, Network(n),
         given' = given, order' = order, round_keys' = round_keys,
         halves' = [halves EXCEPT ![n + 1] =
                      <<halves[n][2],
                        XorBits(mangler_function(halves[n][2], FirstKey(n)), halves[n][1])>>]
  PROVE  Network(n + 1)'
<1> DEFINE l == halves[n][1]
           r == halves[n][2]
           new == <<r, XorBits(mangler_function(r, FirstKey(n)), l)>>
<1>1. l \in Half /\ r \in Half
  <2>1. halves[n] \in Half \X Half  BY DEF Network
  <2>2. QED  BY <2>1
<1>2. new \in Half \X Half  BY <1>1, ManglerType, XorLaws
<1>3. halves \in [0 .. Rounds -> {<<>>} \cup (Half \X Half)]  BY DEF Control
<1>4. n + 1 \in 0 .. Rounds /\ Rounds \in Nat  BY Sizes
<1>5. halves' = [halves EXCEPT ![n + 1] = new]  OBVIOUS
<1> HIDE DEF new
<1>6. halves'[n + 1] = new  BY <1>3, <1>4, <1>5
<1>7. \A i \in 0 .. n : halves'[i] = halves[i]  BY <1>3, <1>4, <1>5
<1>8. \A i : FirstKey(i)' = FirstKey(i)  BY DEF FirstKey
<1>9. halves'[0] = halves[0]  BY <1>7
<1>10. \A i \in 0 .. n + 1 : halves'[i] \in Half \X Half
  <2>1. \A i \in 0 .. n : halves'[i] \in Half \X Half  BY <1>7 DEF Network
  <2>2. QED  BY <1>2, <1>6, <2>1
<1>11. ASSUME NEW i \in 0 .. n
       PROVE  halves'[i + 1] =
                <<halves'[i][2],
                  XorBits(mangler_function(halves'[i][2], FirstKey(i)), halves'[i][1])>>
  <2>1. CASE i = n
    <3>1. halves'[i] = halves[n]  BY <1>7, <2>1
    <3>2. QED  BY <1>6, <2>1, <3>1 DEF new
  <2>2. CASE i # n
    <3>1. i \in 0 .. n - 1 /\ i + 1 \in 0 .. n  BY <2>2
    <3>2. halves'[i + 1] = halves[i + 1] /\ halves'[i] = halves[i]  BY <1>7, <3>1
    <3>3. halves[i + 1] = <<halves[i][2],
                            XorBits(mangler_function(halves[i][2], FirstKey(i)), halves[i][1])>>
      BY <3>1 DEF Network
    <3>4. QED  BY <3>2, <3>3
  <2>3. QED  BY <2>1, <2>2
<1>12. (n + 1) - 1 = n  OBVIOUS
<1>13. /\ halves'[0] = <<FirstHalf(permute(given.block, ip)), SecondHalf(permute(given.block, ip))>>
  BY <1>9 DEF Network
<1>14. QED  BY <1>8, <1>10, <1>11, <1>12, <1>13 DEF Network

(* What a network does not mention does not change it. *)
LEMMA NetworkKept ==
  ASSUME NEW n, Network(n), given' = given, order' = order, round_keys' = round_keys, halves' = halves
  PROVE  Network(n)'
<1>1. \A i : FirstKey(i)' = FirstKey(i)  BY DEF FirstKey
<1>2. QED  BY <1>1 DEF Network

(* The initial states. *)
LEMMA InitDes == DesInit => DesIInv
<1> SUFFICES ASSUME DesInit PROVE DesIInv
  OBVIOUS
<1>1. 0 \in 0 .. Rounds  BY Sizes
<1>2. Control
  <2>1. halves \in [0 .. Rounds -> {<<>>} \cup (Half \X Half)]  BY DEF DesInit
  <2>2. QED  BY <1>1, <2>1 DEF DesInit, Control
<1>3. pc = "keys" /\ des_call = 1 /\ bits = given.block  BY DEF DesInit
<1>t. FirstCall /\ SecondCall /\ Mirror /\ RoundTrip
  BY <1>3 DEF FirstCall, SecondCall, Mirror, RoundTrip
<1>4. QED  BY <1>2, <1>t DEF DesIInv

(* The key schedule runs before the first call and touches no block. *)
LEMMA KeysIInv == DesIInv /\ (GenKey \/ KeysMade) => DesIInv'
<1> SUFFICES ASSUME DesIInv, GenKey \/ KeysMade PROVE DesIInv'
  OBVIOUS
<1>1. /\ Control /\ pc = "keys" /\ des_call = 1 /\ bits = given.block
  BY DEF DesIInv, GenKey, KeysMade, Control, FirstCall
<1>2. /\ des_call' = 1 /\ pc' \in {"keys", "enter"} /\ bits' = bits
      /\ given' = given /\ order' = order /\ halves' = halves
  BY <1>1 DEF GenKey, KeysMade
<1>3. round' \in 0 .. Rounds
  <2>1. round \in 0 .. Rounds  BY <1>1 DEF Control
  <2>2. CASE GenKey
    <3>1. round < Rounds /\ round' = round + 1  BY <2>2 DEF GenKey
    <3>2. QED  BY <2>1, <3>1, Sizes
  <2>3. CASE KeysMade  BY <2>1, <2>3 DEF KeysMade
  <2>4. QED  BY <2>2, <2>3
<1>4. Control'  BY <1>1, <1>2, <1>3 DEF Control
<1>5. FirstCall'  BY <1>1, <1>2 DEF FirstCall
<1>6. SecondCall' /\ Mirror' /\ RoundTrip'  BY <1>2 DEF SecondCall, Mirror, RoundTrip
<1>7. QED  BY <1>4, <1>5, <1>6 DEF DesIInv

(* The first call opens the network, and the second starts from its end. *)
LEMMA EnterIInv == DesIInv /\ Enter => DesIInv'
<1> SUFFICES ASSUME DesIInv, Enter PROVE DesIInv'
  OBVIOUS
<1>1. /\ Control /\ pc = "enter" /\ des_call \in {1, 2} /\ given \in Cases
      /\ halves \in [0 .. Rounds -> {<<>>} \cup (Half \X Half)]
  BY DEF DesIInv, Enter, Control
<1>2. /\ des_call' = des_call /\ pc' = "rounds" /\ given' = given /\ order' = order
      /\ round_keys' = round_keys /\ round' = 0
      /\ left' = FirstHalf(permute(bits, ip)) /\ right' = SecondHalf(permute(bits, ip))
      /\ halves' = IF des_call = 1 THEN [halves EXCEPT ![0] = <<left', right'>>] ELSE halves
  BY DEF Enter
<1>3. 0 \in 0 .. Rounds /\ Rounds \in Nat  BY Sizes
<1>4. given.block \in Bits  BY <1>1, CasesAssumption
<1>5. CASE des_call = 1
  <2>1. bits = given.block  BY <1>1, <1>5 DEF DesIInv, FirstCall
  <2>2. left' \in Half /\ right' \in Half  BY <1>2, <1>4, <2>1, PermutationsFit, Cut
  <2>3. halves'[0] = <<left', right'>> /\ halves' \in [0 .. Rounds -> {<<>>} \cup (Half \X Half)]
    BY <1>1, <1>2, <1>3, <1>5, <2>2
  <2>4. Control'  BY <1>1, <1>2, <1>3, <2>3 DEF Control
  <2>5. Network(0)'
    <3>1. halves'[0] = <<FirstHalf(permute(given'.block, ip)), SecondHalf(permute(given'.block, ip))>>
      BY <1>2, <2>1, <2>3
    <3>2. \A i \in 0 .. 0 : halves'[i] \in Half \X Half
      <4>1. halves'[0] \in Half \X Half  BY <2>2, <2>3
      <4>2. QED  BY <4>1
    <3>3. \A i \in 0 .. 0 - 1 : FALSE  OBVIOUS
    <3>4. QED  BY <3>1, <3>2, <3>3 DEF Network
  <2>6. FirstCall'  BY <1>2, <2>3, <2>5 DEF FirstCall
  <2>7. QED
    BY <1>2, <1>5, <2>4, <2>6 DEF DesIInv, SecondCall, Mirror, RoundTrip
<1>6. CASE des_call = 2
  <2>1. Network(Rounds) /\ bits = permute(halves[Rounds][2] \o halves[Rounds][1], fp)
    BY <1>1, <1>6 DEF DesIInv, SecondCall
  <2> DEFINE l == halves[Rounds][1]
             r == halves[Rounds][2]
  <2>2. halves[Rounds] \in Half \X Half  BY <1>3, <2>1 DEF Network
  <2>3. l \in Half /\ r \in Half /\ halves[Rounds] = <<l, r>>  BY <2>2
  <2>4. r \o l \in Bits /\ FirstHalf(r \o l) = r /\ SecondHalf(r \o l) = l
    BY <2>3, Join
  <2>5. permute(bits, ip) = r \o l  BY <2>1, <2>4, PermutationsFit
  <2>6. left' = r /\ right' = l  BY <1>2, <2>4, <2>5
  <2>7. halves' = halves  BY <1>2, <1>6
  <2>8. Network(Rounds)'  BY <1>2, <2>1, <2>7, NetworkKept
  <2>9. Control'  BY <1>1, <1>2, <1>3, <2>7 DEF Control
  <2>10. Mirror'
    <3>1. Rounds - round' = Rounds  BY <1>2, <1>3
    <3>2. halves'[Rounds - round'] = <<right', left'>>  BY <2>3, <2>6, <2>7, <3>1
    <3>3. QED  BY <3>2 DEF Mirror
  <2>11. QED
    BY <1>2, <1>6, <2>8, <2>9, <2>10 DEF DesIInv, FirstCall, SecondCall, RoundTrip
<1>7. QED  BY <1>1, <1>5, <1>6

(* A round of the first call extends the network; a round of the second undoes *)
(* the round of the first that used the same round key.                        *)
LEMMA RoundIInv == DesIInv /\ Round => DesIInv'
<1> SUFFICES ASSUME DesIInv, Round PROVE DesIInv'
  OBVIOUS
<1>r. /\ round \in Nat /\ Rounds \in Nat /\ round < Rounds
      /\ round + 1 \in 0 .. Rounds /\ round \in 0 .. round
  <2>1. round \in 0 .. Rounds /\ round < Rounds  BY DEF DesIInv, Round, Control
  <2>2. QED  BY <2>1, Sizes
<1>1. /\ Control /\ pc = "rounds" /\ des_call \in {1, 2}
      /\ order \in {"encrypt first", "decrypt first"}
      /\ halves \in [0 .. Rounds -> {<<>>} \cup (Half \X Half)]
  BY DEF DesIInv, Round, Control
<1>2. /\ des_call' = des_call /\ pc' = pc /\ given' = given /\ order' = order /\ round_keys' = round_keys
      /\ round' = round + 1
      /\ right' = XorBits(mangler_function(right, RoundKey), left) /\ left' = right
      /\ halves' = IF des_call = 1 THEN [halves EXCEPT ![round + 1] = <<left', right'>>] ELSE halves
  BY DEF Round
<1>3. round' \in 0 .. Rounds  BY <1>r, <1>2
<1>4. CASE des_call = 1
  <2>1. Network(round) /\ halves[round] = <<left, right>>
    BY <1>1, <1>4 DEF DesIInv, FirstCall
  <2>2. RoundKey = FirstKey(round)
    BY <1>1, <1>4 DEF RoundKey, FirstKey, Forward
  <2>3. halves[round][1] = left /\ halves[round][2] = right  BY <2>1
  <2>4. halves' = [halves EXCEPT ![round + 1] =
                     <<halves[round][2],
                       XorBits(mangler_function(halves[round][2], FirstKey(round)), halves[round][1])>>]
    BY <1>2, <1>4, <2>2, <2>3
  <2>5. ASSUME NEW n \in Nat, n = round PROVE Network(n + 1)'
    <3>1. given' = given /\ order' = order /\ round_keys' = round_keys  BY <1>2
    <3>2. Control /\ n < Rounds /\ Network(n)  BY <1>1, <1>r, <2>1, <2>5
    <3>3. QED  BY <2>4, <2>5, <3>1, <3>2, NetworkGrows
  <2>6. halves'[round + 1] = <<left', right'>>
    <3>1. halves' = [halves EXCEPT ![round + 1] = <<left', right'>>]  BY <1>2, <1>4
    <3>2. QED  BY <1>1, <1>r, <3>1
  <2>7. halves'[round + 1] \in Half \X Half
    <3>1. halves[round] \in Half \X Half  BY <1>r, <2>1 DEF Network
    <3>2. left \in Half /\ right \in Half  BY <2>3, <3>1
    <3>3. QED  BY <1>2, <2>6, <3>2, ManglerType, XorLaws
  <2>8. halves' \in [0 .. Rounds -> {<<>>} \cup (Half \X Half)]
    <3>1. halves' = [halves EXCEPT ![round + 1] = <<left', right'>>]  BY <1>2, <1>4
    <3>2. <<left', right'>> \in Half \X Half  BY <2>6, <2>7
    <3>3. QED  BY <1>1, <3>1, <3>2
  <2>9. Control'  BY <1>1, <1>2, <1>3, <2>8 DEF Control
  <2>10. FirstCall'
    <3>1. PICK n \in Nat : n = round  BY <1>r
    <3>2. round' = n + 1 /\ pc' = "rounds"  BY <1>1, <1>2, <3>1
    <3>3. Network(n + 1)'  BY <2>5, <3>1
    <3>4. Network(round)'  BY <3>2, <3>3 DEF Network
    <3>5. halves'[round'] = <<left', right'>>  BY <2>6, <3>1, <3>2
    <3>6. QED  BY <3>2, <3>4, <3>5 DEF FirstCall
  <2>11. SecondCall' /\ Mirror' /\ RoundTrip'
    <3>1. des_call' = 1 /\ pc' = "rounds"  BY <1>1, <1>2, <1>4
    <3>2. QED  BY <3>1 DEF SecondCall, Mirror, RoundTrip
  <2>12. QED  BY <2>9, <2>10, <2>11 DEF DesIInv
<1>5. CASE des_call = 2
  <2> DEFINE j == Rounds - round - 1
             l == halves[j][1]
             r == halves[j][2]
             f == mangler_function(r, FirstKey(j))
  <2>1. Network(Rounds) /\ halves[Rounds - round] = <<right, left>>
    BY <1>1, <1>5 DEF DesIInv, SecondCall, Mirror
  <2>2. j \in 0 .. Rounds - 1 /\ j + 1 = Rounds - round /\ j = Rounds - (round + 1)
    BY <1>r
  <2>3. RoundKey = FirstKey(j)
    <3>1. Rounds - j = 1 + round /\ 1 + j = Rounds - round  BY <1>r
    <3>2. CASE order = "encrypt first"
      <4>c. des_call # 1  BY <1>5
      <4>0. ~Forward  BY <3>2, <4>c DEF Forward
      <4>1. RoundKey = round_keys[Rounds - round]  BY <4>0 DEF RoundKey
      <4>2. FirstKey(j) = round_keys[1 + j]  BY <3>2 DEF FirstKey
      <4>3. QED  BY <3>1, <4>1, <4>2
    <3>3. CASE order = "decrypt first"
      <4>c. des_call # 1  BY <1>5
      <4>o. order # "encrypt first"  BY <3>3
      <4>0. Forward  BY <4>c, <4>o DEF Forward
      <4>1. RoundKey = round_keys[1 + round]  BY <4>0 DEF RoundKey
      <4>2. FirstKey(j) = round_keys[Rounds - j]  BY <3>3 DEF FirstKey
      <4>3. QED  BY <3>1, <4>1, <4>2
    <3>4. QED  BY <1>1, <3>2, <3>3
  <2>4. halves[j] \in Half \X Half /\ halves[j + 1] = <<r, XorBits(f, l)>>
    <3> HIDE DEF j
    <3>1. j \in 0 .. Rounds  BY <1>r, <2>2
    <3>2. halves[j] \in Half \X Half  BY <2>1, <3>1 DEF Network
    <3>3. halves[j + 1] = <<r, XorBits(f, l)>>  BY <2>1, <2>2 DEF Network
    <3>4. QED  BY <3>2, <3>3
  <2>5. l \in Half /\ r \in Half /\ halves[j] = <<l, r>> /\ f \in Half
    BY <2>4, ManglerType
  <2>6. right = r /\ left = XorBits(f, l)  BY <2>1, <2>2, <2>4
  <2>7. right' = l
    <3>1. right' = XorBits(f, XorBits(f, l))  BY <1>2, <2>3, <2>6
    <3>2. QED  BY <2>5, <3>1, XorLaws
  <2>8. left' = r  BY <1>2, <2>6
  <2>9. halves' = halves  BY <1>2, <1>5
  <2>10. Mirror'
    <3>1. halves'[Rounds - round'] = <<right', left'>>
      <4>1. Rounds - round' = j  BY <1>2, <2>2
      <4>2. QED  BY <2>5, <2>7, <2>8, <2>9, <4>1
    <3>2. QED  BY <3>1 DEF Mirror
  <2>11. Network(Rounds)'  BY <1>2, <2>1, <2>9, NetworkKept
  <2>12. Control'  BY <1>1, <1>2, <1>3, <2>9 DEF Control
  <2>13. FirstCall' /\ SecondCall' /\ RoundTrip'
    <3>1. des_call' = 2 /\ pc' = "rounds"  BY <1>1, <1>2, <1>5
    <3>2. QED  BY <2>11, <3>1 DEF FirstCall, SecondCall, RoundTrip
  <2>14. QED  BY <2>10, <2>12, <2>13 DEF DesIInv
<1>6. QED  BY <1>1, <1>4, <1>5

(* The first call leaves the end of its network behind; the second has come *)
(* back to its start, and the final permutation undoes the initial one.     *)
LEMMA LeaveIInv == DesIInv /\ Leave => DesIInv'
<1> SUFFICES ASSUME DesIInv, Leave PROVE DesIInv'
  OBVIOUS
<1>1. /\ Control /\ pc = "rounds" /\ des_call \in {1, 2} /\ round = Rounds /\ Rounds \in Nat
      /\ given \in Cases
  BY Sizes DEF DesIInv, Leave, Control
<1>2. /\ given' = given /\ order' = order /\ round_keys' = round_keys /\ halves' = halves
      /\ round' = round /\ bits' = permute(right \o left, fp)
  BY DEF Leave
<1>3. CASE des_call = 1
  <2>1. des_call' = 2 /\ pc' = "enter"  BY <1>3 DEF Leave
  <2>2. Network(Rounds) /\ halves[Rounds] = <<left, right>>
    BY <1>1, <1>3 DEF DesIInv, FirstCall
  <2>3. Network(Rounds)'  BY <1>2, <2>2, NetworkKept
  <2>4. bits' = permute(halves'[Rounds][2] \o halves'[Rounds][1], fp)  BY <1>2, <2>2
  <2>5. Control'  BY <1>1, <1>2, <2>1 DEF Control
  <2>6. QED
    BY <2>1, <2>3, <2>4, <2>5 DEF DesIInv, FirstCall, SecondCall, Mirror, RoundTrip
<1>4. CASE des_call = 2
  <2>1. des_call' = 2 /\ pc' = "done"  BY <1>4 DEF Leave
  <2>2. Network(Rounds) /\ halves[0] = <<right, left>>
    <3>1. Rounds - round = 0  BY <1>1
    <3>2. QED  BY <1>1, <1>4, <3>1 DEF DesIInv, SecondCall, Mirror
  <2> DEFINE start == permute(given.block, ip)
  <2>3. right = FirstHalf(start) /\ left = SecondHalf(start)  BY <2>2 DEF Network
  <2>4. given.block \in Bits  BY <1>1, CasesAssumption
  <2>5. start \in Bits /\ permute(start, fp) = given.block  BY <2>4, PermutationsFit
  <2>6. right \o left = start
    <3>1. FirstHalf(start) \o SecondHalf(start) = start  BY <2>5, Cut
    <3>2. QED  BY <2>3, <3>1
  <2>7. bits' = given.block  BY <1>2, <2>5, <2>6
  <2>8. RoundTrip'  BY <1>2, <2>7 DEF RoundTrip
  <2>9. Network(Rounds)'  BY <1>2, <2>2, NetworkKept
  <2>10. Control'  BY <1>1, <1>2, <2>1 DEF Control
  <2>11. QED
    BY <2>1, <2>8, <2>9, <2>10 DEF DesIInv, FirstCall, SecondCall, Mirror
<1>5. QED  BY <1>1, <1>3, <1>4

LEMMA StutterDes == DesIInv /\ UNCHANGED desvars => DesIInv'
<1> SUFFICES ASSUME DesIInv, UNCHANGED desvars PROVE DesIInv'
  OBVIOUS
<1>1. \A n : Network(n) => Network(n)'  BY NetworkKept DEF desvars
<1>2. QED
  BY <1>1 DEF desvars, DesIInv, Control, FirstCall, SecondCall, Mirror, RoundTrip

-----------------------------------------------------------------------------
(* The first call is a Feistel network whose halves are in the history, and *)
(* the second walks it backwards: this is preserved by every step of        *)
(* des_gen_keys, des_algo_encrypt and des_algo_decrypt.                     *)
THEOREM DesInvariance == DesSpec => []DesIInv
<1>1. DesInit => DesIInv  BY InitDes
<1>2. DesIInv /\ [DesNext]_desvars => DesIInv'
  BY KeysIInv, EnterIInv, RoundIInv, LeaveIInv, StutterDes DEF DesNext, DesEnded
<1>3. QED  BY <1>1, <1>2, PTL DEF DesSpec

(* Each of des_algo_encrypt and des_algo_decrypt undoes the other, for every *)
(* key and block, every key schedule, every expansion and every s-box.       *)
THEOREM RoundTripHolds == DesSpec => []RoundTrip
<1>1. DesIInv => RoundTrip  BY DEF DesIInv
<1>2. QED  BY <1>1, DesInvariance, PTL

(* The second call goes through the halves of the first, exchanged and *)
(* backwards.                                                          *)
THEOREM MirrorHolds == DesSpec => []Mirror
<1>1. DesIInv => Mirror  BY DEF DesIInv
<1>2. QED  BY <1>1, DesInvariance, PTL

-----------------------------------------------------------------------------
(* Triple DES.                                                             *)

(* What the cipher is given and what is made of its answer are blocks, and  *)
(* the three stages of an encryption go from one block to the next.         *)
LEMMA BlockTypes ==
  ASSUME TypeOK
  PROVE  /\ EncodeInput \in Block
         /\ \A b \in Block : /\ EncodeOutput(b) \in Block
                             /\ DecodeInput(b) \in Block
                             /\ DecodeOutput(b) \in Block
<1>1. /\ enc_mode \in {"ECB", "CBC", "PCBC", "CFB", "OFB"}
      /\ iv \in Block /\ plain \in Block /\ cipher \in Block
  BY DEF TypeOK, Chained, Stream
<1>2. EncodeInput \in Block  BY <1>1, XorAssumption DEF EncodeInput, Stream
<1>3. \A b \in Block : EncodeOutput(b) \in Block  BY <1>1, XorAssumption DEF EncodeOutput, Stream
<1>4. \A b \in Block : DecodeInput(b) \in Block  BY <1>1 DEF DecodeInput, Stream
<1>5. \A b \in Block : DecodeOutput(b) \in Block  BY <1>1, XorAssumption DEF DecodeOutput, Stream
<1>6. QED  BY <1>2, <1>3, <1>4, <1>5

LEMMA Stages ==
  ASSUME TypeOK
  PROVE  /\ keys[0] \in Key /\ keys[1] \in Key /\ keys[2] \in Key
         /\ \A s \in 0 .. 3 : Partial(s) \in Block
         /\ Partial(0) = EncodeInput
         /\ Partial(1) = des_algo_encrypt(Partial(0), keys[0])
         /\ Partial(2) = des_algo_decrypt(Partial(1), keys[1])
         /\ Partial(3) = des_algo_encrypt(Partial(2), keys[2])
<1>1. keys[0] \in Key /\ keys[1] \in Key /\ keys[2] \in Key  BY DEF TypeOK
<1>2. /\ Partial(0) = EncodeInput
      /\ Partial(1) = des_algo_encrypt(Partial(0), keys[0])
      /\ Partial(2) = des_algo_decrypt(Partial(1), keys[1])
      /\ Partial(3) = des_algo_encrypt(Partial(2), keys[2])
  BY DEF Partial
<1>3. Partial(0) \in Block  BY <1>2, BlockTypes
<1>4. Partial(1) \in Block  BY <1>1, <1>2, <1>3, DesAssumption
<1>5. Partial(2) \in Block  BY <1>1, <1>2, <1>4, DesAssumption
<1>6. Partial(3) \in Block  BY <1>1, <1>2, <1>5, DesAssumption
<1>7. ASSUME NEW s \in 0 .. 3 PROVE Partial(s) \in Block
  <2>1. s = 0 \/ s = 1 \/ s = 2 \/ s = 3  OBVIOUS
  <2>2. QED  BY <1>3, <1>4, <1>5, <1>6, <2>1
<1>8. QED  BY <1>1, <1>2, <1>7

(* What an encryption makes of the first block, the decryption takes back, once *)
(* its cipher gives back what the cipher of the encryption was given, or, in a  *)
(* stream mode, the same answer.                                                *)
LEMMA Undone ==
  ASSUME TypeOK, NEW b \in Block, cipher = EncodeOutput(b)
  PROVE  /\ enc_mode \in Chained => DecodeOutput(EncodeInput) = plain
         /\ enc_mode \in Stream  => DecodeOutput(b) = plain
<1>1. iv \in Block /\ plain \in Block  BY DEF TypeOK
<1>2. BlockXor(BlockXor(plain, iv), iv) = plain /\ BlockXor(BlockXor(plain, b), b) = plain
  BY <1>1, XorAssumption
<1>3. CASE enc_mode = "ECB"
  BY <1>3 DEF EncodeInput, DecodeOutput, Chained, Stream
<1>4. CASE enc_mode \in {"CBC", "PCBC"}
  BY <1>2, <1>4 DEF EncodeInput, DecodeOutput, Chained, Stream
<1>5. CASE enc_mode \in Stream
  BY <1>2, <1>5 DEF EncodeOutput, DecodeOutput, Chained, Stream
<1>6. QED  BY <1>3, <1>4, <1>5 DEF TypeOK, Chained, Stream

(* The initial states: the three stages lie ahead. *)
LEMMA InitIInv == Init => IInv
<1> SUFFICES ASSUME Init PROVE IInv
  OBVIOUS
<1>1. TypeOK
  <2>1. /\ enc_mode \in {"ECB", "CBC", "PCBC", "CFB", "OFB"}
        /\ iv \in Block /\ plain \in Block /\ block = EncodeInput
    BY DEF Init, Chained, Stream
  <2>2. block \in Block  BY <2>1, XorAssumption DEF EncodeInput, Stream
  <2>3. QED  BY <2>2 DEF Init, TypeOK
<1>2. call = "encode" /\ block = Partial(stage)  BY DEF Init, Partial
<1>3. QED  BY <1>1, <1>2 DEF IInv, StreamRoundTrip, TwoKeyRoundTrip

(* A stage goes on along the three stages of the encryption, or back along them *)
(* when the cipher decrypts and its third key is the first.                     *)
LEMMA StageIInv == IInv /\ Stage => IInv'
<1> SUFFICES ASSUME IInv, Stage PROVE IInv'
  OBVIOUS
<1>1. /\ TypeOK /\ call \in {"encode", "decode"}
      /\ enc_mode \in {"ECB", "CBC", "PCBC", "CFB", "OFB"}
      /\ enc_mode' = enc_mode /\ keys' = keys /\ iv' = iv /\ plain' = plain
      /\ call' = call /\ cipher' = cipher /\ result' = result
  BY DEF IInv, Stage, TypeOK, Chained, Stream
<1>2. stage \in 0 .. 2 /\ stage' = stage + 1 /\ stage' \in 1 .. 3
  BY DEF IInv, Stage, TypeOK
<1>3. stage = 0 \/ stage = 1 \/ stage = 2  BY <1>2
<1>k. keys[0] \in Key /\ keys[1] \in Key /\ keys[2] \in Key  BY <1>1, Stages
<1>b. \A b \in Block, k \in Key : des_algo_encrypt(b, k) \in Block /\ des_algo_decrypt(b, k) \in Block
  BY DesAssumption
<1>4. keys[stage] \in Key /\ block \in Block  BY <1>1, <1>3, <1>k DEF TypeOK
<1>5. block' \in Block
  BY <1>4, <1>b DEF Stage, des3_algo_encrypt, des3_algo_decrypt
<1>6. TypeOK'  BY <1>1, <1>2, <1>5 DEF TypeOK
<1>7. /\ Partial(0)' = Partial(0) /\ Partial(1)' = Partial(1)
      /\ Partial(2)' = Partial(2) /\ Partial(3)' = Partial(3)
      /\ \A b : EncodeOutput(b)' = EncodeOutput(b)
  BY <1>1 DEF Partial, EncodeInput, EncodeOutput
<1>8. ASSUME Encrypts, block = Partial(stage)  PROVE (block = Partial(stage))'
  <2>1. des3_algo_encrypt  BY <1>8 DEF Stage
  <2>2. CASE stage = 0
    <3>1. block' = Partial(1)
      BY <1>1, <1>8, <2>1, <2>2, Stages DEF des3_algo_encrypt
    <3>2. stage' = 1  BY <1>2, <2>2
    <3>3. QED  BY <1>7, <3>1, <3>2 DEF Partial
  <2>3. CASE stage = 1
    <3>1. block' = Partial(2)
      BY <1>1, <1>8, <2>1, <2>3, Stages DEF des3_algo_encrypt
    <3>2. stage' = 2  BY <1>2, <2>3
    <3>3. QED  BY <1>7, <3>1, <3>2 DEF Partial
  <2>4. CASE stage = 2
    <3>1. block' = Partial(3)
      BY <1>1, <1>8, <2>1, <2>4, Stages DEF des3_algo_encrypt
    <3>2. stage' = 3  BY <1>2, <2>4
    <3>3. QED  BY <1>7, <3>1, <3>2 DEF Partial
  <2>5. QED  BY <1>3, <2>2, <2>3, <2>4
<1>9. ASSUME ~Encrypts, keys[0] = keys[2], block = Partial(3 - stage)
      PROVE  (block = Partial(3 - stage))'
  <2>1. des3_algo_decrypt  BY <1>9 DEF Stage
  <2>2. \A b \in Block, k \in Key :
          /\ des_algo_decrypt(des_algo_encrypt(b, k), k) = b
          /\ des_algo_encrypt(des_algo_decrypt(b, k), k) = b
    BY DesAssumption
  <2>3. /\ Partial(0) \in Block /\ Partial(1) \in Block /\ Partial(2) \in Block
        /\ Partial(1) = des_algo_encrypt(Partial(0), keys[0])
        /\ Partial(2) = des_algo_decrypt(Partial(1), keys[1])
        /\ Partial(3) = des_algo_encrypt(Partial(2), keys[2])
    <3>1. 0 \in 0 .. 3 /\ 1 \in 0 .. 3 /\ 2 \in 0 .. 3  OBVIOUS
    <3>2. QED  BY <1>1, <3>1, Stages
  <2>4. CASE stage = 0
    <3>1. block = Partial(3)  BY <1>9, <2>4
    <3>2. block' = Partial(2)
      <4>1. block' = des_algo_decrypt(Partial(3), keys[2])
        BY <1>9, <2>1, <2>4, <3>1 DEF des3_algo_decrypt
      <4>2. QED  BY <1>k, <2>2, <2>3, <4>1
    <3>3. 3 - stage' = 2  BY <1>2, <2>4
    <3>4. QED  BY <1>7, <3>2, <3>3 DEF Partial
  <2>5. CASE stage = 1
    <3>1. block = Partial(2)  BY <1>9, <2>5
    <3>2. block' = Partial(1)
      <4>1. block' = des_algo_encrypt(Partial(2), keys[1])
        BY <2>1, <2>5, <3>1 DEF des3_algo_decrypt
      <4>2. QED  BY <1>k, <2>2, <2>3, <4>1
    <3>3. 3 - stage' = 1  BY <1>2, <2>5
    <3>4. QED  BY <1>7, <3>2, <3>3 DEF Partial
  <2>6. CASE stage = 2
    <3>1. block = Partial(1)  BY <1>9, <2>6
    <3>2. block' = Partial(0)
      <4>1. block' = des_algo_decrypt(Partial(1), keys[0])
        BY <1>9, <2>1, <2>6, <3>1 DEF des3_algo_decrypt
      <4>2. QED  BY <1>k, <2>2, <2>3, <4>1
    <3>3. 3 - stage' = 0  BY <1>2, <2>6
    <3>4. QED  BY <1>7, <3>2, <3>3 DEF Partial
  <2>7. QED  BY <1>3, <2>4, <2>5, <2>6
<1>10. CASE call = "encode"
  <2>1. (block = Partial(stage))'  BY <1>8, <1>10 DEF IInv, Encrypts
  <2>2. QED
    BY <1>1, <1>6, <1>10, <2>1 DEF IInv, StreamRoundTrip, TwoKeyRoundTrip
<1>11. CASE call = "decode"
  <2>1. (cipher = EncodeOutput(Partial(3)))'
    BY <1>1, <1>11 DEF IInv, Partial, EncodeInput, EncodeOutput
  <2>2. enc_mode \in Stream => (block = Partial(stage))'
    BY <1>8, <1>11 DEF IInv, Encrypts
  <2>3. enc_mode \in Chained /\ keys[0] = keys[2] => (block = Partial(3 - stage))'
    <3>1. enc_mode \in Chained => ~Encrypts  BY <1>11 DEF Encrypts, Chained, Stream
    <3>2. QED  BY <1>9, <1>11, <3>1 DEF IInv
  <2>4. StreamRoundTrip' /\ TwoKeyRoundTrip'
    BY <1>1, <1>11 DEF StreamRoundTrip, TwoKeyRoundTrip
  <2>5. call' # "encode"  BY <1>1, <1>11
  <2>6. QED  BY <1>1, <1>6, <2>1, <2>2, <2>3, <2>4, <2>5 DEF IInv
<1>12. QED  BY <1>1, <1>10, <1>11

(* The ciphertext of the last stage is what the decryption begins with. *)
LEMMA EncodedIInv == IInv /\ Encoded => IInv'
<1> SUFFICES ASSUME IInv, Encoded PROVE IInv'
  OBVIOUS
<1>1. /\ TypeOK /\ block = Partial(3)
      /\ enc_mode \in {"ECB", "CBC", "PCBC", "CFB", "OFB"}
  BY DEF IInv, Encoded, TypeOK, Chained, Stream
<1>2. /\ enc_mode' = enc_mode /\ keys' = keys /\ iv' = iv /\ plain' = plain
      /\ call' = "decode" /\ stage' = 0 /\ result' = result
      /\ cipher' = EncodeOutput(block) /\ block' = DecodeInput(cipher')
  BY DEF Encoded, DecodeInput
<1>3. block \in Block  BY <1>1 DEF TypeOK
<1>4. cipher' \in Block /\ block' \in Block  BY <1>1, <1>2, <1>3, BlockTypes
<1>5. TypeOK'  BY <1>1, <1>2, <1>4 DEF TypeOK
<1>6. (cipher = EncodeOutput(Partial(3)))'
  <2>1. cipher' = EncodeOutput(Partial(3))  BY <1>1, <1>2
  <2>2. QED  BY <1>2, <2>1 DEF EncodeOutput, Partial, EncodeInput
<1>7. enc_mode \in Stream => (block = Partial(0))'
  BY <1>2 DEF DecodeInput, Partial, EncodeInput, Stream
<1>8. enc_mode \in Chained => (block = Partial(3))'
  <2>1. SUFFICES ASSUME enc_mode \in Chained PROVE (block = Partial(3))'
    OBVIOUS
  <2>2. block' = Partial(3)
    BY <1>1, <1>2, <2>1 DEF DecodeInput, EncodeOutput, Chained, Stream
  <2>3. QED  BY <1>2, <2>2 DEF Partial, EncodeInput
<1>9. stage' = 0 /\ 3 - stage' = 3  BY <1>2
<1>10. StreamRoundTrip' /\ TwoKeyRoundTrip'  BY <1>2 DEF StreamRoundTrip, TwoKeyRoundTrip
<1>11. QED
  <2>1. enc_mode \in Stream => (block = Partial(stage))'  BY <1>7, <1>9 DEF Partial
  <2>2. enc_mode \in Chained => (block = Partial(3 - stage))'  BY <1>8, <1>9 DEF Partial
  <2>3. QED  BY <1>2, <1>5, <1>6, <1>10, <2>1, <2>2 DEF IInv

(* The decryption ends where the encryption began. *)
LEMMA DecodedIInv == IInv /\ Decoded => IInv'
<1> SUFFICES ASSUME IInv, Decoded PROVE IInv'
  OBVIOUS
<1>1. /\ TypeOK /\ call = "decode" /\ stage = 3 /\ cipher = EncodeOutput(Partial(3))
      /\ enc_mode \in Chained \cup Stream
  BY DEF IInv, Decoded, TypeOK
<1>2. /\ enc_mode' = enc_mode /\ keys' = keys /\ iv' = iv /\ plain' = plain
      /\ call' = "done" /\ stage' = stage /\ block' = block /\ cipher' = cipher
      /\ result' = DecodeOutput(block)
  BY DEF Decoded
<1>3. block \in Block /\ result' \in Block
  <2>1. block \in Block  BY <1>1 DEF TypeOK
  <2>2. QED  BY <1>1, <1>2, <2>1, BlockTypes
<1>4. TypeOK'  BY <1>1, <1>2, <1>3 DEF TypeOK
<1>5. 3 \in 0 .. 3 /\ 3 - 3 = 0  OBVIOUS
<1>6. Partial(3) \in Block /\ Partial(0) = EncodeInput  BY <1>1, <1>5, Stages
<1>7. enc_mode \in Stream => result' = plain
  <2>1. enc_mode \in Stream => block = Partial(3)  BY <1>1 DEF IInv
  <2>2. QED  BY <1>1, <1>2, <1>6, <2>1, Undone
<1>8. enc_mode \in Chained /\ keys[0] = keys[2] => result' = plain
  <2>1. enc_mode \in Chained /\ keys[0] = keys[2] => block = Partial(0)
    BY <1>1, <1>5 DEF IInv
  <2>2. QED  BY <1>1, <1>2, <1>6, <2>1, Undone
<1>9. StreamRoundTrip' /\ TwoKeyRoundTrip'
  BY <1>1, <1>2, <1>7, <1>8 DEF StreamRoundTrip, TwoKeyRoundTrip
<1>10. (cipher = EncodeOutput(Partial(3)))'
  BY <1>1, <1>2 DEF EncodeOutput, Partial, EncodeInput
<1>11. QED  BY <1>2, <1>4, <1>9, <1>10 DEF IInv

LEMMA StutterIInv == IInv /\ UNCHANGED vars => IInv'
BY DEF vars, IInv, TypeOK, Partial, EncodeInput, EncodeOutput, StreamRoundTrip, TwoKeyRoundTrip

-----------------------------------------------------------------------------
(* Where each call is on its way through the three stages, in every mode. *)
THEOREM TripleInvariance == Spec => []IInv
<1>1. IInv /\ [Next]_vars => IInv'
  BY StageIInv, EncodedIInv, DecodedIInv, StutterIInv DEF Next, Ended
<1>2. QED  BY InitIInv, <1>1, PTL DEF Spec

(* The stream modes decode what they encode, with any three keys. *)
THEOREM StreamRoundTripHolds == Spec => []StreamRoundTrip
<1>1. IInv => StreamRoundTrip  BY DEF IInv
<1>2. QED  BY <1>1, TripleInvariance, PTL

(* Every mode decodes what it encodes when the third key is the first. *)
THEOREM TwoKeyRoundTripHolds == Spec => []TwoKeyRoundTrip
<1>1. IInv => TwoKeyRoundTrip  BY DEF IInv
<1>2. QED  BY <1>1, TripleInvariance, PTL

(* With one key three times, the ciphertext is that of a single DES. *)
THEOREM SingleKeyHolds == Spec => []SingleKeyIsDes
<1>1. IInv => SingleKeyIsDes
  <2> SUFFICES ASSUME IInv, call # "encode", keys[0] = keys[1], keys[1] = keys[2]
               PROVE  cipher = EncodeOutput(des_algo_encrypt(EncodeInput, keys[0]))
    BY DEF SingleKeyIsDes
  <2>1. TypeOK /\ cipher = EncodeOutput(Partial(3))  BY DEF IInv
  <2>2. 0 \in 0 .. 3  OBVIOUS
  <2>3. Partial(2) = Partial(0)
    <3>1. Partial(0) \in Block /\ keys[0] \in Key  BY <2>1, <2>2, Stages
    <3>2. Partial(2) = des_algo_decrypt(des_algo_encrypt(Partial(0), keys[0]), keys[0])
      BY <2>1, Stages
    <3>3. QED  BY <3>1, <3>2, DesAssumption
  <2>4. Partial(3) = des_algo_encrypt(EncodeInput, keys[0])  BY <2>1, <2>3, Stages
  <2>5. QED  BY <2>1, <2>4
<1>2. QED  BY <1>1, TripleInvariance, PTL

-----------------------------------------------------------------------------
(* Where keys come from.                                                   *)

OptFields == {"key", "keyGiven", "salt", "saltGiven", "iv", "ivGiven", "password", "prompt", "md"}

\* What the password, the digest and the salt in front of the file make of options.
Made(o) ==
    LET derived == pbkdf1(o.md, o.password, header)
    IN  o.key = SubSeq(derived, 1, KeyBytes) /\ (~o.ivGiven => o.iv = IvOf(derived))

UsedMade == \A n \in 1 .. Len(used) : ~used[n].keyGiven => Made(used[n])

Derived ==
    /\ algo \in {"des", "des3"} /\ command \in {1, 2}
    /\ DOMAIN opts = OptFields
    /\ key_pc \in {"salt", "derive"} => ~opts.keyGiven
    /\ key_pc = "derive" => opts.salt = header
    /\ key_pc = "ready" /\ ~opts.keyGiven => Len(dk) = dk_len /\ Made(opts)
    /\ command = 1 => /\ key_pc # "done"
                      /\ IF key_pc = "next" THEN used = <<used[1]>> ELSE used = <<>>
    /\ command = 2 => /\ key_pc # "next"
                      /\ key_pc # "done" => used = <<used[1]>>
                      /\ key_pc = "done" => Len(used) = 2
    /\ UsedMade

\* How much of the first command line is read.
Text == Seq(0 .. Other)
OptionText == [id : {"key", "salt", "iv", "pass"}, value : Text] \cup [id : {"md"}, value : STRING]
First == lines[1]
Count == Len(First) - Len(key_line)
Reading == key_pc \in {"options", "hex", "spaces", "digits"}
\* Where its keys are.
Keyed == {n \in 1 .. Count : First[n].id = "key"}

\* The m bytes of a key are the first digits of its text, two for each.
HexDecoded(t, m) ==
    /\ out \in [1 .. m -> Nat]
    /\ \A k \in 1 .. Len(t) : k <= 2 * m => t[k] \in Digit
    /\ \A k \in 1 .. m : out[k] = t[2 * k - 1] * Base + (IF 2 * k <= Len(t) THEN t[2 * k] ELSE 0)
Hexed ==
    /\ key_line # <<>> /\ Option.id = "key"
    /\ \E m \in 0 .. KeyBytes :
          /\ 2 * m <= Len(Option.value) + 1
          /\ key_text = SubSeq(Option.value, 2 * m + 1, Len(Option.value))
          /\ HexDecoded(Option.value, m)

\* The last of them is what it stands for.
KeyIs(n) ==
    LET t == First[n].value
    IN  IsKey(t) /\ (algo = "des" \/ Keyed = {n} => TwoDigits(opts.key) = t \o Zeros(2 * KeyBytes - Len(t)))
LastKey(n) == n \in Keyed /\ \A m \in Keyed : m <= n
Kept == /\ ~opts.keyGiven => Keyed = {} /\ opts.key = Zeros(KeyBytes)
        /\ opts.keyGiven => \E n : LastKey(n) /\ KeyIs(n)
        /\ opts.key \in [1 .. KeyBytes -> Nat]
Lined == /\ First \in Seq(OptionText) /\ key_line \in Seq(OptionText)
         /\ Len(key_line) <= Len(First) /\ key_line = SubSeq(First, Count + 1, Len(First))

KeyText ==
    command = 1 =>
        /\ Lined
        /\ key_pc \in {"options", "hex", "spaces", "digits", "failed"} \/ key_line = <<>>
        /\ key_pc = "hex" => Hexed
        /\ key_pc \in {"spaces", "digits"} => key_line # <<>> /\ Option.id \in {"salt", "iv"}
        /\ Reading => Kept
        /\ key_pc = "salt" => ~opts.keyGiven
        /\ key_pc = "failed" /\ key_line # <<>> /\ Option.id = "key" => ~IsKey(Option.value)

KInv == Derived /\ KeyText

-----------------------------------------------------------------------------
(* A key has at least one byte, and the IV as many as a word. *)
LEMMA KeySizes == /\ Bytes \in Nat \ {0} /\ Size = 2 * Bytes
                  /\ KeyBytes \in Nat \ {0} /\ dk_len \in Nat \ {0}
                  /\ KeyBytes = (IF algo = "des3" THEN 3 * Bytes ELSE Bytes)
                  /\ dk_len = KeyBytes + Bytes
<1>1. Bytes \in Nat \ {0} /\ Size = 2 * Bytes  BY NumberAssumption DEF Bytes
<1>2. QED  BY <1>1 DEF KeyBytes, dk_len

(* What derive_key accepts has as many bytes as it wants. *)
LEMMA EnoughBytes ==
  ASSUME algo \in {"des", "des3"}, NEW md, NEW password, NEW salt, ValidMd(md)
  PROVE  /\ Len(pbkdf1(md, password, salt)) = dk_len
         /\ pbkdf1(md, password, salt) # <<>>
<1>1. Output[md] * Bytes \in Nat /\ dk_len <= Output[md] * Bytes
  <2>1. Output[md] \in {2, 4, 8} /\ (algo = "des3" => Output[md] >= 4)
    BY DEF ValidMd, Output
  <2>2. QED  BY <2>1, KeySizes
<1> DEFINE digest == Md(md, password \o BigEndian(salt))
           written == [k \in 1 .. dk_len |-> digest[k]]
<1>2. pbkdf1(md, password, salt) = written  BY <1>1, KeySizes DEF pbkdf1
<1>3. Len(written) = dk_len  BY KeySizes
<1> HIDE DEF written
<1>4. written # <<>>  BY <1>3, KeySizes
<1>5. QED  BY <1>2, <1>3, <1>4

LEMMA SameMade ==
  ASSUME UNCHANGED <<algo, header>>, NEW o
  PROVE  Made(o)' <=> Made(o)
BY DEF Made, pbkdf1, KeyBytes, dk_len, IvOf

(* The options are parsed. *)
LEMMA ParseDerives == Derived /\ Parse => Derived'
<1> SUFFICES ASSUME Derived, Parse PROVE Derived'
  OBVIOUS
<1>1. UNCHANGED <<algo, command, header, dk, used>>
  BY DEF Parse, register_text, register_password_value, register_md, HexPair, HexLast, register_key,
         SkipSpaces, TakeDigit, register_number, read_pass, Parsed, Same, parser
<1>2. DOMAIN opts' = OptFields
  BY DEF Derived, Parse, register_text, register_password_value, register_md, HexPair, HexLast,
         register_key, SkipSpaces, TakeDigit, register_number, read_pass, Parsed, parser, Fail
<1>3. key_pc \notin {"next", "done", "ready", "salt", "derive"} /\ key_pc' \notin {"next", "done", "derive"}
  BY DEF Parse, register_text, register_password_value, register_md, HexPair, HexLast, register_key,
         SkipSpaces, TakeDigit, register_number, read_pass, Parsed, Meets, Fail, Handled
<1>4. (key_pc' = "salt" => ~opts'.keyGiven) /\ (key_pc' = "ready" => opts'.keyGiven)
  BY DEF Derived, OptFields, Parse, register_text, register_password_value, register_md, HexPair, HexLast,
         register_key, SkipSpaces, TakeDigit, register_number, read_pass, Parsed, Meets, Fail, Handled
<1>5. UsedMade'
  BY <1>1, SameMade DEF Derived, UsedMade
<1>6. QED  BY <1>1, <1>2, <1>3, <1>4, <1>5 DEF Derived

(* Each command ends its work with options that the password made, or a key. *)
LEMMA CommandDerives == Derived /\ Derive => Derived'
<1> SUFFICES ASSUME Derived, Derive PROVE Derived'
  OBVIOUS
<1>1. CASE write_salt
  <2>1. PICK salt : opts' = [opts EXCEPT !.salt = salt] /\ header' = salt  BY <1>1 DEF write_salt
  <2>2. used = <<>> /\ UNCHANGED used /\ command = 1 /\ key_pc = "salt"  BY <1>1 DEF Derived, write_salt
  <2>3. DOMAIN opts' = OptFields /\ opts'.salt = salt /\ ~opts'.keyGiven
    BY <2>1, <2>2 DEF Derived, OptFields
  <2>4. QED  BY <1>1, <2>1, <2>2, <2>3 DEF Derived, UsedMade, write_salt, Same
<1>2. CASE read_salt
  <2>1. key_pc = "salt" /\ command = 2 /\ UNCHANGED <<algo, command, header, used>>
    BY <1>2 DEF read_salt, Same
  <2>2. UsedMade'
    BY <2>1, SameMade DEF Derived, UsedMade
  <2>3. key_pc' = "failed" \/ (key_pc' = "derive" /\ opts'.salt = header /\ ~opts'.keyGiven)
    BY <1>2 DEF Derived, OptFields, read_salt, Fail
  <2>4. DOMAIN opts' = OptFields  BY <1>2 DEF Derived, read_salt
  <2>5. QED  BY <2>1, <2>2, <2>3, <2>4 DEF Derived
<1>3. CASE derive_key
  <2>1. key_pc = "derive" /\ UNCHANGED <<algo, command, header, used>>  BY <1>3 DEF derive_key, Same
  <2>2. UsedMade'
    BY <2>1, SameMade DEF Derived, UsedMade
  <2>3. DOMAIN opts' = OptFields  BY <1>3 DEF Derived, derive_key
  <2>4. key_pc' = "failed" \/ (key_pc' = "ready" /\ Len(dk') = dk_len /\ Made(opts)')
    <3>1. CASE ~ValidMd(opts.md)  BY <1>3, <3>1 DEF derive_key, Fail
    <3>2. CASE ValidMd(opts.md)
      <4> DEFINE derived == pbkdf1(opts.md, opts.password, opts.salt)
      <4>1. dk' = derived /\ key_pc' = "ready"  BY <1>3, <3>2 DEF derive_key
      <4>2. Len(derived) = dk_len /\ derived # <<>>  BY <3>2, EnoughBytes DEF Derived
      <4>3. opts' = [opts EXCEPT !.key = SubSeq(derived, 1, KeyBytes),
                                 !.iv = IF opts.ivGiven THEN @ ELSE IvOf(derived)]
        BY <1>3, <3>2, <4>1, <4>2 DEF derive_key
      <4>4. /\ opts'.key = SubSeq(derived, 1, KeyBytes) /\ opts'.ivGiven = opts.ivGiven
            /\ opts'.iv = (IF opts.ivGiven THEN opts.iv ELSE IvOf(derived))
            /\ opts'.md = opts.md /\ opts'.password = opts.password /\ opts.salt = header
        BY <2>1, <4>3 DEF Derived, OptFields
      <4>5. Made(opts)'  BY <2>1, <4>4 DEF Made, pbkdf1, KeyBytes, dk_len, IvOf
      <4>6. QED  BY <4>1, <4>2, <4>5
    <3>3. QED  BY <3>1, <3>2
  <2>5. dk_len' = dk_len  BY <2>1 DEF dk_len, KeyBytes
  <2>6. QED  BY <2>1, <2>2, <2>3, <2>4, <2>5 DEF Derived
<1>4. CASE Ready
  <2>1. key_pc = "ready" /\ UNCHANGED <<algo, command, header, opts>> /\ used' = Append(used, opts)
    BY <1>4 DEF Ready, Same
  <2>2. \/ command = 1 /\ used = <<>> /\ used' = <<opts>>
        \/ /\ command = 2 /\ Len(used) = 1
           /\ Len(used') = 2 /\ used'[1] = used[1] /\ used'[2] = opts
    <3>1. CASE command = 1  BY <2>1, <3>1 DEF Derived
    <3>2. CASE command = 2
      <4>1. used = <<used[1]>>  BY <2>1, <3>2 DEF Derived
      <4>2. PICK u : u = used[1]  OBVIOUS
      <4> DEFINE S == {u, opts}
      <4>3. <<u>> \in Seq(S) /\ opts \in S /\ Len(<<u>>) = 1 /\ <<u>>[1] = u  OBVIOUS
      <4> HIDE DEF S
      <4>4. Len(Append(<<u>>, opts)) = 2 /\ Append(<<u>>, opts)[1] = u /\ Append(<<u>>, opts)[2] = opts
        BY <4>3, AppendProperties
      <4>5. QED  BY <2>1, <3>2, <4>1, <4>2, <4>3, <4>4
    <3>3. QED  BY <3>1, <3>2 DEF Derived
  <2>3. ~opts.keyGiven => Made(opts)  BY <2>1 DEF Derived
  <2>4. \A n \in 1 .. Len(used') : used'[n] = opts \/ (used'[n] = used[n] /\ n \in 1 .. Len(used))
    BY <2>2
  <2>5. UsedMade'
    <3>1. SUFFICES ASSUME NEW n \in 1 .. Len(used'), ~used'[n].keyGiven PROVE Made(used[n])'
      BY DEF UsedMade
    <3>2. PICK u : u = used'[n]  OBVIOUS
    <3>3. Made(u)  BY <2>3, <2>4, <3>1, <3>2 DEF Derived, UsedMade
    <3>4. Made(u)'  BY <2>1, <3>3, SameMade
    <3>5. QED  BY <3>2, <3>4 DEF Made
  <2>6. key_pc' = IF command = 1 THEN "next" ELSE "done"  BY <1>4 DEF Ready
  <2>7. QED  BY <2>1, <2>2, <2>5, <2>6 DEF Derived
<1>5. CASE Decode
  <2>1. key_pc = "next" /\ command = 1 /\ UNCHANGED <<algo, header, used>> /\ command' = 2 /\ key_pc' = "options"
    BY <1>5 DEF Decode, Derived
  <2>2. UsedMade'
    BY <2>1, SameMade DEF Derived, UsedMade
  <2>3. DOMAIN opts' = OptFields  BY <1>5 DEF Decode, default_opts, OptFields
  <2>4. QED  BY <2>1, <2>2, <2>3 DEF Derived
<1>6. QED  BY <1>1, <1>2, <1>3, <1>4, <1>5 DEF Derive

(* Two digits are the quotient and the rest of their byte. *)
LEMMA TwoOfByte ==
  ASSUME NEW a \in Nat, NEW b \in Digit
  PROVE  (a * Base + b) \div Base = a /\ (a * Base + b) % Base = b
<1>1. ASSUME NEW x \in Nat, NEW y \in Nat \ {0}, NEW z \in 0 .. y - 1
      PROVE  (x * y + z) \div y = x /\ (x * y + z) % y = z
  OBVIOUS
<1>2. Base \in Nat \ {0} /\ b \in 0 .. Base - 1  BY NumberAssumption DEF Digit
<1>3. QED  BY <1>1, <1>2

(* The greatest number is what Max says. *)
LEMMA MaxIs ==
  ASSUME NEW S \in SUBSET Nat, NEW x \in S, \A y \in S : y <= x
  PROVE  Max(S) = x
<1> DEFINE m == CHOOSE z \in S : \A y \in S : z >= y
<1>1. \E z \in S : \A y \in S : z >= y  OBVIOUS
<1>2. m \in S /\ \A y \in S : m >= y  BY <1>1
<1> HIDE DEF m
<1>3. m >= x /\ m <= x /\ m \in Nat  BY <1>2
<1>4. m = x  BY <1>3
<1>5. QED  BY <1>4 DEF Max, m

(* An option that is met is the next of the command line. *)
LEMMA OptionMet ==
  ASSUME Lined, key_line # <<>>
  PROVE  /\ Count \in Nat /\ Count + 1 \in 1 .. Len(First)
         /\ Option = First[Count + 1] /\ Option \in OptionText
         /\ Tail(key_line) \in Seq(OptionText) /\ Len(Tail(key_line)) = Len(key_line) - 1
         /\ Tail(key_line) = SubSeq(First, Count + 2, Len(First))
<1>1. Len(key_line) \in Nat \ {0} /\ Len(First) \in Nat /\ First \in Seq(OptionText)  BY DEF Lined
<1>2. Count \in Nat /\ Count + 1 \in 1 .. Len(First) /\ Len(key_line) = Len(First) - Count
  BY <1>1 DEF Count, Lined
<1>3. Option = First[Count + 1] /\ Tail(key_line) = SubSeq(First, Count + 1 + 1, Len(First))
  <2>1. PICK c : c = Count + 1  OBVIOUS
  <2>2. First \in Seq(OptionText) /\ c \in 1 .. Len(First) /\ Len(First) \in c .. Len(First)
    BY <1>1, <1>2, <2>1
  <2>3. Head(SubSeq(First, c, Len(First))) = First[c] /\ Tail(SubSeq(First, c, Len(First))) = SubSeq(First, c + 1, Len(First))
    BY <2>2, HeadTailOfSubSeq
  <2>4. key_line = SubSeq(First, c, Len(First))  BY <2>1 DEF Lined
  <2>5. QED  BY <2>1, <2>3, <2>4 DEF Option
<1>4. Count + 1 + 1 = Count + 2  BY <1>2
<1>5. First[Count + 1] \in OptionText  BY <1>2 DEF Lined
<1>6. Tail(key_line) \in Seq(OptionText) /\ Len(Tail(key_line)) = Len(key_line) - 1
  BY DEF Lined
<1>7. QED  BY <1>2, <1>3, <1>4, <1>5, <1>6

(* KeyRead is about the last key. *)
LEMMA KeyReadIs ==
  ASSUME Lined, command = 1, NEW n, LastKey(n), KeyIs(n)
  PROVE  KeyRead
<1>1. Count \in Nat /\ Count <= Len(First)  BY DEF Count, Lined
<1>2. Accepted = SubSeq(First, 1, Count)  BY DEF Accepted, Count, First
<1>3. Accepted \in Seq(OptionText) /\ Len(Accepted) = Count /\ \A k \in 1 .. Count : Accepted[k] = First[k]
  BY <1>1, <1>2 DEF Lined
<1>4. {k \in 1 .. Len(Accepted) : Accepted[k].id = "key"} = Keyed  BY <1>3 DEF Keyed
<1>5. Max(Keyed) = n /\ n \in 1 .. Count
  <2>1. Keyed \subseteq Nat  BY <1>1 DEF Keyed
  <2>2. QED  BY <2>1, MaxIs DEF LastKey, Keyed
<1>6. LastText("key") = <<First[n].value>>
  BY <1>3, <1>4, <1>5 DEF LastText, LastKey
<1>7. Times("key") = 1 => Keyed = {n}
  <2>1. IsFiniteSet(Keyed)
    <3>1. IsFiniteSet(1 .. Count)  BY <1>1, FS_Interval
    <3>2. QED  BY <3>1, FS_Subset DEF Keyed
  <2>2. Times("key") = Cardinality(Keyed)  BY <1>4 DEF Times
  <2>3. QED  BY <2>1, <2>2, FS_Singleton DEF LastKey
<1>8. Len(LastText("key")) = 1 /\ LastText("key")[1] = First[n].value  BY <1>6
<1>9. SUFFICES ASSUME NEW m \in 1 .. Len(LastText("key"))
               PROVE  LET t == LastText("key")[m]
                      IN  IsKey(t) /\ (algo = "des" \/ Times("key") = 1
                                       => TwoDigits(opts.key) = t \o Zeros(2 * KeyBytes - Len(t)))
  BY DEF KeyRead
<1>10. m = 1  BY <1>8
<1>11. QED  BY <1>7, <1>8, <1>10 DEF KeyIs

(* What does not touch the options keeps what is known of the key. *)
LEMMA KeptSame ==
  ASSUME Kept, UNCHANGED <<algo, lines>>, Keyed' = Keyed,
         opts'.key = opts.key, opts'.keyGiven = opts.keyGiven
  PROVE  Kept'
BY DEF Kept, LastKey, KeyIs, First, IsKey, TwoDigits, Zeros, KeyBytes

LEMMA LinedSame ==
  ASSUME Lined, UNCHANGED <<lines, key_line>>
  PROVE  Lined' /\ Keyed' = Keyed /\ Option' = Option
BY DEF Lined, Keyed, Count, First, Option

(* An option that was handled is behind the others. *)
LEMMA Steps ==
  ASSUME Lined, key_line # <<>>, UNCHANGED lines, key_line' = Tail(key_line)
  PROVE  /\ Lined'
         /\ Keyed' = IF Option.id = "key" THEN Keyed \cup {Count + 1} ELSE Keyed
<1>1. First' = First /\ Len(First) \in Nat /\ Len(key_line) \in Nat  BY DEF First, Lined
<1>2. Count' = Count + 1  BY <1>1, OptionMet DEF Count
<1>3. Len(key_line') <= Len(First)  BY <1>1, OptionMet DEF Lined
<1>4. Lined'
  <2>1. Count + 1 + 1 = Count + 2  BY OptionMet
  <2>2. key_line' = SubSeq(First', Count' + 1, Len(First'))  BY <1>1, <1>2, <2>1, OptionMet
  <2>3. QED  BY <1>1, <1>3, <2>2, OptionMet DEF Lined
<1>5. Keyed' = {n \in 1 .. Count + 1 : First[n].id = "key"}  BY <1>1, <1>2 DEF Keyed
<1>6. \A n : n \in 1 .. Count + 1 <=> n \in 1 .. Count \/ n = Count + 1  BY OptionMet
<1>7. QED  BY <1>4, <1>5, <1>6, OptionMet DEF Keyed

(* A key in which the digits of a text are the first reads as that text. *)
LEMMA KeyWritten ==
  ASSUME NEW t \in Text, NEW key \in [1 .. KeyBytes -> Nat], NEW m \in 0 .. KeyBytes,
         Len(t) = 2 * m \/ Len(t) = 2 * m - 1,
         \A k \in 1 .. Len(t) : t[k] \in Digit,
         \A k \in 1 .. KeyBytes :
            key[k] = IF k <= m THEN t[2 * k - 1] * Base + (IF 2 * k <= Len(t) THEN t[2 * k] ELSE 0) ELSE 0
  PROVE  TwoDigits(key) = t \o Zeros(2 * KeyBytes - Len(t))
<1> DEFINE n == KeyBytes
           text == t \o Zeros(2 * n - Len(t))
<1>1. n \in Nat \ {0} /\ Len(t) \in Nat /\ Len(t) <= 2 * n /\ Base \in Nat /\ Base > 2 /\ 0 \in Digit
  BY KeySizes, NumberAssumption DEF Text, Digit
<1>2. Len(key) = n  BY <1>1
<1>3. TwoDigits(key) = [k \in 1 .. 2 * n |-> IF k % 2 = 1 THEN key[(k + 1) \div 2] \div Base ELSE key[k \div 2] % Base]
  BY <1>2 DEF TwoDigits
<1>4. Zeros(2 * n - Len(t)) \in Seq(Nat) /\ Len(Zeros(2 * n - Len(t))) = 2 * n - Len(t)
      /\ \A k \in 1 .. 2 * n - Len(t) : Zeros(2 * n - Len(t))[k] = 0
  BY <1>1 DEF Zeros
<1>5. t \in Seq(Nat)
  <2>1. \A k \in 1 .. Len(t) : t[k] \in Nat  BY <1>1 DEF Digit
  <2>2. DOMAIN t = 1 .. Len(t) /\ t = [k \in 1 .. Len(t) |-> t[k]]  BY DEF Text
  <2>3. QED  BY <1>1, <2>1, <2>2
<1>6. DOMAIN text = 1 .. 2 * n /\ text \in Seq(Nat)  BY <1>1, <1>4, <1>5
<1>7. ASSUME NEW k \in 1 .. 2 * n  PROVE text[k] = IF k <= Len(t) THEN t[k] ELSE 0
  BY <1>1, <1>4, <1>5
<1>8. ASSUME NEW j \in 1 .. n
      PROVE  key[j] \div Base = text[2 * j - 1] /\ key[j] % Base = text[2 * j]
  <2>1. 2 * j - 1 \in 1 .. 2 * n /\ 2 * j \in 1 .. 2 * n  BY <1>1
  <2>2. CASE j <= m
    <3>1. 2 * j - 1 \in 1 .. Len(t) /\ (2 * j <= Len(t) => 2 * j \in 1 .. Len(t))  BY <1>1, <2>2
    <3>2. t[2 * j - 1] \in Nat  BY <1>1, <3>1 DEF Digit
    <3>3. (IF 2 * j <= Len(t) THEN t[2 * j] ELSE 0) \in Digit  BY <1>1, <3>1
    <3>4. key[j] = t[2 * j - 1] * Base + (IF 2 * j <= Len(t) THEN t[2 * j] ELSE 0)  BY <2>2
    <3>5. /\ key[j] \div Base = t[2 * j - 1]
          /\ key[j] % Base = (IF 2 * j <= Len(t) THEN t[2 * j] ELSE 0)
      BY <3>2, <3>3, <3>4, TwoOfByte
    <3>6. text[2 * j - 1] = t[2 * j - 1]  BY <1>7, <2>1, <3>1
    <3>7. text[2 * j] = (IF 2 * j <= Len(t) THEN t[2 * j] ELSE 0)  BY <1>7, <2>1
    <3>8. QED  BY <3>5, <3>6, <3>7
  <2>3. CASE ~(j <= m)
    <3>1. ~(2 * j - 1 <= Len(t)) /\ ~(2 * j <= Len(t))  BY <1>1, <2>3
    <3>2. 0 * Base + 0 = 0  BY <1>1
    <3>3. 0 \div Base = 0 /\ 0 % Base = 0  BY <1>1, <3>2, TwoOfByte
    <3>4. QED  BY <1>7, <2>1, <2>3, <3>1, <3>3
  <2>4. QED  BY <2>2, <2>3
<1>9. ASSUME NEW k \in 1 .. 2 * n  PROVE TwoDigits(key)[k] = text[k]
  <2>1. CASE k % 2 = 1
    <3>1. (k + 1) \div 2 \in 1 .. n /\ 2 * ((k + 1) \div 2) - 1 = k  BY <1>1, <2>1
    <3>2. QED  BY <1>3, <1>8, <2>1, <3>1
  <2>2. CASE k % 2 # 1
    <3>1. k \div 2 \in 1 .. n /\ 2 * (k \div 2) = k  BY <1>1, <2>2
    <3>2. QED  BY <1>3, <1>8, <2>2, <3>1
  <2>3. QED  BY <2>1, <2>2
<1> HIDE DEF text
<1>10. TwoDigits(key) = text
  <2>1. DOMAIN TwoDigits(key) = 1 .. 2 * n /\ TwoDigits(key) = [k \in 1 .. 2 * n |-> TwoDigits(key)[k]]  BY <1>3
  <2>2. text = [k \in 1 .. 2 * n |-> text[k]]  BY <1>6
  <2>3. QED  BY <1>9, <2>1, <2>2
<1>11. QED  BY <1>10 DEF text

(* Where ft_hex_decode is in its text. *)
LEMMA HexPlace ==
  ASSUME Lined, Hexed
  PROVE  /\ Option.value \in Text /\ Len(Option.value) \in Nat
         /\ \E m \in 0 .. KeyBytes :
               /\ Len(out) = m /\ HexDecoded(Option.value, m)
               /\ 2 * m <= Len(Option.value) + 1
               /\ key_text = SubSeq(Option.value, 2 * m + 1, Len(Option.value))
               /\ key_text \in Text
               /\ Len(key_text) = IF 2 * m <= Len(Option.value) THEN Len(Option.value) - 2 * m ELSE 0
               /\ \A k \in 1 .. Len(key_text) : key_text[k] = Option.value[2 * m + k]
<1> DEFINE t == Option.value
<1>1. t \in Text /\ Len(t) \in Nat
  <2>1. Option \in OptionText /\ Option.id = "key"  BY OptionMet DEF Hexed
  <2>2. QED  BY <2>1 DEF OptionText, Text
<1>2. PICK m \in 0 .. KeyBytes : /\ 2 * m <= Len(t) + 1 /\ key_text = SubSeq(t, 2 * m + 1, Len(t))
                                /\ HexDecoded(t, m)
  BY DEF Hexed
<1>3. KeyBytes \in Nat /\ m \in Nat  BY KeySizes
<1> HIDE DEF t
<1>4. Len(out) = m  BY <1>2, <1>3 DEF HexDecoded
<1>  t \in Seq(0 .. Other)  BY <1>1 DEF Text
<1>5. \A k \in 2 * m + 1 .. Len(t) : t[k] \in 0 .. Other
  <2>1. SUFFICES ASSUME NEW k \in 2 * m + 1 .. Len(t) PROVE t[k] \in 0 .. Other
    OBVIOUS
  <2>2. k \in 1 .. Len(t)  BY <1>1, <1>3
  <2>3. QED  BY <2>2, ElementOfSeq
<1>6. /\ key_text \in Seq(0 .. Other)
      /\ Len(key_text) = IF 2 * m + 1 <= Len(t) THEN Len(t) - (2 * m + 1) + 1 ELSE 0
      /\ \A k \in 1 .. Len(t) - (2 * m + 1) + 1 : key_text[k] = t[2 * m + 1 + k - 1]
  <2>1. 2 * m + 1 \in Int /\ Len(t) \in Int  BY <1>1, <1>3
  <2>2. QED  BY <1>2, <1>5, <2>1, SubSeqProperties
<1>7. Len(key_text) = IF 2 * m <= Len(t) THEN Len(t) - 2 * m ELSE 0  BY <1>1, <1>3, <1>6
<1>8. \A k \in 1 .. Len(key_text) : key_text[k] = t[2 * m + k]
  <2>1. SUFFICES ASSUME NEW k \in 1 .. Len(key_text) PROVE key_text[k] = t[2 * m + k]
    OBVIOUS
  <2>2. k \in 1 .. Len(t) - (2 * m + 1) + 1 /\ 2 * m + 1 + k - 1 = 2 * m + k  BY <1>1, <1>3, <1>7
  <2>3. QED  BY <1>6, <2>2
<1>9. QED  BY <1>1, <1>2, <1>4, <1>6, <1>7, <1>8 DEF Text, t

LEMMA ByteAdded ==
  ASSUME NEW s \in Seq(Nat), NEW b \in Nat, NEW m \in Nat, Len(s) = m
  PROVE  /\ Append(s, b) \in [1 .. m + 1 -> Nat] /\ Append(s, b)[m + 1] = b
         /\ \A k \in 1 .. m : Append(s, b)[k] = s[k]
<1>1. /\ Append(s, b) \in Seq(Nat) /\ Len(Append(s, b)) = m + 1
      /\ Append(s, b)[m + 1] = b /\ \A k \in 1 .. m : Append(s, b)[k] = s[k]
  BY AppendProperties
<1>2. Append(s, b) \in [1 .. m + 1 -> Nat]  BY <1>1, LenProperties
<1>3. QED  BY <1>1, <1>2

(* Two characters are a byte of the key, or the text is refused. *)
LEMMA PairRead ==
  ASSUME Lined, Hexed, HexPair, command = 1
  PROVE  \/ key_pc' = key_pc /\ Hexed'
         \/ key_pc' = "failed" /\ ~IsKey(Option.value)
<1> DEFINE t == Option.value
<1>1. PICK m \in 0 .. KeyBytes :
         /\ Len(out) = m /\ HexDecoded(t, m) /\ 2 * m <= Len(t) + 1
         /\ key_text \in Text /\ key_text = SubSeq(t, 2 * m + 1, Len(t))
         /\ Len(key_text) = IF 2 * m <= Len(t) THEN Len(t) - 2 * m ELSE 0
         /\ \A k \in 1 .. Len(key_text) : key_text[k] = t[2 * m + k]
  BY HexPlace
<1>2. t \in Text /\ Len(t) \in Nat /\ KeyBytes \in Nat /\ m \in Nat  BY HexPlace, KeySizes
<1>3. Len(key_text) >= 2 /\ m < KeyBytes /\ 2 * m + 2 <= Len(t)  BY <1>1, <1>2 DEF HexPair
<1>4. key_text[1] = t[2 * m + 1] /\ key_text[2] = t[2 * m + 2]  BY <1>1, <1>2, <1>3
<1>5. CASE ~(key_text[1] \in Digit /\ key_text[2] \in Digit)
  <2>1. key_pc' = "failed"  BY <1>5 DEF HexPair, Fail
  <2>2. ~IsKey(t)
    <3>1. 2 * m + 1 \in 1 .. Len(t) /\ 2 * m + 2 \in 1 .. Len(t)  BY <1>2, <1>3
    <3>2. QED  BY <1>4, <1>5, <3>1 DEF IsKey
  <2>3. QED  BY <2>1, <2>2
<1>6. CASE key_text[1] \in Digit /\ key_text[2] \in Digit
  <2>1. /\ out' = Append(out, key_text[1] * Base + key_text[2])
        /\ key_text' = Tail(Tail(key_text)) /\ UNCHANGED <<key_pc, algo, lines, key_line>>
    BY <1>6 DEF HexPair, Same
  <2>2. KeyBytes' = KeyBytes /\ Option' = Option  BY <2>1 DEF KeyBytes, Option
  <2>3. key_text' = SubSeq(t, 2 * (m + 1) + 1, Len(t))
    <3>1. Tail(SubSeq(t, 2 * m + 1, Len(t))) = SubSeq(t, 2 * m + 1 + 1, Len(t))
      <4>1. 2 * m + 1 \in 1 .. Len(t) /\ Len(t) \in 2 * m + 1 .. Len(t)  BY <1>2, <1>3
      <4>2. QED  BY <1>2, <4>1, HeadTailOfSubSeq DEF Text
    <3>2. Tail(SubSeq(t, 2 * m + 1 + 1, Len(t))) = SubSeq(t, 2 * m + 1 + 1 + 1, Len(t))
      <4>1. 2 * m + 1 + 1 \in 1 .. Len(t) /\ Len(t) \in 2 * m + 1 + 1 .. Len(t)  BY <1>2, <1>3
      <4>2. QED  BY <1>2, <4>1, HeadTailOfSubSeq DEF Text
    <3>3. 2 * m + 1 + 1 + 1 = 2 * (m + 1) + 1  BY <1>2
    <3>4. QED  BY <1>1, <2>1, <3>1, <3>2, <3>3
  <2>4. HexDecoded(t, m + 1)'
    <3> DEFINE b == key_text[1] * Base + key_text[2]
    <3>1. b \in Nat  BY <1>6, NumberAssumption DEF Digit
    <3>2. out \in Seq(Nat) /\ out' = Append(out, b)  BY <1>1, <1>2, <2>1 DEF HexDecoded
    <3> HIDE DEF b
    <3>3. out' \in [1 .. m + 1 -> Nat] /\ out'[m + 1] = b /\ \A k \in 1 .. m : out'[k] = out[k]
      <4>1. Len(out) = m /\ m \in Nat  BY <1>1, <1>2
      <4>2. /\ Append(out, b) \in [1 .. m + 1 -> Nat] /\ Append(out, b)[m + 1] = b
            /\ \A k \in 1 .. m : Append(out, b)[k] = out[k]
        BY <3>1, <3>2, <4>1, ByteAdded
      <4>3. QED  BY <3>2, <4>2
    <3>4. b = t[2 * (m + 1) - 1] * Base + (IF 2 * (m + 1) <= Len(t) THEN t[2 * (m + 1)] ELSE 0)
      <4>1. 2 * (m + 1) - 1 = 2 * m + 1 /\ 2 * (m + 1) = 2 * m + 2  BY <1>2
      <4>2. QED  BY <1>3, <1>4, <4>1 DEF b
    <3>5. ASSUME NEW k \in 1 .. Len(t), k <= 2 * (m + 1)  PROVE t[k] \in Digit
      <4>1. k <= 2 * m \/ k = 2 * m + 1 \/ k = 2 * m + 2  BY <1>2, <3>5
      <4>2. QED  BY <1>1, <1>4, <1>6, <4>1 DEF HexDecoded
    <3>6. ASSUME NEW k \in 1 .. m + 1
          PROVE  out'[k] = t[2 * k - 1] * Base + (IF 2 * k <= Len(t) THEN t[2 * k] ELSE 0)
      <4>1. k \in 1 .. m \/ k = m + 1  BY <1>2
      <4>2. QED  BY <1>1, <3>3, <3>4, <4>1 DEF HexDecoded
    <3>7. QED  BY <2>2, <3>3, <3>5, <3>6 DEF HexDecoded
  <2>5. 2 * (m + 1) <= Len(t) + 1 /\ m + 1 \in 0 .. KeyBytes  BY <1>2, <1>3
  <2>6. QED  BY <2>1, <2>2, <2>3, <2>4, <2>5 DEF Hexed
<1>7. QED  BY <1>5, <1>6

(* A last character alone is the high half of its byte. *)
LEMMA LastRead ==
  ASSUME Lined, Hexed, HexLast, command = 1
  PROVE  \/ key_pc' = key_pc /\ Hexed'
         \/ key_pc' = "failed" /\ ~IsKey(Option.value)
<1> DEFINE t == Option.value
<1>1. PICK m \in 0 .. KeyBytes :
         /\ Len(out) = m /\ HexDecoded(t, m) /\ 2 * m <= Len(t) + 1
         /\ key_text \in Text /\ key_text = SubSeq(t, 2 * m + 1, Len(t))
         /\ Len(key_text) = IF 2 * m <= Len(t) THEN Len(t) - 2 * m ELSE 0
         /\ \A k \in 1 .. Len(key_text) : key_text[k] = t[2 * m + k]
  BY HexPlace
<1>2. t \in Text /\ Len(t) \in Nat /\ KeyBytes \in Nat /\ m \in Nat  BY HexPlace, KeySizes
<1>3. Len(key_text) = 1 /\ m < KeyBytes /\ 2 * m + 1 = Len(t)  BY <1>1, <1>2 DEF HexLast
<1>4. key_text[1] = t[2 * m + 1]
  <2>1. 1 \in 1 .. Len(key_text)  BY <1>3
  <2>2. \A k \in 1 .. Len(key_text) : key_text[k] = t[2 * m + k]  BY <1>1
  <2>3. QED  BY <2>1, <2>2
<1>5. CASE key_text[1] \notin Digit
  <2>1. key_pc' = "failed"  BY <1>5 DEF HexLast, Fail
  <2>2. ~IsKey(t)
    <3>1. 2 * m + 1 \in 1 .. Len(t)  BY <1>2, <1>3
    <3>2. QED  BY <1>4, <1>5, <3>1 DEF IsKey
  <2>3. QED  BY <2>1, <2>2
<1>6. CASE key_text[1] \in Digit
  <2>1. /\ out' = Append(out, key_text[1] * Base) /\ key_text' = <<>>
        /\ UNCHANGED <<key_pc, algo, lines, key_line>>
    BY <1>6 DEF HexLast, Same
  <2>2. KeyBytes' = KeyBytes /\ Option' = Option  BY <2>1 DEF KeyBytes, Option
  <2>3. SubSeq(t, 2 * (m + 1) + 1, Len(t)) = <<>>
    <3>1. 2 * (m + 1) + 1 \in Int /\ Len(t) \in Int /\ Len(t) < 2 * (m + 1) + 1  BY <1>2, <1>3
    <3>2. QED  BY <3>1, SubSeqEmpty
  <2>4. HexDecoded(t, m + 1)'
    <3> DEFINE b == key_text[1] * Base
    <3>1. b \in Nat /\ b + 0 = b  BY <1>6, NumberAssumption DEF Digit
    <3>2. out \in Seq(Nat) /\ out' = Append(out, b)  BY <1>1, <1>2, <2>1 DEF HexDecoded
    <3> HIDE DEF b
    <3>3. out' \in [1 .. m + 1 -> Nat] /\ out'[m + 1] = b /\ \A k \in 1 .. m : out'[k] = out[k]
      <4>1. Len(out) = m /\ m \in Nat  BY <1>1, <1>2
      <4>2. /\ Append(out, b) \in [1 .. m + 1 -> Nat] /\ Append(out, b)[m + 1] = b
            /\ \A k \in 1 .. m : Append(out, b)[k] = out[k]
        BY <3>1, <3>2, <4>1, ByteAdded
      <4>3. QED  BY <3>2, <4>2
    <3>4. b = t[2 * (m + 1) - 1] * Base + (IF 2 * (m + 1) <= Len(t) THEN t[2 * (m + 1)] ELSE 0)
      <4>1. 2 * (m + 1) - 1 = 2 * m + 1 /\ ~(2 * (m + 1) <= Len(t))  BY <1>2, <1>3
      <4>2. QED  BY <1>4, <3>1, <4>1 DEF b
    <3>5. ASSUME NEW k \in 1 .. Len(t), k <= 2 * (m + 1)  PROVE t[k] \in Digit
      <4>1. k <= 2 * m \/ k = 2 * m + 1  BY <1>2, <1>3
      <4>2. QED  BY <1>1, <1>4, <1>6, <4>1 DEF HexDecoded
    <3>6. ASSUME NEW k \in 1 .. m + 1
          PROVE  out'[k] = t[2 * k - 1] * Base + (IF 2 * k <= Len(t) THEN t[2 * k] ELSE 0)
      <4>1. k \in 1 .. m \/ k = m + 1  BY <1>2
      <4>2. QED  BY <1>1, <3>3, <3>4, <4>1 DEF HexDecoded
    <3>7. QED  BY <2>2, <3>3, <3>5, <3>6 DEF HexDecoded
  <2>5. 2 * (m + 1) <= Len(t) + 1 /\ m + 1 \in 0 .. KeyBytes  BY <1>2, <1>3
  <2>6. QED  BY <2>1, <2>2, <2>3, <2>4, <2>5 DEF Hexed
<1>7. QED  BY <1>5, <1>6

(* register_key takes the whole text, or refuses one that is too long. *)
LEMMA KeyTaken ==
  ASSUME Derived, Lined, Kept, Hexed, register_key, command = 1
  PROVE  \/ key_pc' = "options" /\ Lined' /\ Kept'
         \/ key_pc' = "failed" /\ UNCHANGED <<lines, key_line, algo>> /\ ~IsKey(Option.value)
<1> DEFINE t == Option.value
<1>1. PICK m \in 0 .. KeyBytes :
         /\ Len(out) = m /\ HexDecoded(t, m) /\ 2 * m <= Len(t) + 1
         /\ key_text \in Text /\ key_text = SubSeq(t, 2 * m + 1, Len(t))
         /\ Len(key_text) = IF 2 * m <= Len(t) THEN Len(t) - 2 * m ELSE 0
         /\ \A k \in 1 .. Len(key_text) : key_text[k] = t[2 * m + k]
  BY HexPlace
<1>2. t \in Text /\ Len(t) \in Nat /\ KeyBytes \in Nat /\ m \in Nat  BY HexPlace, KeySizes
<1>3. UNCHANGED <<lines, algo>> /\ key_line # <<>> /\ Option.id = "key"
  BY DEF register_key, Same, Hexed
<1>4. CASE key_text # <<>>
  <2>1. m = KeyBytes /\ key_pc' = "failed" /\ UNCHANGED key_line  BY <1>1, <1>4 DEF register_key, Fail
  <2>2. Len(key_text) # 0
    <3>1. key_text \in Seq(0 .. Other)  BY <1>1 DEF Text
    <3>2. QED  BY <1>4, <3>1
  <2>3. Len(t) > 2 * KeyBytes  BY <1>1, <1>2, <2>1, <2>2
  <2>4. QED  BY <1>2, <1>3, <2>1, <2>3 DEF IsKey
<1>5. CASE key_text = <<>>
  <2>1. /\ opts' = [opts EXCEPT !.key = Overlaid, !.keyGiven = TRUE]
        /\ key_line' = Tail(key_line) /\ key_pc' = "options"
    BY <1>5 DEF register_key, Handled
  <2>2. opts'.key = Overlaid /\ opts'.keyGiven  BY <2>1 DEF Derived, OptFields
  <2>3. Len(key_text) = 0  BY <1>5
  <2>4. Len(t) = 2 * m \/ Len(t) = 2 * m - 1  BY <1>1, <1>2, <2>3
  <2>5. \A k \in 1 .. Len(t) : t[k] \in Digit  BY <1>1, <1>2, <2>4 DEF HexDecoded
  <2>6. IsKey(t)  BY <1>2, <2>4, <2>5 DEF IsKey
  <2>7. Overlaid \in [1 .. KeyBytes -> Nat]
    <3>1. \A k \in 1 .. m : out[k] \in Nat  BY <1>1 DEF HexDecoded
    <3>2. \A k \in 1 .. KeyBytes : opts.key[k] \in Nat  BY DEF Kept
    <3>3. QED  BY <1>1, <1>2, <3>1, <3>2 DEF Overlaid
  <2>8. algo = "des" \/ ~opts.keyGiven => TwoDigits(Overlaid) = t \o Zeros(2 * KeyBytes - Len(t))
    <3>1. SUFFICES ASSUME algo = "des" \/ ~opts.keyGiven
                   PROVE  TwoDigits(Overlaid) = t \o Zeros(2 * KeyBytes - Len(t))
      OBVIOUS
    <3>2. \A k \in 1 .. KeyBytes : Overlaid[k] = IF k <= m THEN out[k] ELSE 0
      BY <1>1, <3>1 DEF Overlaid, Kept, Zeros
    <3>3. \A k \in 1 .. KeyBytes :
             Overlaid[k] = IF k <= m THEN t[2 * k - 1] * Base + (IF 2 * k <= Len(t) THEN t[2 * k] ELSE 0) ELSE 0
      <4>1. \A k \in 1 .. m : out[k] = t[2 * k - 1] * Base + (IF 2 * k <= Len(t) THEN t[2 * k] ELSE 0)
        BY <1>1 DEF HexDecoded
      <4>2. \A k \in 1 .. KeyBytes : k <= m => k \in 1 .. m  BY <1>2
      <4>3. QED  BY <3>2, <4>1, <4>2
    <3>4. QED  BY <1>2, <2>4, <2>5, <2>7, <3>3, KeyWritten
  <2>9. Lined' /\ Keyed' = Keyed \cup {Count + 1}  BY <1>3, <2>1, Steps
  <2>10. PICK c : c = Count + 1  OBVIOUS
  <2>11. c \in Nat /\ First[c] = Option /\ First' = First  BY <1>3, <2>10, OptionMet DEF First
  <2>12. \A n \in Keyed : n \in Nat /\ n < c  BY <1>3, <2>10, OptionMet DEF Keyed
  <2>13. LastKey(c)'
    <3>1. \A n \in Keyed' : n <= c  BY <2>9, <2>10, <2>11, <2>12
    <3>2. QED  BY <2>9, <2>10, <3>1 DEF LastKey
  <2>14. KeyIs(c)'
    <3>1. Keyed' = {c} => ~opts.keyGiven
      <4>1. SUFFICES ASSUME opts.keyGiven, Keyed' = {c} PROVE FALSE
        OBVIOUS
      <4>2. PICK n \in Keyed : LastKey(n)  BY <4>1 DEF Kept, LastKey
      <4>3. n < c /\ n \in Nat  BY <2>12
      <4>4. QED  BY <2>9, <2>11, <4>1, <4>3
    <3>2. PICK v : v = t  OBVIOUS
    <3>3. First'[c].value = v /\ KeyBytes' = KeyBytes  BY <1>3, <2>11, <3>2 DEF KeyBytes
    <3>4. IsKey(v)'  BY <2>6, <3>2, <3>3 DEF IsKey
    <3>5. PICK o : o = Overlaid  OBVIOUS
    <3>6. TwoDigits(o)' = TwoDigits(o) /\ Zeros(2 * KeyBytes - Len(v))' = Zeros(2 * KeyBytes - Len(v))
      BY <3>3 DEF TwoDigits, Zeros
    <3>7. (algo = "des" \/ Keyed = {c} => TwoDigits(o) = v \o Zeros(2 * KeyBytes - Len(v)))'
      BY <1>3, <2>8, <3>1, <3>2, <3>5, <3>6
    <3>8. opts'.key = o  BY <2>2, <3>5
    <3>9. QED  BY <3>3, <3>4, <3>7, <3>8 DEF KeyIs
  <2>15. KeyBytes' = KeyBytes  BY <1>3 DEF KeyBytes
  <2>16. QED  BY <2>1, <2>2, <2>7, <2>9, <2>13, <2>14, <2>15 DEF Kept
<1>6. QED  BY <1>4, <1>5

(* What is left of the command line is known at each step of the parsing. *)
LEMMA ParseText == KInv /\ Parse => KeyText'
<1> SUFFICES ASSUME KInv, Parse, command' = 1 PROVE KeyText'
  BY DEF KeyText
<1>1. command = 1 /\ UNCHANGED <<algo, lines, command>> /\ Derived
  BY DEF KInv, Parse, register_text, register_password_value, register_md, HexPair, HexLast, register_key,
         SkipSpaces, TakeDigit, register_number, read_pass, Parsed, Same
<1>2. Lined /\ (Reading => Kept)  BY <1>1 DEF KInv, KeyText
<1>3. KeyBytes' = KeyBytes  BY <1>1 DEF KeyBytes
<1>4. ASSUME UNCHANGED <<key_line, opts>>, Reading
      PROVE  Lined' /\ Kept' /\ Option' = Option /\ (key_line = <<>> => key_line' = <<>>)
  BY <1>1, <1>2, <1>4, LinedSame, KeptSame
<1>5. ASSUME key_pc' = "failed", UNCHANGED key_line, key_line # <<>> => Option.id # "key" \/ ~IsKey(Option.value)
      PROVE  KeyText'
  <2>1. Lined' /\ Option' = Option  BY <1>1, <1>2, <1>5, LinedSame
  <2>2. PICK v : v = Option.value  OBVIOUS
  <2>3. IsKey(v)' <=> IsKey(v)  BY <1>3 DEF IsKey
  <2>4. (key_line # <<>> /\ Option.id = "key" => ~IsKey(Option.value))'  BY <1>5, <2>1, <2>2, <2>3
  <2>5. QED  BY <1>5, <2>1, <2>4 DEF KeyText, Reading
<1>6. ASSUME key_pc' = "options", key_line # <<>>, key_line' = Tail(key_line), Reading, Option.id # "key",
             opts'.key = opts.key, opts'.keyGiven = opts.keyGiven
      PROVE  KeyText'
  <2>1. Lined' /\ Keyed' = Keyed  BY <1>1, <1>2, <1>6, Steps
  <2>2. Kept'  BY <1>1, <1>2, <1>6, <2>1, KeptSame
  <2>3. QED  BY <1>6, <2>1, <2>2 DEF KeyText
<1>7. CASE register_text
  <2>1. key_pc = "options" /\ key_line # <<>> /\ UNCHANGED <<key_line, opts>>
    BY <1>7 DEF register_text, Meets
  <2>2. Lined' /\ Kept' /\ Option' = Option  BY <1>4, <2>1 DEF Reading
  <2>3. CASE Option.id = "key" /\ key_pc' = "hex"
    <3>1. key_text' = Option.value /\ out' = <<>>  BY <1>7 DEF register_text
    <3>2. Option.value \in Text
      <4>1. Option \in OptionText  BY <1>2, <2>1, OptionMet
      <4>2. QED  BY <2>3, <4>1 DEF OptionText
    <3>3. SubSeq(Option.value, 2 * 0 + 1, Len(Option.value)) = Option.value
      BY <3>2, SubSeqFull DEF Text
    <3>4. PICK t : t = Option.value  OBVIOUS
    <3>5. HexDecoded(t, 0)'  BY <3>1, <3>2, <3>4 DEF HexDecoded, Text
    <3>6. 0 \in 0 .. KeyBytes' /\ 2 * 0 <= Len(t) + 1  BY <1>3, <3>2, <3>4, KeySizes DEF Text
    <3>7. Hexed'  BY <2>1, <2>2, <2>3, <3>1, <3>3, <3>4, <3>5, <3>6 DEF Hexed
    <3>8. QED  BY <2>2, <2>3, <3>7 DEF KeyText
  <2>4. CASE Option.id \in {"salt", "iv"} /\ key_pc' = "spaces"
    BY <2>1, <2>2, <2>4 DEF KeyText
  <2>5. QED  BY <1>7, <2>3, <2>4 DEF register_text, Meets
<1>8. CASE register_password_value
  <2>1. key_pc = "options" /\ key_line # <<>> /\ Option.id = "pass"  BY <1>8 DEF register_password_value, Meets
  <2>2. CASE key_pc' = "failed" /\ UNCHANGED key_line  BY <1>5, <2>1, <2>2
  <2>3. CASE key_pc' = "options" /\ key_line' = Tail(key_line)
    <3>1. opts'.key = opts.key /\ opts'.keyGiven = opts.keyGiven
      BY <1>1, <1>8, <2>3 DEF register_password_value, Derived, OptFields, Fail
    <3>2. QED  BY <1>6, <2>1, <2>3, <3>1 DEF Reading
  <2>4. QED  BY <1>8, <2>2, <2>3 DEF register_password_value, Fail, Handled
<1>9. CASE register_md
  <2>1. key_pc = "options" /\ key_line # <<>> /\ Option.id = "md" /\ key_pc' = "options" /\ key_line' = Tail(key_line)
    BY <1>9 DEF register_md, Meets, Handled
  <2>2. opts'.key = opts.key /\ opts'.keyGiven = opts.keyGiven
    BY <1>1, <1>9 DEF register_md, Derived, OptFields
  <2>3. QED  BY <1>6, <2>1, <2>2 DEF Reading
<1>10. CASE HexPair \/ HexLast
  <2>1. key_pc = "hex" /\ UNCHANGED <<key_line, opts>>  BY <1>10 DEF HexPair, HexLast
  <2>2. Hexed  BY <1>1, <2>1 DEF KInv, KeyText
  <2>3. Lined' /\ Kept'  BY <1>4, <2>1 DEF Reading
  <2>4. CASE key_pc' = key_pc /\ Hexed'  BY <2>1, <2>3, <2>4 DEF KeyText
  <2>5. CASE key_pc' = "failed" /\ ~IsKey(Option.value)  BY <1>5, <2>1, <2>5
  <2>6. QED  BY <1>1, <1>2, <1>10, <2>2, <2>4, <2>5, PairRead, LastRead
<1>11. CASE register_key
  <2>1. key_pc = "hex"  BY <1>11 DEF register_key
  <2>2. Hexed /\ Kept  BY <1>1, <1>2, <2>1 DEF KInv, KeyText, Reading
  <2>3. CASE key_pc' = "options" /\ Lined' /\ Kept'  BY <2>3 DEF KeyText
  <2>4. CASE key_pc' = "failed" /\ UNCHANGED <<lines, key_line, algo>> /\ ~IsKey(Option.value)  BY <1>5, <2>4
  <2>5. QED  BY <1>1, <1>2, <1>11, <2>2, <2>3, <2>4, KeyTaken
<1>12. CASE SkipSpaces \/ TakeDigit
  <2>1. key_pc \in {"spaces", "digits"} /\ UNCHANGED <<key_line, opts>>  BY <1>12 DEF SkipSpaces, TakeDigit
  <2>2. key_line # <<>> /\ Option.id \in {"salt", "iv"}  BY <1>1, <2>1 DEF KInv, KeyText
  <2>3. Lined' /\ Kept' /\ Option' = Option  BY <1>4, <2>1 DEF Reading
  <2>4. CASE key_pc' = "failed"  BY <1>5, <2>1, <2>2, <2>4
  <2>5. CASE key_pc' \in {"spaces", "digits"}  BY <2>1, <2>2, <2>3, <2>5 DEF KeyText
  <2>6. QED  BY <1>12, <2>4, <2>5 DEF SkipSpaces, TakeDigit, Fail
<1>13. CASE register_number
  <2>1. key_pc = "digits"  BY <1>13 DEF register_number
  <2>2. key_line # <<>> /\ Option.id \in {"salt", "iv"}  BY <1>1, <2>1 DEF KInv, KeyText
  <2>3. CASE key_pc' = "failed" /\ UNCHANGED key_line  BY <1>5, <2>2, <2>3
  <2>4. CASE key_pc' = "options" /\ key_line' = Tail(key_line)
    <3>1. opts'.key = opts.key /\ opts'.keyGiven = opts.keyGiven
      BY <1>1, <1>13, <2>4 DEF register_number, Derived, OptFields, Fail
    <3>2. QED  BY <1>6, <2>1, <2>2, <2>4, <3>1 DEF Reading
  <2>5. QED  BY <1>13, <2>3, <2>4 DEF register_number, Fail, Handled
<1>14. CASE read_pass \/ Parsed
  <2>1. key_pc = "options" /\ key_line = <<>> /\ UNCHANGED key_line  BY <1>14 DEF read_pass, Parsed
  <2>2. Lined'  BY <1>1, <1>2, <2>1, LinedSame
  <2>3. key_pc' \in {"salt", "failed", "ready"} /\ (key_pc' = "salt" => ~opts'.keyGiven)
    BY <1>1, <1>14 DEF read_pass, Parsed, Fail, Derived, OptFields
  <2>4. QED  BY <2>1, <2>2, <2>3 DEF KeyText, Reading
<1>15. QED
  BY <1>7, <1>8, <1>9, <1>10, <1>11, <1>12, <1>13, <1>14 DEF Parse

(* Behind the parsing nothing is left of the command line. *)
LEMMA DeriveText == KInv /\ Derive => KeyText'
<1> SUFFICES ASSUME KInv, Derive, command' = 1 PROVE KeyText'
  BY DEF KeyText
<1>1. /\ UNCHANGED <<lines, key_line>> /\ command = 1
      /\ key_pc \in {"salt", "derive", "ready"} /\ key_pc' \in {"derive", "ready", "next", "failed"}
  <2>1. CASE write_salt  BY <2>1 DEF write_salt, Same
  <2>2. CASE read_salt  BY <2>2 DEF read_salt, Same
  <2>3. CASE derive_key  BY <2>3 DEF derive_key, Same, Fail
  <2>4. CASE Ready  BY <2>4 DEF Ready, Same
  <2>5. CASE Decode  BY <2>5 DEF Decode
  <2>6. QED  BY <2>1, <2>2, <2>3, <2>4, <2>5 DEF Derive
<1>2. Lined /\ key_line = <<>>  BY <1>1 DEF KInv, KeyText
<1>3. Lined'  BY <1>1, <1>2, LinedSame
<1>4. QED  BY <1>1, <1>2, <1>3 DEF KeyText, Reading

LEMMA KeysStart == KeysInit => KInv
<1> SUFFICES ASSUME KeysInit PROVE KInv
  OBVIOUS
<1>1. Derived  BY DEF KeysInit, Derived, UsedMade, default_opts, OptFields
<1>2. First \in Seq(OptionText) /\ key_line = First
  <2>1. lines \in Seq(Seq(OptionText)) /\ Len(lines) = 2  BY TextAssumption DEF KeysInit, OptionText, Text
  <2>2. lines[1] \in Seq(OptionText)  BY <2>1, ElementOfSeq
  <2>3. QED  BY <2>2 DEF KeysInit, First
<1>3. Lined  BY <1>2, SubSeqFull DEF Lined, Count
<1>4. Kept
  <2>1. opts.key = Zeros(KeyBytes) /\ ~opts.keyGiven  BY DEF KeysInit, default_opts
  <2>2. Keyed = {}  BY <1>2 DEF Keyed, Count
  <2>3. Zeros(KeyBytes) \in [1 .. KeyBytes -> Nat]  BY DEF Zeros
  <2>4. QED  BY <2>1, <2>2, <2>3 DEF Kept
<1>5. QED  BY <1>1, <1>3, <1>4 DEF KInv, KeyText, KeysInit

\* The invariant holds in every state: the first command line up to where it is read, and
\* what a password and a salt make of the options.
THEOREM KeysInvariance == KeysSpec => []KInv
<1>1. KInv /\ [KeysNext]_kvars => KInv'
  <2> SUFFICES ASSUME KInv, [KeysNext]_kvars PROVE KInv'
    OBVIOUS
  <2>1. CASE Parse  BY <2>1, ParseDerives, ParseText DEF KInv
  <2>2. CASE Derive  BY <2>2, CommandDerives, DeriveText DEF KInv
  <2>3. CASE UNCHANGED kvars
    <3>1. UNCHANGED <<algo, lines, command, key_line, opts, key_pc, key_text, out, header, dk, used>>
      BY <2>3 DEF kvars
    <3>2. Derived'
      <4>1. UsedMade'  BY <3>1, SameMade DEF KInv, Derived, UsedMade
      <4>2. PICK o : o = opts  OBVIOUS
      <4>3. Made(o)' <=> Made(o)  BY <3>1, SameMade
      <4>4. Made(opts)' <=> Made(o)'  BY <3>1, <4>2 DEF Made
      <4>5. dk_len' = dk_len  BY <3>1 DEF dk_len, KeyBytes
      <4>6. QED  BY <3>1, <4>1, <4>2, <4>3, <4>4, <4>5 DEF KInv, Derived
    <3>3. ASSUME command = 1  PROVE KeyText'
      <4>1. Lined' /\ Keyed' = Keyed /\ Option' = Option  BY <3>1, <3>3, LinedSame DEF KInv, KeyText
      <4>2. Reading => Kept'  BY <3>1, <3>3, <4>1, KeptSame DEF KInv, KeyText
      <4>3. KeyBytes' = KeyBytes  BY <3>1 DEF KeyBytes
      <4>4. Hexed' <=> Hexed  BY <3>1, <4>1, <4>3 DEF Hexed, HexDecoded
      <4>5. IsKey(Option.value)' <=> IsKey(Option.value)  BY <4>1, <4>3 DEF IsKey
      <4>6. Reading' <=> Reading  BY <3>1 DEF Reading
      <4>7. QED  BY <3>1, <3>3, <4>1, <4>2, <4>4, <4>5, <4>6 DEF KInv, KeyText
    <3>4. QED  BY <3>1, <3>2, <3>3 DEF KInv, KeyText
  <2>4. QED  BY <2>1, <2>2, <2>3 DEF KeysNext, KeysEnded
<1>2. QED  BY <1>1, KeysStart, PTL DEF KeysSpec

\* The key of des and des3 is the hexadecimal digits that -k was given, whatever their number,
\* with zeros behind them, and a text that is refused is no key (KeyAsWritten).
THEOREM KeyAsWrittenHolds == KeysSpec => []KeyAsWritten
<1>1. KInv => KeyAsWritten
  <2> SUFFICES ASSUME KInv PROVE KeyAsWritten
    OBVIOUS
  <2>1. ASSUME command = 1, key_pc \in {"options", "salt"}, opts.keyGiven  PROVE KeyRead
    <3>1. Lined /\ Kept  BY <2>1 DEF KInv, KeyText, Reading
    <3>2. PICK n : LastKey(n) /\ KeyIs(n)  BY <2>1, <3>1 DEF Kept
    <3>3. QED  BY <2>1, <3>1, <3>2, KeyReadIs
  <2>2. Refused("key") => ~IsKey(Option.value)  BY DEF KInv, KeyText, Refused
  <2>3. QED  BY <2>1, <2>2 DEF KeyAsWritten
<1>2. QED  BY <1>1, KeysInvariance, PTL

\* What was encoded with a password is decoded with the same key and IV, for every digest and
\* every salt that was written in front of it (OpensWithPassword).
THEOREM OpensWithPasswordHolds == KeysSpec => []OpensWithPassword
<1>1. KInv => OpensWithPassword
  <2> SUFFICES ASSUME KInv, key_pc = "done", ~used[1].keyGiven, ~used[2].keyGiven,
                      used[1].password = used[2].password, used[1].md = used[2].md
               PROVE  /\ used[1].key = used[2].key
                      /\ ~used[1].ivGiven /\ ~used[2].ivGiven => used[1].iv = used[2].iv
    BY DEF OpensWithPassword
  <2>1. Len(used) = 2 /\ UsedMade  BY DEF KInv, Derived
  <2>2. Made(used[1]) /\ Made(used[2])  BY <2>1 DEF UsedMade
  <2>3. QED  BY <2>2 DEF Made
<1>2. QED  BY <1>1, KeysInvariance, PTL

\* No command uses a key that was not written, whatever the digest it is asked to make it with:
\* derive_key accepts only those with enough bytes (NothingUnset).
THEOREM NothingUnsetHolds == KeysSpec => []NothingUnset
<1>1. KInv => NothingUnset  BY DEF KInv, Derived, NothingUnset
<1>2. QED  BY <1>1, KeysInvariance, PTL
=============================================================================
