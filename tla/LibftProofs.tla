---------------------------- MODULE LibftProofs -----------------------------
(***************************************************************************)
(* Theorems about three parts of libft.  The insertion sort puts a range   *)
(* of any length in order, equal elements in the order they had, and loses *)
(* none.  No message, whatever its format, its arguments and the size of   *)
(* its buffer, is written behind the end of the buffer; only its NUL may   *)
(* be.  And a vector, whatever its elements, their size and how long it    *)
(* gets, holds what it was given and not what was taken away, in order.    *)
(***************************************************************************)
EXTENDS Sort, Sprintf, VectorOps, SequenceTheorems, TLAPS

-----------------------------------------------------------------------------
(* The inductive invariant of the insertion sort. *)

SortElement == [key : Int, from : Int]
N == Len(range)
Inserting == stage = "inner"
\* The part of the range that the sort has looked at.
Looked == IF Inserting THEN sorted_len + 1 ELSE sorted_len
Ordered(a, b) == \/ Before(a, b)
                 \/ a.key = b.key /\ a.from < b.from
ElementsOf(s) == {s[n] : n \in 1 .. Len(s)}

SortTypeOK == /\ by = "insertion" /\ given \in Seq(Int) /\ range \in Seq(SortElement) /\ rev \in BOOLEAN
              /\ stage \in {"outer", "inner", "done"}
              /\ sorted_len \in Nat /\ sorted_len >= 1
              /\ i \in Nat
              /\ Inserting => i >= 2 /\ i <= sorted_len + 1 /\ sorted_len < N
\* What is behind was not touched; what was looked at comes from the part in front, but
\* for the element that is inserted, which is the first of those behind it.
Origin == /\ \A n \in 1 .. N : n > Looked => range[n].from = n
          /\ \A n \in 1 .. N : n <= Looked /\ (Inserting => n # i) => range[n].from <= sorted_len
          /\ Inserting => range[i].from = sorted_len + 1
\* That element is only out of place with respect to those in front of it.
InPlace == \A m, n \in 1 .. N : m < n /\ n <= Looked /\ (Inserting => n # i) => Ordered(range[m], range[n])
AllThere == ElementsOf(range) = ElementsOf(el(given))
AtEnd == stage = "done" => sorted_len >= N
SortIInv == SortTypeOK /\ Origin /\ InPlace /\ AllThere /\ AtEnd

-----------------------------------------------------------------------------
\* An order: what follows what follows is behind.
LEMMA OrderedTrans ==
    ASSUME NEW a \in SortElement, NEW b \in SortElement, NEW c \in SortElement, rev \in BOOLEAN,
           Ordered(a, b), Ordered(b, c)
    PROVE  Ordered(a, c)
BY DEF Ordered, Before, cmp, SortElement

LEMMA NotBefore ==
    ASSUME NEW a \in SortElement, NEW b \in SortElement, NEW c \in SortElement, rev \in BOOLEAN,
           Ordered(a, b) \/ a = b, ~Before(c, b), a.from < c.from
    PROVE  Ordered(a, c)
BY DEF Ordered, Before, cmp, SortElement

LEMMA SameThere ==
    ASSUME AllThere, given' = given, range' = range
    PROVE  AllThere'
<1>1. ElementsOf(range)' = ElementsOf(range) /\ ElementsOf(el(given))' = ElementsOf(el(given))
  BY DEF ElementsOf, el
<1> QED  BY <1>1 DEF AllThere

LEMMA SortInitHolds == InsertionInit => SortIInv
<1> SUFFICES ASSUME InsertionInit PROVE SortIInv  OBVIOUS
<1> USE DEF InsertionInit, Given
<1>1. given \in Seq(Int)
  BY KeysAssumption
<1>2. range \in Seq(SortElement) /\ Len(range) = Len(given) /\ \A n \in 1 .. Len(given) : range[n].from = n
  BY <1>1 DEF el, SortElement
<1>3. SortTypeOK
  BY <1>1, <1>2 DEF SortTypeOK, Inserting
<1>4. Origin
  BY <1>2 DEF Origin, Looked, Inserting, N
<1>5. InPlace
  BY <1>2 DEF InPlace, Looked, Inserting, N
<1> QED  BY <1>3, <1>4, <1>5 DEF SortIInv, AllThere, AtEnd

\* The next element is the first behind the sorted part.
LEMMA InsertNextStep == SortIInv /\ InsertNext => SortIInv'
<1> SUFFICES ASSUME SortIInv, InsertNext PROVE SortIInv'  OBVIOUS
<1> USE DEF SortIInv, SortTypeOK, N, Inserting, Looked
<1>1. /\ by' = by /\ given' = given /\ range' = range /\ rev' = rev /\ sorted_len' = sorted_len
      /\ stage = "outer" /\ stage' = "inner" /\ i' = sorted_len + 1 /\ sorted_len < Len(range)
  BY DEF InsertNext
<1>2. SortTypeOK'
  BY <1>1
<1>3. Origin'
  BY <1>1 DEF Origin
<1>4. InPlace'
  BY <1>1 DEF InPlace, Ordered, Before
<1> QED  BY <1>1, <1>2, <1>3, <1>4 DEF AllThere, AtEnd

\* Two neighbours out of order are exchanged.
LEMMA SwapStep == SortIInv /\ Swap => SortIInv'
<1> SUFFICES ASSUME SortIInv, Swap PROVE SortIInv'  OBVIOUS
<1>1. /\ by' = by /\ given' = given /\ rev' = rev /\ stage = "inner"
      /\ i \in 2 .. N /\ i' = i - 1 /\ Inserted(i - 1) /\ Before(range[i], range[i - 1])
  BY DEF Swap, SortIInv, SortTypeOK, Inserting, N
<1>2. range \in Seq(SortElement) /\ N \in Nat /\ rev \in BOOLEAN
  BY DEF SortIInv, SortTypeOK, N
<1>3. /\ range' \in Seq(SortElement) /\ N' = N
      /\ range'[i] = range[i - 1] /\ range'[i - 1] = range[i]
      /\ \A n \in 1 .. N : n # i /\ n # i - 1 => range'[n] = range[n]
  BY <1>1, <1>2 DEF Swap, N
<1>4. /\ \/ i = 2 /\ sorted_len' = sorted_len + 1 /\ stage' = "outer"
         \/ i > 2 /\ sorted_len' = sorted_len /\ stage' = "inner"
      /\ Looked = sorted_len + 1 /\ Looked' = sorted_len + 1 /\ sorted_len \in Nat
      /\ i <= sorted_len + 1 /\ sorted_len >= 1 /\ sorted_len < N /\ Inserting
  BY <1>1 DEF Inserted, Looked, Inserting, SortIInv, SortTypeOK
<1>5. SortTypeOK'
  BY <1>1, <1>2, <1>3, <1>4 DEF SortTypeOK, SortIInv, Inserting
<1>6. Origin'
  <2>1. \A n \in 1 .. N : n > Looked' => range'[n].from = n
    BY <1>1, <1>2, <1>3, <1>4 DEF SortIInv, Origin
  <2>2. range[i].from = sorted_len + 1 /\ \A n \in 1 .. N : n <= Looked /\ n # i => range[n].from <= sorted_len
    BY <1>4 DEF SortIInv, Origin
  <2>3. range'[i - 1].from = sorted_len + 1
    BY <2>2, <1>3
  <2>4. \A n \in 1 .. N : n <= Looked' /\ n # i - 1 => range'[n].from <= sorted_len
    BY <2>2, <1>1, <1>2, <1>3, <1>4
  <2>5. \A n \in 1 .. N : n <= Looked' => range'[n].from <= sorted_len + 1
    <3> SUFFICES ASSUME NEW n \in 1 .. N, n <= Looked' PROVE range'[n].from <= sorted_len + 1
      OBVIOUS
    <3>1. range'[n] \in SortElement
      BY <1>2, <1>3 DEF N
    <3>2. range'[n].from \in Int
      BY <3>1 DEF SortElement
    <3> QED  BY <3>2, <2>3, <2>4, <1>4
  <2> QED  BY <2>1, <2>3, <2>4, <2>5, <1>1, <1>3, <1>4 DEF Origin, Inserting
<1>7. InPlace'
  <2> SUFFICES ASSUME NEW m \in 1 .. N, NEW n \in 1 .. N, m < n, n <= Looked', Inserting' => n # i'
               PROVE  Ordered(range'[m], range'[n])
    BY <1>1, <1>3 DEF InPlace, Ordered, Before
  <2>1. n # i - 1
    BY <1>1, <1>4 DEF Inserting
  <2>2. \A p, q \in 1 .. N : p < q /\ q <= Looked /\ q # i => Ordered(range[p], range[q])
    BY <1>4 DEF SortIInv, InPlace
  <2>3. CASE n = i
    <3>1. CASE m = i - 1
      BY <2>3, <3>1, <1>1, <1>3 DEF Ordered
    <3>2. CASE m # i - 1
      BY <2>3, <3>2, <2>2, <1>1, <1>2, <1>3, <1>4
    <3> QED  BY <3>1, <3>2
  <2>4. CASE n # i
    <3>1. CASE m = i
      BY <2>4, <3>1, <2>1, <2>2, <1>1, <1>2, <1>3, <1>4
    <3>2. CASE m = i - 1
      BY <2>4, <3>2, <2>1, <2>2, <1>1, <1>2, <1>3, <1>4
    <3>3. CASE m # i /\ m # i - 1
      BY <2>4, <3>3, <2>1, <2>2, <1>1, <1>2, <1>3, <1>4
    <3> QED  BY <3>1, <3>2, <3>3
  <2> QED  BY <2>3, <2>4
<1>8. AllThere'
  <2>1. \A n \in 1 .. N : \E p \in 1 .. N : range'[n] = range[p]
    BY <1>1, <1>2, <1>3
  <2>2. \A n \in 1 .. N : \E p \in 1 .. N : range[n] = range'[p]
    BY <1>1, <1>2, <1>3
  <2>3. Len(range') = Len(range)
    BY <1>3 DEF N
  <2>4. ElementsOf(range)' = ElementsOf(range)
    <3>1. ASSUME NEW x \in ElementsOf(range)' PROVE x \in ElementsOf(range)
      <4>1. PICK n \in 1 .. Len(range') : x = range'[n]
        BY <3>1 DEF ElementsOf
      <4> QED  BY <4>1, <2>1, <2>3 DEF ElementsOf, N
    <3>2. ASSUME NEW x \in ElementsOf(range) PROVE x \in ElementsOf(range)'
      <4>1. PICK n \in 1 .. Len(range) : x = range[n]
        BY <3>2 DEF ElementsOf
      <4> QED  BY <4>1, <2>2, <2>3 DEF ElementsOf, N
    <3> QED  BY <3>1, <3>2
  <2>5. ElementsOf(el(given))' = ElementsOf(el(given))
    BY <1>1 DEF ElementsOf, el
  <2> QED  BY <2>4, <2>5 DEF SortIInv, AllThere
<1> QED  BY <1>4, <1>5, <1>6, <1>7, <1>8 DEF SortIInv, AtEnd

\* The element has found its place.
LEMMA StayStep == SortIInv /\ Stay => SortIInv'
<1> SUFFICES ASSUME SortIInv, Stay PROVE SortIInv'  OBVIOUS
<1>1. /\ by' = by /\ given' = given /\ rev' = rev /\ range' = range /\ stage = "inner" /\ i' = i
      /\ sorted_len' = sorted_len + 1 /\ stage' = "outer" /\ ~Before(range[i], range[i - 1])
  BY DEF Stay, Inserted
<1>2. /\ range \in Seq(SortElement) /\ N \in Nat /\ rev \in BOOLEAN /\ sorted_len \in Nat /\ sorted_len >= 1
      /\ i \in 2 .. sorted_len + 1 /\ sorted_len < N /\ Inserting /\ ~Inserting'
      /\ Looked = sorted_len + 1 /\ Looked' = sorted_len + 1
  BY <1>1 DEF SortIInv, SortTypeOK, Inserting, N, Looked
<1>3. SortTypeOK'
  BY <1>1, <1>2 DEF SortTypeOK, SortIInv, Inserting
<1>4. /\ range[i].from = sorted_len + 1
      /\ \A n \in 1 .. N : n <= Looked /\ n # i => range[n].from <= sorted_len
  BY <1>2 DEF SortIInv, Origin
<1>5. Origin'
  <2>1. \A n \in 1 .. N : n <= Looked => range[n].from <= sorted_len + 1
    <3> SUFFICES ASSUME NEW n \in 1 .. N, n <= Looked PROVE range[n].from <= sorted_len + 1
      OBVIOUS
    <3>1. range[n] \in SortElement
      BY <1>2 DEF N
    <3>2. range[n].from \in Int
      BY <3>1 DEF SortElement
    <3> QED  BY <3>2, <1>2, <1>4
  <2> QED  BY <2>1, <1>1, <1>2 DEF Origin, SortIInv, N
<1>6. InPlace'
  <2> SUFFICES ASSUME NEW m \in 1 .. N, NEW n \in 1 .. N, m < n, n <= Looked
               PROVE  Ordered(range[m], range[n])
    BY <1>1, <1>2 DEF InPlace, Ordered, Before, N
  <2>1. \A p, q \in 1 .. N : p < q /\ q <= Looked /\ q # i => Ordered(range[p], range[q])
    BY <1>2 DEF SortIInv, InPlace
  <2>2. CASE n # i
    BY <2>2, <2>1
  <2>3. CASE n = i
    <3>1. m <= i - 1 /\ i - 1 \in 1 .. N /\ i - 1 # i /\ i - 1 <= Looked /\ i \in 1 .. N
      BY <2>3, <1>2
    <3>2. range[m] \in SortElement /\ range[i - 1] \in SortElement /\ range[i] \in SortElement
      BY <3>1, <1>2 DEF N
    <3>3. Ordered(range[m], range[i - 1]) \/ range[m] = range[i - 1]
      BY <3>1, <2>1
    <3>4. range[m].from < range[i].from
      <4>1. range[m].from \in Int
        BY <3>2 DEF SortElement
      <4>2. range[m].from <= sorted_len
        BY <3>1, <1>2, <1>4
      <4> QED  BY <4>1, <4>2, <1>4, <1>2
    <3> QED  BY <3>2, <3>3, <3>4, <1>1, <1>2, <2>3, NotBefore
  <2> QED  BY <2>2, <2>3
<1>7. AllThere'
  BY <1>1, SameThere DEF SortIInv
<1> QED  BY <1>1, <1>3, <1>5, <1>6, <1>7 DEF SortIInv, AtEnd

LEMMA EndStep == SortIInv /\ InsertionEnds => SortIInv'
<1> SUFFICES ASSUME SortIInv, InsertionEnds PROVE SortIInv'  OBVIOUS
<1> USE DEF SortIInv, SortTypeOK, Inserting, Looked, N
<1>1. /\ by' = by /\ given' = given /\ range' = range /\ rev' = rev /\ sorted_len' = sorted_len /\ i' = i
      /\ stage = "outer" /\ stage' = "done" /\ sorted_len >= Len(range)
  BY DEF InsertionEnds
<1>2. SortTypeOK' /\ AtEnd'
  BY <1>1 DEF AtEnd
<1>5. AllThere'
  BY <1>1, SameThere
<1>3. Origin'
  BY <1>1 DEF Origin
<1>4. InPlace'
  BY <1>1 DEF InPlace, Ordered, Before
<1> QED  BY <1>2, <1>3, <1>4, <1>5

LEMMA SortStutterStep == SortIInv /\ UNCHANGED sortvars => SortIInv'
<1> SUFFICES ASSUME SortIInv, UNCHANGED sortvars PROVE SortIInv'  OBVIOUS
<1>1. /\ by' = by /\ given' = given /\ range' = range /\ rev' = rev /\ sorted_len' = sorted_len /\ i' = i
      /\ stage' = stage
  BY DEF sortvars
<1>2. SortTypeOK' /\ AtEnd' /\ Origin'
  BY <1>1 DEF SortIInv, SortTypeOK, AtEnd, Origin, Inserting, Looked, N
<1>3. InPlace'
  BY <1>1 DEF SortIInv, InPlace, Ordered, Before, Inserting, Looked, N
<1>4. AllThere'
  BY <1>1, SameThere DEF SortIInv
<1> QED  BY <1>2, <1>3, <1>4 DEF SortIInv

\* At every step of _ft_insertion_sort the part it has looked at is in order, but for the
\* element that it is inserting, for any range and any keys.
THEOREM SortInvariance == InsertionSpec => []SortIInv
<1>1. InsertionInit => SortIInv
  BY SortInitHolds
<1>2. SortIInv /\ [InsertionSort]_sortvars => SortIInv'
  BY InsertNextStep, SwapStep, StayStep, EndStep, SortStutterStep DEF InsertionSort
<1> QED  BY <1>1, <1>2, PTL DEF InsertionSpec

\* What _ft_insertion_sort returns holds the same elements, in order, and equal ones in the
\* order they had.
THEOREM InsertionSorts == InsertionSpec => []SortedWell
<1>1. SortIInv => SortedWell
  <2> SUFFICES ASSUME SortIInv, stage = "done" PROVE SortedWell  BY DEF SortedWell
  <2>1. ElementsOf(range) = ElementsOf(el(given)) /\ Len(el(given)) = Len(given)
    BY DEF SortIInv, AllThere, SortTypeOK, el
  <2>2. \A n \in 1 .. N - 1 : Ordered(range[n], range[n + 1])
    BY DEF SortIInv, SortTypeOK, AtEnd, InPlace, Looked, Inserting, N
  <2> QED  BY <2>1, <2>2 DEF SortedWell, ElementsOf, InOrder, Ordered, N, SortIInv, SortTypeOK
<1> QED  BY <1>1, SortInvariance, PTL

-----------------------------------------------------------------------------
(* The inductive invariant of the messages. *)

Bytes == STRING \cup {"%", "l"} \cup {Char(n) : n \in Nat} \cup {args[n][1] : n \in Nat}
SprintfTypeOK == /\ size \in Nat \ {0}
                 /\ args \in Seq(Seq(STRING))
                 /\ buffer \in Seq(Bytes)
                 /\ at \in Nat /\ next \in Nat /\ next >= 1
SprintfIInv == SprintfTypeOK /\ Fits

-----------------------------------------------------------------------------
\* What is cut is a sequence, and as short as it was to be.
LEMMA AtMostShort ==
    ASSUME NEW S, NEW text \in Seq(S), NEW n \in Nat
    PROVE  AtMost(text, n) \in Seq(S) /\ Len(AtMost(text, n)) <= n
BY DEF AtMost

\* A sequence of strings is one of what may be in the buffer.
LEMMA StringsAreBytes == ASSUME NEW text \in Seq(STRING) PROVE text \in Seq(Bytes)
BY DEF Bytes

LEMMA TwoOf == ASSUME NEW S, NEW a \in S, NEW b \in S PROVE <<a, b>> \in Seq(S)
OBVIOUS

LEMMA SprintfInitHolds == SprintfInit => SprintfIInv
<1> SUFFICES ASSUME SprintfInit PROVE SprintfIInv  OBVIOUS
<1>1. PICK message \in Messages : args = message.args /\ size = message.size
  BY DEF SprintfInit
<1>2. message \in [pieces : Seq(STRING), args : Seq(Seq(STRING)), size : Nat \ {0}]
  BY <1>1, MessagesAssumption
<1>3. size \in Nat \ {0} /\ args \in Seq(Seq(STRING))
  BY <1>1, <1>2
<1>4. buffer = <<>> /\ at = 1 /\ next = 1
  BY DEF SprintfInit
<1> QED  BY <1>3, <1>4 DEF SprintfIInv, SprintfTypeOK, Fits, len

\* What fits in the room that is left keeps the buffer in its bounds.
LEMMA WritesKeeps ==
    ASSUME SprintfIInv, NEW text \in Seq(Bytes), NEW length \in {1, 2, 3}, Writes(text, length),
           Len(text) <= Room, next' \in Nat, next' >= 1
    PROVE  SprintfIInv'
<1>1. /\ size' = size /\ args' = args /\ format' = format /\ at' = at + length /\ buffer' = buffer \o text
  BY DEF Writes
<1>2. Bytes' = Bytes
  BY <1>1 DEF Bytes, Char
<1>3. /\ buffer \in Seq(Bytes) /\ size \in Nat \ {0} /\ args \in Seq(Seq(STRING)) /\ at \in Nat
      /\ Len(buffer) <= size
  BY DEF SprintfIInv, SprintfTypeOK, Fits, len
<1>4. buffer \o text \in Seq(Bytes) /\ Len(buffer \o text) = Len(buffer) + Len(text)
  BY <1>3
<1>5. Len(buffer) + Len(text) <= size
  BY <1>3 DEF Room, len
<1> QED  BY <1>1, <1>2, <1>3, <1>4, <1>5 DEF SprintfIInv, SprintfTypeOK, Fits, len

LEMMA RoomLeft ==
    ASSUME SprintfIInv, NEW text, NEW length, Writes(text, length)
    PROVE  Room \in Nat /\ Room >= 2 /\ next \in Nat /\ next >= 1 /\ next + 1 \in Nat /\ next + 1 >= 1
BY DEF SprintfIInv, SprintfTypeOK, Fits, len, Room, Writes

\* One byte always fits.
LEMMA ByteKeeps ==
    ASSUME SprintfIInv, NEW c \in Bytes, NEW length \in {1, 2}, Writes(<<c>>, length), next' \in {next, next + 1}
    PROVE  SprintfIInv'
<1>1. <<c>> \in Seq(Bytes) /\ Len(<<c>>) = 1
  OBVIOUS
<1>2. Room \in Nat /\ Room >= 2 /\ next \in Nat /\ next >= 1
  BY RoomLeft
<1>3. Len(<<c>>) <= Room /\ next' \in Nat /\ next' >= 1
  BY <1>1, <1>2
<1> QED  BY <1>1, <1>3, WritesKeeps

\* An argument that is cut at the room, or before, fits.
LEMMA ArgumentKeeps ==
    ASSUME SprintfIInv, NEW n \in Nat, NEW length \in {2, 3}, next <= Len(args),
           WritesArgument(AtMost(args[next], n), length), n <= Room
    PROVE  SprintfIInv'
<1>1. args[next] \in Seq(STRING)
  BY DEF SprintfIInv, SprintfTypeOK
<1>2. AtMost(args[next], n) \in Seq(Bytes) /\ Len(AtMost(args[next], n)) <= n
  BY <1>1, StringsAreBytes, AtMostShort
<1>3. Writes(AtMost(args[next], n), length) /\ next' = next + 1
  BY DEF WritesArgument
<1>4. Room \in Nat /\ next + 1 \in Nat /\ next + 1 >= 1
  BY <1>3, RoomLeft
<1>5. Len(AtMost(args[next], n)) <= Room
  BY <1>2, <1>4
<1> QED  BY <1>2, <1>3, <1>4, <1>5, WritesKeeps

LEMMA LoopStep == SprintfIInv /\ parse_format => SprintfIInv'
<1> SUFFICES ASSUME SprintfIInv, parse_format PROVE SprintfIInv'  OBVIOUS
<1>1. at \in Nat /\ next \in Nat
  BY DEF SprintfIInv, SprintfTypeOK
<1>2. Char(at) \in Bytes /\ "%" \in Bytes /\ args[next][1] \in Bytes
  <2>1. Char(at) \in {Char(n) : n \in Nat} /\ args[next][1] \in {args[n][1] : n \in Nat}
    BY <1>1, Zenon
  <2>2. "%" \in {"%", "l"}
    OBVIOUS
  <2> QED  BY <2>1, <2>2, Zenon DEF Bytes
<1>3. CASE Plain
  BY <1>2, <1>3, ByteKeeps DEF Plain, WritesText
<1>4. CASE Percent \/ NoWay
  BY <1>2, <1>4, ByteKeeps DEF Percent, NoWay, WritesText
<1>5. CASE PutChar
  BY <1>2, <1>5, ByteKeeps DEF PutChar, WritesArgument
<1>6. CASE PutNumber
  <2>1. WritesArgument(AtMost(args[next], Room), 2) /\ next <= Len(args)
    BY <1>6 DEF PutNumber, ft_putnbr_buffer, WritesArgument
  <2>2. Room \in Nat /\ Room <= Room
    BY <2>1, RoomLeft DEF WritesArgument
  <2> QED  BY <2>1, <2>2, ArgumentKeeps
<1>7. CASE PutString
  <2>1. WritesArgument(AtMost(args[next], Room - 1), 2) /\ next <= Len(args)
    BY <1>7 DEF PutString, put_str_buffer, WritesArgument
  <2>2. Room - 1 \in Nat /\ Room - 1 <= Room
    BY <2>1, RoomLeft DEF WritesArgument
  <2> QED  BY <2>1, <2>2, ArgumentKeeps
<1>8. CASE PutPointer
  <2>1. PICK n \in {Room, Room - 1} : WritesArgument(AtMost(args[next], n), 2) /\ next <= Len(args)
    BY <1>8 DEF PutPointer, put_ptr_str, put_str_buffer, ft_putnbr_buffer, WritesArgument
  <2>2. n \in Nat /\ n <= Room
    BY <2>1, RoomLeft DEF WritesArgument
  <2> QED  BY <2>1, <2>2, ArgumentKeeps
<1>9. CASE PutLong
  <2>1. WritesArgument(AtMost(args[next], Room), 3) /\ next <= Len(args)
    BY <1>9 DEF PutLong, ft_putnbr_buffer, WritesArgument
  <2>2. Room \in Nat /\ Room <= Room
    BY <2>1, RoomLeft DEF WritesArgument
  <2> QED  BY <2>1, <2>2, ArgumentKeeps
<1>10. CASE NoLong
  <2>1. Writes(AtMost(<<"%", "l">>, Room - 1), 2) /\ next' = next
    BY <1>10 DEF NoLong, put_str_buffer, WritesText
  <2>2. Room \in Nat /\ Room - 1 \in Nat /\ next \in Nat /\ next >= 1
    BY <2>1, RoomLeft
  <2>3. <<"%", "l">> \in Seq(Bytes)
    <3>1. "%" \in Bytes /\ "l" \in Bytes
      BY DEF Bytes
    <3> QED  BY <3>1, TwoOf
  <2>4. AtMost(<<"%", "l">>, Room - 1) \in Seq(Bytes) /\ Len(AtMost(<<"%", "l">>, Room - 1)) <= Room - 1
    BY <2>2, <2>3, AtMostShort
  <2>5. Len(AtMost(<<"%", "l">>, Room - 1)) <= Room
    BY <2>2, <2>4
  <2> QED  BY <2>1, <2>2, <2>4, <2>5, WritesKeeps
<1> QED  BY <1>3, <1>4, <1>5, <1>6, <1>7, <1>8, <1>9, <1>10 DEF parse_format

LEMMA TerminateStep == SprintfIInv /\ Terminate => SprintfIInv'
<1> SUFFICES ASSUME SprintfIInv, Terminate PROVE SprintfIInv'  OBVIOUS
<1>1. /\ size' = size /\ args' = args /\ format' = format /\ at' = at /\ next' = next
      /\ buffer' \in {AtMost(buffer, size - 1), buffer}
  BY DEF Terminate
<1>2. Bytes' = Bytes
  BY <1>1 DEF Bytes, Char
<1>3. /\ buffer \in Seq(Bytes) /\ size \in Nat \ {0} /\ size - 1 \in Nat /\ Len(buffer) <= size
  BY DEF SprintfIInv, SprintfTypeOK, Fits, len
<1>4. AtMost(buffer, size - 1) \in Seq(Bytes) /\ Len(AtMost(buffer, size - 1)) <= size - 1
  BY <1>3, AtMostShort
<1>5. buffer' \in Seq(Bytes) /\ Len(buffer') <= size
  BY <1>1, <1>3, <1>4
<1> QED  BY <1>1, <1>2, <1>5 DEF SprintfIInv, SprintfTypeOK, Fits, len

\* The buffer is never written behind its end, by no format, arguments or size.
THEOREM FitsAlways == SprintfSpec => []Fits
<1>1. SprintfInit => SprintfIInv
  BY SprintfInitHolds
<1>2. SprintfIInv /\ [SprintfNext]_svars => SprintfIInv'
  <2>1. SprintfIInv /\ UNCHANGED svars => SprintfIInv'
    BY DEF svars, SprintfIInv, SprintfTypeOK, Fits, len, Bytes, Char
  <2> QED  BY <2>1, LoopStep, TerminateStep DEF SprintfNext
<1>3. SprintfIInv => Fits
  BY DEF SprintfIInv
<1> QED  BY <1>1, <1>2, <1>3, PTL DEF SprintfSpec

-----------------------------------------------------------------------------
(* The inductive invariant of the vector. *)

Headers == [len : Nat, capacity : Nat, type_size : Sizes, dont_shrink : BOOLEAN]
\* A block has room for as many elements as the header says.
Fitted(m, h) == h.len <= h.capacity /\ DOMAIN m = 0 .. h.capacity * h.type_size - 1
Listed(c, n) == c = [p \in 1 .. n |-> c[p]]

-----------------------------------------------------------------------------
(* Where elements are in the block. *)

(* Sizes of blocks. *)
LEMMA Products ==
  ASSUME NEW s \in Nat, NEW x \in Nat, NEW y \in Nat
  PROVE  /\ x * s \in Nat /\ y * s \in Nat
         /\ x < y => x * s + s <= y * s
         /\ (x + y) * s = x * s + y * s
<1>1. x * s \in Nat /\ y * s \in Nat /\ (x + y) * s = x * s + y * s  OBVIOUS
<1>2. ASSUME x < y PROVE x * s + s <= y * s
  <2>1. PICK d \in Nat : y = x + 1 + d
    <3>1. y - x - 1 \in Nat /\ y = x + 1 + (y - x - 1)  BY <1>2
    <3>2. QED  BY <3>1
  <2>2. y * s = x * s + s + d * s /\ d * s \in Nat  BY <2>1
  <2>3. QED  BY <1>1, <2>2
<1>3. QED  BY <1>1, <1>2

(* The b-th byte of the p-th element of s bytes: in front of c elements, or not. *)
LEMMA Offsets ==
  ASSUME NEW s \in Nat \ {0}, NEW p \in Nat \ {0}, NEW b \in 1 .. s, NEW c \in Nat
  PROVE  /\ (p - 1) * s + b - 1 \in Nat
         /\ p <= c => (p - 1) * s + b - 1 < c * s
         /\ ~(p <= c) => c * s <= (p - 1) * s + b - 1
<1> DEFINE o == (p - 1) * s
           e == c * s
<1>1. p - 1 \in Nat /\ s \in Nat /\ (p - 1) + 1 = p  OBVIOUS
<1>2. o \in Nat /\ e \in Nat  BY <1>1, Products
<1>3. p <= c => o + s <= e
  <2>1. p <= c => p - 1 < c  BY <1>1
  <2>2. QED  BY <1>1, <2>1, Products
<1>4. ~(p <= c) => e <= o
  <2>1. ~(p <= c) => c = p - 1 \/ c < p - 1  BY <1>1
  <2>2. c = p - 1 => e = o  OBVIOUS
  <2>3. c < p - 1 => e + s <= o  BY <1>1, Products
  <2> HIDE DEF o, e
  <2>4. QED  BY <1>2, <2>1, <2>2, <2>3
<1> HIDE DEF o, e
<1>5. /\ o + b - 1 \in Nat
      /\ p <= c => o + b - 1 < e
      /\ ~(p <= c) => e <= o + b - 1
  BY <1>2, <1>3, <1>4
<1>6. QED  BY <1>5 DEF o, e

(* Its place from its number, and back. *)
LEMMA Places ==
  ASSUME NEW s \in Nat \ {0}, NEW a \in Nat, NEW b \in 1 .. s
  PROVE  /\ (a * s + b - 1) \div s = a
         /\ (a * s + b - 1) % s = b - 1
<1> DEFINE x == a * s + b - 1
           q == x \div s
           r == x % s
<1>1. a * s \in Nat /\ s \in Nat  BY Products
<1>2. x \in Nat  BY <1>1
<1>3. x = s * q + r /\ q \in Nat /\ r \in 0 .. s - 1
  <2> HIDE DEF x
  <2>1. QED  BY <1>2
<1>4. q = a
  <2>0. s * q = q * s /\ q * s \in Nat  BY <1>3
  <2>1. ~(q < a)
    <3>1. q < a => q * s + s <= a * s  BY <1>1, <1>3, Products
    <3> HIDE DEF q, r
    <3>2. QED  BY <1>1, <1>3, <2>0, <3>1
  <2>2. ~(a < q)
    <3>1. a < q => a * s + s <= q * s  BY <1>1, <1>3, Products
    <3> HIDE DEF q, r
    <3>2. QED  BY <1>1, <1>3, <2>0, <3>1
  <2> HIDE DEF q, r, x
  <2>3. QED  BY <1>3, <2>1, <2>2
<1>5. r = b - 1
  <2>1. s * q = a * s  BY <1>4
  <2> HIDE DEF q, r
  <2>2. QED  BY <1>1, <1>3, <2>1
<1>6. QED  BY <1>4, <1>5 DEF q, r, x

-----------------------------------------------------------------------------
(* What the operations make of a block. *)

(* An element that was in the block, and is in the new one, is the same in both. *)
LEMMA SizedKeeps ==
  ASSUME NEW m, NEW c \in Nat, NEW h, h \in Headers,
         DOMAIN m = 0 .. c * h.type_size - 1, NEW g, g.type_size = h.type_size
  PROVE  /\ DOMAIN Sized(m, h) = 0 .. h.capacity * h.type_size - 1
         /\ \A p \in 1 .. h.capacity : p <= c => Element(Sized(m, h), h, p) = Element(m, g, p)
<1>1. h.type_size \in Nat \ {0} /\ h.capacity \in Nat  BY SizesAssumption DEF Headers
<1>2. DOMAIN Sized(m, h) = 0 .. h.capacity * h.type_size - 1  BY DEF Sized
<1> DEFINE s == h.type_size
<1>3. ASSUME NEW p \in 1 .. h.capacity, p <= c, NEW b \in 1 .. s
      PROVE  Sized(m, h)[(p - 1) * s + b - 1] = m[(p - 1) * s + b - 1]
  <2> DEFINE o == (p - 1) * s + b - 1
             e == c * s
             f == h.capacity * s
  <2>1. o \in Nat /\ o < e /\ o < f
    <3>1. p \in Nat \ {0} /\ p <= h.capacity  OBVIOUS
    <3> HIDE DEF s
    <3>2. QED  BY <1>1, <1>3, <3>1, Offsets DEF s
  <2>2. e \in Nat /\ f \in Nat  BY <1>1, Products
  <2>3. DOMAIN m = 0 .. e - 1 /\ Sized(m, h) = [w_ \in 0 .. f - 1 |-> IF w_ \in DOMAIN m THEN m[w_] ELSE Junk]
    BY DEF Sized
  <2> HIDE DEF o, e, f
  <2>4. o \in 0 .. e - 1 /\ o \in 0 .. f - 1  BY <2>1, <2>2
  <2>5. Sized(m, h)[o] = m[o]  BY <2>3, <2>4
  <2>6. QED  BY <2>5 DEF o
<1>4. ASSUME NEW p \in 1 .. h.capacity, p <= c PROVE Element(Sized(m, h), h, p) = Element(m, g, p)
  <2>1. \A b \in 1 .. s : Sized(m, h)[(p - 1) * s + b - 1] = m[(p - 1) * s + b - 1]
    BY <1>3, <1>4
  <2>2. QED  BY <2>1 DEF Element
<1>5. QED  BY <1>2, <1>4

(* Shrink keeps the elements, whichever way it goes. *)
LEMMA ShrinkKeeps ==
  ASSUME NEW h, h \in Headers, NEW m, Fitted(m, h), NEW target \in Nat, h.len <= target,
         Shrink(h, m, target)
  PROVE  /\ header' \in Headers /\ Fitted(bytes', header')
         /\ header'.len = h.len /\ header'.type_size = h.type_size
         /\ \A p \in 1 .. h.len : Element(bytes', header', p) = Element(m, h, p)
<1>1. h.len \in Nat /\ h.capacity \in Nat /\ h.len <= h.capacity  BY DEF Headers, Fitted
<1>2. CASE header' = h /\ bytes' = m  BY <1>2
<1>3. CASE header' = [h EXCEPT !.capacity = target] /\ bytes' = Sized(m, header')
  <2> DEFINE g == [h EXCEPT !.capacity = target]
  <2>1. g \in Headers /\ g.len = h.len /\ g.type_size = h.type_size /\ g.capacity = target
    BY DEF Headers
  <2>2. header' = g /\ bytes' = Sized(m, g)  BY <1>3
  <2> HIDE DEF g
  <2>3. DOMAIN m = 0 .. h.capacity * g.type_size - 1 /\ h.type_size = g.type_size
    BY <2>1 DEF Fitted
  <2>4. /\ DOMAIN Sized(m, g) = 0 .. g.capacity * g.type_size - 1
        /\ \A p \in 1 .. g.capacity : p <= h.capacity => Element(Sized(m, g), g, p) = Element(m, h, p)
    BY <1>1, <2>1, <2>3, SizedKeeps
  <2>5. \A p \in 1 .. h.len : p \in 1 .. g.capacity /\ p <= h.capacity  BY <1>1, <2>1
  <2>6. \A p \in 1 .. h.len : Element(Sized(m, g), g, p) = Element(m, h, p)  BY <2>4, <2>5
  <2>7. Fitted(Sized(m, g), g)  BY <2>1, <2>4 DEF Fitted
  <2>8. QED  BY <2>1, <2>2, <2>6, <2>7
<1>4. QED  BY <1>2, <1>3 DEF Shrink

(* Elements from the one behind pos on are moved n places up. *)
OpenedUp(w, m, h, l, pos, n) ==
    /\ DOMAIN w = DOMAIN m
    /\ \A p \in 1 .. l + n :
          /\ p <= pos => Element(w, h, p) = Element(m, h, p)
          /\ p > pos + n => Element(w, h, p) = Element(m, h, p - n)

LEMMA MovedUp ==
  ASSUME NEW m, NEW c \in Nat, NEW h, h \in Headers, DOMAIN m = 0 .. c * h.type_size - 1,
         NEW l \in Nat, NEW pos \in 0 .. l, NEW n \in Nat, l + n <= c,
         NEW w, w = ft_memmove(m, (pos + n) * h.type_size, pos * h.type_size, (l - pos) * h.type_size)
  PROVE  OpenedUp(w, m, h, l, pos, n)
<1> DEFINE s == h.type_size
<1>1. s \in Nat \ {0} /\ pos \in Nat /\ pos <= l /\ l - pos \in Nat
  <2>1. s \in Nat \ {0}  BY SizesAssumption DEF Headers
  <2>2. QED  BY <2>1
<1>2. DOMAIN w = DOMAIN m  BY DEF ft_memmove
<1> DEFINE to == (pos + n) * s
           from == pos * s
           end == (l + n) * s
           up == n * s
           e == c * s
<1>3. /\ to \in Nat /\ from \in Nat /\ end \in Nat /\ up \in Nat /\ e \in Nat
      /\ to = from + up /\ to + (l - pos) * s = end
  <2>1. /\ to = from + up /\ end = l * s + up /\ l * s = from + (l - pos) * s
        /\ from \in Nat /\ up \in Nat /\ (l - pos) * s \in Nat /\ e \in Nat /\ l * s \in Nat
    <3>1. pos + (l - pos) = l  BY <1>1
    <3> HIDE DEF s
    <3>2. QED  BY <1>1, <3>1, Products
  <2> DEFINE a == l * s
             d == (l - pos) * s
  <2> HIDE DEF to, from, end, up, e, a, d
  <2>2. to = from + up /\ end = a + up /\ a = from + d /\ from \in Nat /\ up \in Nat /\ d \in Nat /\ e \in Nat
    BY <2>1 DEF a, d
  <2>3. to \in Nat /\ end \in Nat /\ to + d = end  BY <2>2
  <2>4. QED  BY <2>2, <2>3 DEF d
<1>4. ASSUME NEW p \in 1 .. l + n, p <= pos PROVE Element(w, h, p) = Element(m, h, p)
  <2>1. ASSUME NEW b \in 1 .. s PROVE w[(p - 1) * s + b - 1] = m[(p - 1) * s + b - 1]
    <3> DEFINE o == (p - 1) * s + b - 1
    <3>1. o \in Nat /\ o < from /\ o < e
      <4>1. p \in Nat \ {0} /\ p <= pos /\ p <= c  BY <1>1, <1>4
      <4> HIDE DEF s
      <4>2. QED  BY <1>1, <4>1, Offsets
    <3> HIDE DEF o, e, to, from, end, up
    <3>2. o \in DOMAIN m /\ ~(to <= o)
      <4>1. DOMAIN m = 0 .. e - 1  BY DEF e
      <4>2. o \in 0 .. e - 1 /\ ~(to <= o)  BY <1>3, <3>1
      <4>3. QED  BY <4>1, <4>2, Zenon
    <3>3. w[o] = m[o]  BY <3>2 DEF ft_memmove, to
    <3>4. QED  BY <3>3 DEF o
  <2>2. QED  BY <2>1 DEF Element
<1>5. ASSUME NEW p \in 1 .. l + n, p > pos + n PROVE Element(w, h, p) = Element(m, h, p - n)
  <2>1. ASSUME NEW b \in 1 .. s PROVE w[(p - 1) * s + b - 1] = m[((p - n) - 1) * s + b - 1]
    <3> DEFINE o == (p - 1) * s + b - 1
               x == ((p - n) - 1) * s + b - 1
    <3>0. /\ p \in Nat \ {0} /\ p <= l + n /\ p <= c /\ ~(p <= pos + n) /\ l + n \in Nat /\ pos + n \in Nat
          /\ p - n \in Nat \ {0} /\ p - n <= c /\ p - n - 1 \in Nat /\ (p - n - 1) + n = p - 1
      BY <1>1, <1>5
    <3>1. o \in Nat /\ to <= o /\ o < end /\ o < e
      <4> HIDE DEF s
      <4>1. QED  BY <1>1, <3>0, Offsets
    <3>2. x \in Nat /\ x < e
      <4> HIDE DEF s
      <4>1. QED  BY <1>1, <3>0, Offsets
    <3>3. o = x + up
      <4>1. (p - 1) * s = ((p - n) - 1) * s + up
        <5> HIDE DEF s
        <5>1. QED  BY <1>1, <3>0, Products
      <4> DEFINE y == ((p - n) - 1) * s
                 z == (p - 1) * s
      <4>2. y \in Nat /\ z \in Nat
        <5>1. p - 1 \in Nat  BY <3>0
        <5> HIDE DEF s
        <5>2. QED  BY <1>1, <3>0, <5>1, Products
      <4>3. z + b - 1 = y + b - 1 + up
        <5>1. z = y + up  BY <4>1
        <5> HIDE DEF y, z, up
        <5>2. QED  BY <1>3, <4>2, <5>1
      <4>4. QED  BY <4>3
    <3> HIDE DEF o, e, x, to, from, end, up
    <3>4. o \in DOMAIN m /\ x \in DOMAIN m /\ o - to + from = x
      <4>1. DOMAIN m = 0 .. e - 1  BY DEF e
      <4>2. o \in 0 .. e - 1 /\ x \in 0 .. e - 1  BY <1>3, <3>1, <3>2
      <4>3. o - to + from = x
        <5>1. o \in Nat /\ to = from + up /\ from \in Nat /\ up \in Nat /\ x \in Nat  BY <1>3, <3>1, <3>2
        <5>2. QED  BY <3>3, <5>1
      <4>4. QED  BY <4>1, <4>2, <4>3, Zenon
    <3>5. w = [w_ \in DOMAIN m |-> IF to <= w_ /\ w_ < end
                                  THEN IF w_ - to + from \in DOMAIN m THEN m[w_ - to + from] ELSE Junk
                                  ELSE m[w_]]
      <4>1. to + (l - pos) * s = end  BY <1>3
      <4>2. w = ft_memmove(m, to, from, (l - pos) * s)  BY DEF to, from
      <4>3. QED  BY <4>1, <4>2 DEF ft_memmove
    <3>6. w[o] = m[x]  BY <3>1, <3>4, <3>5
    <3>7. QED  BY <3>6 DEF o, x
  <2>2. QED  BY <2>1 DEF Element
<1>6. QED  BY <1>2, <1>4, <1>5 DEF OpenedUp

(* The bytes of a range are those of its elements. *)
LEMMA PackedBytes ==
  ASSUME NEW s \in Nat \ {0}, NEW n \in Nat, NEW d, Len(d) = n, NEW q \in 1 .. n, NEW b \in 1 .. s
  PROVE  /\ (q - 1) * s + b \in 1 .. n * s
         /\ Packed(d, s)[(q - 1) * s + b] = d[q][b]
         /\ Len(Packed(d, s)) = n * s
<1> DEFINE a == q - 1
           o == a * s
           e == n * s
<1>1. a \in Nat /\ q = a + 1 /\ q \in Nat \ {0} /\ q <= n  OBVIOUS
<1>2. o + b - 1 \in Nat /\ o + b - 1 < e /\ o \in Nat /\ e \in Nat  BY <1>1, Offsets, Products
<1>3. (o + b - 1) \div s = a /\ (o + b - 1) % s = b - 1  BY <1>1, Places
<1>4. Packed(d, s) = [w_ \in 1 .. e |-> d[((w_ - 1) \div s) + 1][((w_ - 1) % s) + 1]]
  BY DEF Packed
<1> HIDE DEF o, e, a
<1>5. o + b \in 1 .. e /\ (o + b) - 1 = o + b - 1 /\ (b - 1) + 1 = b  BY <1>2
<1>6. Packed(d, s)[o + b] = d[a + 1][b]  BY <1>3, <1>4, <1>5
<1>7. Len(Packed(d, s)) = e  BY <1>2, <1>4
<1>8. QED  BY <1>1, <1>5, <1>6, <1>7 DEF o, e, a

(* A range is copied to pos. *)
Copied(w, m, h, c, pos, n, d) ==
    /\ DOMAIN w = DOMAIN m
    /\ \A p \in 1 .. c : Element(w, h, p) = IF pos < p /\ p <= pos + n THEN d[p - pos] ELSE Element(m, h, p)

LEMMA CopiedIn ==
  ASSUME NEW m, NEW c \in Nat, NEW h, h \in Headers, DOMAIN m = 0 .. c * h.type_size - 1,
         NEW pos \in Nat, NEW n \in Nat \ {0}, pos + n <= c,
         NEW d \in [1 .. n -> Elements(h.type_size)],
         NEW w, w = ft_memcpy(m, pos * h.type_size, Packed(d, h.type_size))
  PROVE  Copied(w, m, h, c, pos, n, d)
<1> DEFINE s == h.type_size
           to == pos * s
           up == n * s
           end == (pos + n) * s
           e == c * s
<1>1. s \in Nat \ {0} /\ s \in Sizes /\ pos + n \in Nat
  <2>1. s \in Nat \ {0} /\ s \in Sizes  BY SizesAssumption DEF Headers
  <2>2. QED  BY <2>1
<1>2. DOMAIN w = DOMAIN m  BY DEF ft_memcpy
<1>3. to \in Nat /\ up \in Nat /\ end \in Nat /\ e \in Nat /\ end = to + up
  <2> HIDE DEF s
  <2>1. QED  BY <1>1, Products
<1>4. Len(d) = n  OBVIOUS
<1>5. Len(Packed(d, s)) = up
  <2>1. 1 \in 1 .. n /\ 1 \in 1 .. s  BY <1>1
  <2> HIDE DEF s
  <2>2. QED  BY <1>1, <1>4, <2>1, PackedBytes
<1>6. w = [w_ \in DOMAIN m |-> IF to <= w_ /\ w_ < end THEN Packed(d, s)[w_ - to + 1] ELSE m[w_]]
  <2>1. w = [w_ \in DOMAIN m |-> IF to <= w_ /\ w_ < to + Len(Packed(d, s))
                                 THEN Packed(d, s)[w_ - to + 1] ELSE m[w_]]
    BY DEF ft_memcpy
  <2>2. to + Len(Packed(d, s)) = end  BY <1>3, <1>5
  <2>3. QED  BY <2>1, <2>2
<1>7. ASSUME NEW p \in 1 .. c, ~(pos < p /\ p <= pos + n) PROVE Element(w, h, p) = Element(m, h, p)
  <2>1. ASSUME NEW b \in 1 .. s PROVE w[(p - 1) * s + b - 1] = m[(p - 1) * s + b - 1]
    <3> DEFINE o == (p - 1) * s + b - 1
    <3>0. p \in Nat \ {0} /\ p <= c /\ (p <= pos \/ ~(p <= pos + n))  BY <1>7
    <3>1. o \in Nat /\ o < e /\ (o < to \/ end <= o)
      <4> HIDE DEF s
      <4>1. QED  BY <1>1, <3>0, Offsets
    <3> HIDE DEF o, e, to, end
    <3>2. o \in DOMAIN m
      <4>1. DOMAIN m = 0 .. e - 1  BY DEF e
      <4>2. o \in 0 .. e - 1  BY <1>3, <3>1
      <4>3. QED  BY <4>1, <4>2, Zenon
    <3>3. ~(to <= o /\ o < end)  BY <1>3, <3>1
    <3>4. w[o] = m[o]  BY <1>6, <3>2, <3>3
    <3>5. QED  BY <3>4 DEF o
  <2>2. QED  BY <2>1 DEF Element
<1>8. ASSUME NEW p \in 1 .. c, pos < p, p <= pos + n PROVE Element(w, h, p) = d[p - pos]
  <2> DEFINE q == p - pos
  <2>0. q \in 1 .. n /\ p - 1 = (q - 1) + pos /\ q - 1 \in Nat /\ p \in Nat \ {0} /\ p <= c
        /\ ~(p <= pos)
    BY <1>8
  <2> HIDE DEF q
  <2>1. d[q] = [b \in 1 .. s |-> d[q][b]]
    <3>1. d[q] \in Elements(s)  BY <2>0
    <3> HIDE DEF s
    <3>2. QED  BY <1>1, <3>1, ElementsAssumption, Zenon
  <2>2. ASSUME NEW b \in 1 .. s PROVE w[(p - 1) * s + b - 1] = d[q][b]
    <3> DEFINE o == (p - 1) * s + b - 1
               x == (q - 1) * s
    <3>1. o \in Nat /\ o < e /\ to <= o /\ o < end
      <4>1. p <= pos + n  BY <1>8
      <4> HIDE DEF s
      <4>2. QED  BY <1>1, <2>0, <4>1, Offsets
    <3>2. (p - 1) * s = x + to /\ x \in Nat
      <4> HIDE DEF s
      <4>1. QED  BY <1>1, <2>0, Products
    <3>3. Packed(d, s)[x + b] = d[q][b]
      <4> HIDE DEF s
      <4>1. QED  BY <1>1, <1>4, <2>0, PackedBytes
    <3>4. o - to + 1 = x + b
      <4> DEFINE y == (p - 1) * s
      <4>1. y = x + to /\ b \in Int /\ o = y + b - 1  BY <3>2
      <4> HIDE DEF o, x, y, to
      <4>2. QED  BY <1>3, <3>2, <4>1
    <3> HIDE DEF o, e, to, end, x
    <3>5. o \in DOMAIN m
      <4>1. DOMAIN m = 0 .. e - 1  BY DEF e
      <4>2. o \in 0 .. e - 1  BY <1>3, <3>1
      <4>3. QED  BY <4>1, <4>2, Zenon
    <3>6. w[o] = Packed(d, s)[x + b]  BY <1>6, <3>1, <3>4, <3>5
    <3>7. QED  BY <3>3, <3>6 DEF o
  <2>3. Element(w, h, p) = [b \in 1 .. s |-> d[q][b]]  BY <2>2 DEF Element
  <2>4. QED  BY <2>1, <2>3 DEF q
<1>9. QED  BY <1>2, <1>7, <1>8 DEF Copied

(* The elements behind the n from pos on are moved down: all of them when they are single *)
(* bytes, and when there are none.                                                        *)
ClosedDown(w, m, h, l, pos, n) ==
    /\ DOMAIN w = DOMAIN m
    /\ \A p \in 1 .. l - n : p <= pos => Element(w, h, p) = Element(m, h, p)
    /\ h.type_size = 1 =>
          \A p \in 1 .. l - n : p > pos => Element(w, h, p) = Element(m, h, p + n)

LEMMA MovedDown ==
  ASSUME NEW m, NEW c \in Nat, NEW h, h \in Headers, DOMAIN m = 0 .. c * h.type_size - 1,
         NEW l \in Nat, l <= c, NEW pos \in 0 .. l - 1, NEW n \in 1 .. l - pos,
         NEW w, w = ft_memmove(m, pos * h.type_size, (pos + n) * h.type_size, l - (pos + 1))
  PROVE  ClosedDown(w, m, h, l, pos, n)
<1> DEFINE s == h.type_size
           to == pos * s
           e == c * s
<1>1. s \in Nat \ {0} /\ pos \in Nat /\ pos <= l /\ n \in Nat /\ n <= l - pos
  <2>1. s \in Nat \ {0}  BY SizesAssumption DEF Headers
  <2>2. QED  BY <2>1
<1>2. DOMAIN w = DOMAIN m  BY DEF ft_memmove
<1>3. to \in Nat /\ e \in Nat
  <2> HIDE DEF s
  <2>1. QED  BY <1>1, Products
<1>4. ASSUME NEW p \in 1 .. l - n, p <= pos PROVE Element(w, h, p) = Element(m, h, p)
  <2>1. ASSUME NEW b \in 1 .. s PROVE w[(p - 1) * s + b - 1] = m[(p - 1) * s + b - 1]
    <3> DEFINE o == (p - 1) * s + b - 1
    <3>0. p \in Nat \ {0} /\ p <= c /\ p <= pos  BY <1>1, <1>4
    <3>1. o \in Nat /\ o < e /\ o < to
      <4> HIDE DEF s
      <4>1. QED  BY <1>1, <3>0, Offsets
    <3> HIDE DEF o, e, to
    <3>2. o \in DOMAIN m
      <4>1. DOMAIN m = 0 .. e - 1  BY DEF e
      <4>2. o \in 0 .. e - 1  BY <1>3, <3>1
      <4>3. QED  BY <4>1, <4>2, Zenon
    <3>3. ~(to <= o)  BY <1>3, <3>1
    <3>4. w[o] = m[o]  BY <3>2, <3>3 DEF ft_memmove, to
    <3>5. QED  BY <3>4 DEF o
  <2>2. QED  BY <2>1 DEF Element
<1>5. ASSUME s = 1, NEW p \in 1 .. l - n, p > pos PROVE Element(w, h, p) = Element(m, h, p + n)
  <2>1. DOMAIN m = 0 .. c - 1 /\ w = ft_memmove(m, pos, pos + n, l - (pos + 1))
    <3>1. c * s = c /\ pos * s = pos /\ (pos + n) * s = pos + n  BY <1>1, <1>5
    <3>2. QED  BY <3>1
  <2>2. /\ p - 1 \in 0 .. c - 1 /\ p - 1 + n \in 0 .. c - 1 /\ p - 1 - pos + (pos + n) = p - 1 + n
        /\ pos <= p - 1 /\ p - 1 < pos + (l - (pos + 1))
    BY <1>1, <1>5
  <2>3. w[p - 1] = m[p - 1 + n]  BY <2>1, <2>2 DEF ft_memmove
  <2>4. ASSUME NEW b \in 1 .. 1 PROVE w[(p - 1) * 1 + b - 1] = m[((p + n) - 1) * 1 + b - 1]
    <3>1. (p - 1) * 1 + b - 1 = p - 1 /\ ((p + n) - 1) * 1 + b - 1 = p - 1 + n  BY <1>1
    <3>2. QED  BY <2>3, <3>1
  <2>5. Element(w, h, p) = [b \in 1 .. 1 |-> w[(p - 1) * 1 + b - 1]]  BY <1>5 DEF Element
  <2>6. Element(m, h, p + n) = [b \in 1 .. 1 |-> m[((p + n) - 1) * 1 + b - 1]]  BY <1>5 DEF Element
  <2>7. QED  BY <2>4, <2>5, <2>6
<1>6. QED  BY <1>2, <1>4, <1>5 DEF ClosedDown

-----------------------------------------------------------------------------
(* What the operations make of the elements that should be there. *)

(* Elements that are listed are a sequence. *)
LEMMA ListedIsSeq ==
  ASSUME NEW c, NEW l \in Nat, Listed(c, l)
  PROVE  c \in Seq({c[p] : p \in 1 .. l}) /\ Len(c) = l
BY DEF Listed

(* The first x elements, and those from the one behind the y-th on. *)
LEMMA PartsOf ==
  ASSUME NEW c, NEW l \in Nat, Listed(c, l), NEW x \in 0 .. l, NEW y \in x .. l
  PROVE  /\ SubSeq(c, 1, x) = [p \in 1 .. x |-> c[p]]
         /\ SubSeq(c, y + 1, l) = [p \in 1 .. l - y |-> c[p + y]]
<1>1. c \in Seq({c[p] : p \in 1 .. l}) /\ Len(c) = l  BY ListedIsSeq
<1>2. SubSeq(c, 1, x) = [p \in 1 .. x |-> c[p]]  BY <1>1
<1>3. SubSeq(c, y + 1, l) = [p \in 1 .. l - y |-> c[p + y]]
  <2>1. SubSeq(c, y + 1, l) = [p \in 1 .. l - (y + 1) + 1 |-> c[(y + 1) + p - 1]]  BY <1>1
  <2>2. l - (y + 1) + 1 = l - y /\ \A p \in 1 .. l - y : (y + 1) + p - 1 = p + y  BY <1>1
  <2>3. QED  BY <2>1, <2>2
<1>4. QED  BY <1>2, <1>3

(* r is the l elements of c, and the n of d behind them. *)
Joined(r, c, l, d, n) ==
    /\ Listed(r, l + n)
    /\ \A p \in 1 .. l + n : r[p] = IF p <= l THEN c[p] ELSE d[p - l]

LEMMA Joining ==
  ASSUME NEW c, NEW l \in Nat, Listed(c, l), NEW d, NEW n \in Nat, Listed(d, n), NEW r, r = c \o d
  PROVE  Joined(r, c, l, d, n)
<1> DEFINE S == {c[p] : p \in 1 .. l}
           T == {d[p] : p \in 1 .. n}
<1>1. c \in Seq(S) /\ Len(c) = l /\ d \in Seq(T) /\ Len(d) = n  BY ListedIsSeq
<1>2. c \in Seq(S \cup T) /\ d \in Seq(S \cup T)
  <2>1. S \subseteq S \cup T /\ T \subseteq S \cup T  OBVIOUS
  <2> HIDE DEF S, T
  <2>2. QED  BY <1>1, <2>1
<1> HIDE DEF S, T
<1>3. /\ c \o d \in Seq(S \cup T) /\ Len(c \o d) = l + n
      /\ \A p \in 1 .. l + n : (c \o d)[p] = IF p <= l THEN c[p] ELSE d[p - l]
  BY <1>1, <1>2, ConcatProperties
<1>4. Listed(c \o d, l + n)  BY <1>3 DEF Listed
<1>5. QED  BY <1>3, <1>4 DEF Joined

(* A range goes between the first x elements and the others. *)
Between(r, c, l, d, n, x) ==
    /\ Listed(r, l + n)
    /\ \A p \in 1 .. l + n : r[p] = IF p <= x THEN c[p] ELSE IF p <= x + n THEN d[p - x] ELSE c[p - n]

LEMMA Spliced ==
  ASSUME NEW c, NEW l \in Nat, Listed(c, l), NEW d, NEW n \in Nat, Listed(d, n),
         NEW x \in 0 .. l, NEW r, r = SubSeq(c, 1, x) \o d \o SubSeq(c, x + 1, Len(c))
  PROVE  Between(r, c, l, d, n, x)
<1>1. Len(c) = l  BY ListedIsSeq
<1>2. x \in x .. l /\ x \in Nat /\ l - x \in Nat /\ x + n \in Nat  OBVIOUS
<1> DEFINE a == SubSeq(c, 1, x)
           b == SubSeq(c, x + 1, l)
           ad == a \o d
           t == l - x
           u == x + n
<1>3. a = [p \in 1 .. x |-> c[p]] /\ b = [p \in 1 .. t |-> c[p + x]]  BY <1>2, PartsOf
<1>4. r = ad \o b  BY <1>1
<1> HIDE DEF a, b
<1>5. Listed(a, x) /\ Listed(b, t)  BY <1>3 DEF Listed
<1>6. Joined(ad, a, x, d, n)  BY <1>2, <1>5, Joining
<1> HIDE DEF ad
<1>7. Listed(ad, u) /\ \A p \in 1 .. u : ad[p] = IF p <= x THEN a[p] ELSE d[p - x]
  BY <1>6 DEF Joined
<1>8. u \in Nat /\ t \in Nat /\ u + t = l + n  BY <1>2
<1>9. Joined(r, ad, u, b, t)
  <2> HIDE DEF u, t
  <2>1. QED  BY <1>4, <1>5, <1>7, <1>8, Joining
<1>10. Listed(r, l + n) /\ \A p \in 1 .. l + n : r[p] = IF p <= u THEN ad[p] ELSE b[p - u]
  BY <1>8, <1>9 DEF Joined
<1>11. ASSUME NEW p \in 1 .. l + n
       PROVE  r[p] = IF p <= x THEN c[p] ELSE IF p <= x + n THEN d[p - x] ELSE c[p - n]
  <2>1. r[p] = IF p <= u THEN ad[p] ELSE b[p - u]  BY <1>10
  <2>2. CASE p <= x
    <3>1. p \in 1 .. x /\ p \in 1 .. u /\ p <= u  BY <1>2, <2>2
    <3> HIDE DEF u
    <3>2. r[p] = a[p]  BY <1>7, <2>1, <2>2, <3>1
    <3>3. a[p] = c[p]  BY <1>3, <3>1
    <3>4. QED  BY <2>2, <3>2, <3>3
  <2>3. CASE ~(p <= x) /\ p <= u
    <3>1. p \in 1 .. u  BY <1>2, <2>3
    <3>2. r[p] = d[p - x]
      <4> HIDE DEF u
      <4>1. QED  BY <1>7, <2>1, <2>3, <3>1
    <3>3. QED  BY <2>3, <3>2
  <2>4. CASE ~(p <= x) /\ ~(p <= u)
    <3>1. p - u \in 1 .. t /\ p - u + x = p - n  BY <1>2, <2>4
    <3>2. r[p] = b[p - u]  BY <2>1, <2>4
    <3>3. b[p - u] = c[p - u + x]
      <4> HIDE DEF u, t
      <4>1. QED  BY <1>3, <3>1
    <3>4. r[p] = c[p - n]  BY <3>1, <3>2, <3>3
    <3>5. QED  BY <2>4, <3>4
  <2>5. QED  BY <2>2, <2>3, <2>4
<1>12. QED  BY <1>10, <1>11 DEF Between

(* The elements between the first x and those behind the y-th are taken out. *)
Removed(r, c, l, x, n, s) ==
    /\ Listed(r, l - n)
    /\ \A p \in 1 .. l - n : r[p] = IF p <= x THEN c[p] ELSE IF s = 1 THEN c[p + n] ELSE NoClaim

LEMMA TakenOut ==
  ASSUME NEW c, NEW l \in Nat, Listed(c, l), NEW x \in 0 .. l, NEW y \in x .. l, NEW s,
         NEW r, r = SubSeq(c, 1, x) \o Disclaimed(SubSeq(c, y + 1, Len(c)), s)
  PROVE  Removed(r, c, l, x, y - x, s)
<1>1. Len(c) = l  BY ListedIsSeq
<1> DEFINE a == SubSeq(c, 1, x)
           e == SubSeq(c, y + 1, l)
           b == Disclaimed(e, s)
           t == l - y
<1>2. a = [p \in 1 .. x |-> c[p]] /\ e = [p \in 1 .. t |-> c[p + y]]  BY PartsOf
<1>3. r = a \o b  BY <1>1
<1> HIDE DEF a, e
<1>4. b = [p \in 1 .. t |-> IF s = 1 THEN c[p + y] ELSE NoClaim]
  <2> HIDE DEF t
  <2>1. DOMAIN e = 1 .. t  BY <1>2
  <2>2. CASE s = 1  BY <1>2, <2>2 DEF Disclaimed
  <2>3. CASE s # 1  BY <2>1, <2>3 DEF Disclaimed
  <2>4. QED  BY <2>2, <2>3
<1> HIDE DEF b
<1>5. Listed(a, x) /\ Listed(b, t) /\ x \in Nat /\ t \in Nat  BY <1>2, <1>4 DEF Listed
<1>6. Joined(r, a, x, b, t)
  <2> HIDE DEF t
  <2>1. QED  BY <1>3, <1>5, Joining
<1>7. x + t = l - (y - x) /\ y - x \in Nat  OBVIOUS
<1>8. /\ Listed(r, l - (y - x))
      /\ \A p \in 1 .. l - (y - x) : r[p] = IF p <= x THEN a[p] ELSE b[p - x]
  <2> HIDE DEF t
  <2>1. QED  BY <1>6, <1>7 DEF Joined
<1>9. ASSUME NEW p \in 1 .. l - (y - x)
      PROVE  r[p] = IF p <= x THEN c[p] ELSE IF s = 1 THEN c[p + (y - x)] ELSE NoClaim
  <2>1. r[p] = IF p <= x THEN a[p] ELSE b[p - x]  BY <1>8
  <2>2. CASE p <= x
    <3>1. p \in 1 .. x  BY <2>2
    <3>2. a[p] = c[p]  BY <1>2, <3>1
    <3>3. QED  BY <2>1, <2>2, <3>2
  <2>3. CASE ~(p <= x)
    <3>1. p - x \in 1 .. t /\ p - x + y = p + (y - x)  BY <2>3
    <3>2. b[p - x] = IF s = 1 THEN c[p - x + y] ELSE NoClaim
      <4> HIDE DEF t
      <4>1. QED  BY <1>4, <3>1
    <3>3. r[p] = IF s = 1 THEN c[p + (y - x)] ELSE NoClaim  BY <2>1, <2>3, <3>1, <3>2
    <3>4. QED  BY <2>3, <3>3
  <2>4. QED  BY <2>2, <2>3
<1>10. QED  BY <1>8, <1>9 DEF Removed

-----------------------------------------------------------------------------
(* The invariant, of a block, a header and the elements.                                   *)

Kept(m, h, c) ==
    /\ h \in Headers /\ Fitted(m, h) /\ Listed(c, h.len)
    /\ \A p \in 1 .. h.len : c[p] # NoClaim => Element(m, h, p) = c[p]

VectorIInv == Live => Kept(bytes, header, contents)

(* Of a header an element needs the size only. *)
LEMMA ElementOfSize ==
  ASSUME NEW m, NEW g, NEW h, g.type_size = h.type_size, NEW p
  PROVE  Element(m, g, p) = Element(m, h, p)
BY DEF Element

(* The counts of a header. *)
LEMMA HeaderParts ==
  ASSUME NEW h, h \in Headers
  PROVE  h.len \in Nat /\ h.capacity \in Nat /\ h.type_size \in Nat \ {0}
BY SizesAssumption DEF Headers

(* A header with another length, or another capacity. *)
LEMMA HeaderWith ==
  ASSUME NEW h, h \in Headers, NEW x \in Nat
  PROVE  /\ [h EXCEPT !.len = x] \in Headers /\ [h EXCEPT !.len = x].len = x
         /\ [h EXCEPT !.len = x].capacity = h.capacity /\ [h EXCEPT !.len = x].type_size = h.type_size
         /\ [h EXCEPT !.capacity = x] \in Headers /\ [h EXCEPT !.capacity = x].len = h.len
         /\ [h EXCEPT !.capacity = x].capacity = x /\ [h EXCEPT !.capacity = x].type_size = h.type_size
BY DEF Headers

(* The same elements in a block that is at least as large. *)
LEMMA GrownKeeps ==
  ASSUME NEW m, NEW h, h \in Headers, Fitted(m, h), NEW g, g \in Headers,
         g.type_size = h.type_size, h.capacity <= g.capacity, NEW a, a = Sized(m, g)
  PROVE  /\ DOMAIN a = 0 .. g.capacity * h.type_size - 1
         /\ \A p \in 1 .. h.len : Element(a, h, p) = Element(m, h, p)
<1>1. /\ h.len \in Nat /\ h.capacity \in Nat /\ g.capacity \in Nat /\ h.len <= h.capacity
      /\ DOMAIN m = 0 .. h.capacity * g.type_size - 1
  BY HeaderParts DEF Fitted
<1>2. /\ DOMAIN a = 0 .. g.capacity * g.type_size - 1
      /\ \A p \in 1 .. g.capacity : p <= h.capacity => Element(a, g, p) = Element(m, h, p)
  BY <1>1, SizedKeeps
<1>3. \A p \in 1 .. h.len : p \in 1 .. g.capacity /\ p <= h.capacity  BY <1>1
<1>4. \A p \in 1 .. h.len : Element(a, g, p) = Element(a, h, p)  BY ElementOfSize
<1>5. QED  BY <1>2, <1>3, <1>4

(* insert_range, in a block with room for what is inserted. *)
LEMMA InsertKeeps ==
  ASSUME NEW m, NEW h, NEW c, Kept(m, h, c), NEW pos \in 0 .. h.len, NEW n \in Nat \ {0},
         NEW d \in [1 .. n -> Elements(h.type_size)], NEW g, g \in Headers,
         g.type_size = h.type_size, h.len + n <= g.capacity, h.capacity <= g.capacity,
         NEW w, w = Insert(Sized(m, g), h, pos, d),
         NEW r, r = SubSeq(c, 1, pos) \o d \o SubSeq(c, pos + 1, Len(c)),
         NEW new, new \in Headers, new.len = h.len + n, new.capacity = g.capacity, new.type_size = g.type_size
  PROVE  Kept(w, new, r)
<1> DEFINE l == h.len
           a == Sized(m, g)
           moved == ft_memmove(a, (pos + n) * h.type_size, pos * h.type_size, (l - pos) * h.type_size)
           v == IF pos < l THEN moved ELSE a
           e == g.capacity
<1>1. /\ l \in Nat /\ h.capacity \in Nat /\ e \in Nat /\ h.type_size \in Nat \ {0} /\ h \in Headers
      /\ l <= h.capacity /\ DOMAIN m = 0 .. h.capacity * g.type_size - 1 /\ Listed(c, l)
  BY HeaderParts DEF Kept, Fitted
<1>2. /\ DOMAIN a = 0 .. e * h.type_size - 1
      /\ \A p \in 1 .. l : Element(a, h, p) = Element(m, h, p)
  BY GrownKeeps DEF Kept
<1>3. OpenedUp(v, a, h, l, pos, n)
  <2>1. CASE pos < l
    <3>1. v = moved  BY <2>1
    <3>2. l + n <= e /\ n \in Nat /\ pos \in 0 .. l  OBVIOUS
    <3> HIDE DEF a, v, l, e
    <3>3. QED  BY <1>1, <1>2, <3>1, <3>2, MovedUp
  <2>2. CASE ~(pos < l)
    <3>1. v = a /\ \A p \in 1 .. l + n : ~(p > pos + n)  BY <1>1, <2>2
    <3> HIDE DEF a, v, l
    <3>2. QED  BY <3>1 DEF OpenedUp
  <2>3. QED  BY <2>1, <2>2
<1>4. w = ft_memcpy(v, pos * h.type_size, Packed(d, h.type_size))
  <2>1. Len(d) = n  OBVIOUS
  <2>2. QED  BY <2>1 DEF Insert
<1> HIDE DEF a, v
<1>5. Copied(w, v, h, e, pos, n, d)
  <2>1. pos \in Nat /\ pos + n <= e  BY <1>1
  <2>2. DOMAIN v = 0 .. e * h.type_size - 1  BY <1>2, <1>3 DEF OpenedUp
  <2> HIDE DEF e
  <2>3. QED  BY <1>1, <1>4, <2>1, <2>2, CopiedIn
<1>6. Between(r, c, l, d, n, pos)
  <2>1. Listed(d, n) /\ n \in Nat  BY DEF Listed
  <2> HIDE DEF l
  <2>2. pos \in 0 .. l  BY DEF l
  <2>3. QED  BY <1>1, <2>1, <2>2, Spliced
<1>7. Fitted(w, new)
  <2>1. new.len <= new.capacity  OBVIOUS
  <2>2. DOMAIN w = 0 .. new.capacity * new.type_size - 1  BY <1>2, <1>3, <1>5 DEF OpenedUp, Copied
  <2>3. QED  BY <2>1, <2>2 DEF Fitted
<1>8. ASSUME NEW p \in 1 .. l + n, r[p] # NoClaim
      PROVE  Element(w, new, p) = r[p]
  <2>1. \A q \in 1 .. l : c[q] # NoClaim => Element(a, h, q) = c[q]
    <3>1. \A q \in 1 .. l : c[q] # NoClaim => Element(m, h, q) = c[q]  BY DEF Kept
    <3>2. QED  BY <1>2, <3>1
  <2>2. Element(w, new, p) = Element(w, h, p)  BY ElementOfSize
  <2>3. p \in 1 .. e /\ p \in Nat /\ pos \in Nat /\ pos <= l  BY <1>1
  <2>4. CASE p <= pos
    <3>1. p \in 1 .. l /\ ~(pos < p)  BY <1>1, <2>3, <2>4
    <3>2. Element(w, h, p) = Element(v, h, p)  BY <1>5, <2>3, <3>1 DEF Copied
    <3>3. Element(v, h, p) = Element(a, h, p)  BY <1>3, <2>4 DEF OpenedUp
    <3>4. r[p] = c[p]  BY <1>6, <2>4 DEF Between
    <3>5. Element(a, h, p) = c[p]  BY <1>8, <2>1, <3>1, <3>4
    <3>6. QED  BY <2>2, <3>2, <3>3, <3>5, <3>4
  <2>5. CASE ~(p <= pos) /\ p <= pos + n
    <3>1. pos < p  BY <2>3, <2>5
    <3>2. Element(w, h, p) = d[p - pos]  BY <1>5, <2>3, <2>5, <3>1 DEF Copied
    <3>3. r[p] = d[p - pos]  BY <1>6, <2>5 DEF Between
    <3>4. QED  BY <2>2, <3>2, <3>3
  <2>6. CASE ~(p <= pos) /\ ~(p <= pos + n)
    <3>1. p > pos + n /\ p - n \in 1 .. l  BY <1>1, <2>3, <2>6
    <3>2. Element(w, h, p) = Element(v, h, p)  BY <1>5, <2>3, <2>6 DEF Copied
    <3>3. Element(v, h, p) = Element(a, h, p - n)  BY <1>3, <3>1 DEF OpenedUp
    <3>4. r[p] = c[p - n]  BY <1>6, <2>6 DEF Between
    <3>5. Element(a, h, p - n) = c[p - n]  BY <1>8, <2>1, <3>1, <3>4
    <3>6. QED  BY <2>2, <3>2, <3>3, <3>5, <3>4
  <2>7. QED  BY <2>4, <2>5, <2>6
<1>9. QED  BY <1>6, <1>7, <1>8 DEF Kept, Between

(* A shorter vector in the same block: the first elements. *)
LEMMA CutKeeps ==
  ASSUME NEW m, NEW h, NEW c, Kept(m, h, c), NEW x \in 0 .. h.len,
         NEW g, g = [h EXCEPT !.len = x], NEW r, r = SubSeq(c, 1, x)
  PROVE  Kept(m, g, r)
<1>1. h \in Headers /\ h.len \in Nat /\ h.capacity \in Nat /\ h.len <= h.capacity /\ Listed(c, h.len)
  BY HeaderParts DEF Kept, Fitted
<1>2. x \in Nat /\ h.len \in x .. h.len  BY <1>1
<1>3. g \in Headers /\ g.len = x /\ g.capacity = h.capacity /\ g.type_size = h.type_size
  BY <1>1, <1>2, HeaderWith
<1>4. r = [p \in 1 .. x |-> c[p]]  BY <1>1, <1>2, PartsOf
<1>5. Listed(r, g.len)  BY <1>3, <1>4 DEF Listed
<1>6. Fitted(m, g)
  <2>1. g.len <= g.capacity  BY <1>1, <1>3
  <2>2. DOMAIN m = 0 .. g.capacity * g.type_size - 1  BY <1>3 DEF Kept, Fitted
  <2>3. QED  BY <2>1, <2>2 DEF Fitted
<1>7. ASSUME NEW p \in 1 .. x, r[p] # NoClaim PROVE Element(m, g, p) = r[p]
  <2>1. p \in 1 .. h.len /\ c[p] # NoClaim  BY <1>1, <1>4, <1>7
  <2>2. Element(m, h, p) = c[p]  BY <2>1 DEF Kept
  <2>3. Element(m, g, p) = Element(m, h, p)  BY <1>3, ElementOfSize
  <2>4. QED  BY <1>4, <2>2, <2>3
<1>8. QED  BY <1>3, <1>5, <1>6, <1>7 DEF Kept

(* Where a range is that ends in the vector. *)
LEMMA RangeBounds ==
  ASSUME NEW l \in Nat, NEW pos \in 0 .. l - 1, NEW n \in 1 .. l - pos
  PROVE  /\ pos \in Nat /\ pos \in 0 .. l /\ n \in Nat \ {0} /\ pos + n \in pos .. l /\ l - n \in Nat
         /\ (pos + n) - pos = n
         /\ \A p \in 1 .. l - n : ~(p <= pos) => p > pos /\ p + n \in 1 .. l /\ pos + n < l
OBVIOUS

\* What erase_range makes of the block.
Shifted(m, h, pos, n) ==
    ft_memmove(m, pos * h.type_size, (pos + n) * h.type_size, h.len - (pos + 1))

(* erase_range, where elements are behind the first of the range. *)
LEMMA EraseKeeps ==
  ASSUME NEW m, NEW h, NEW c, Kept(m, h, c), NEW pos \in 0 .. h.len - 1,
         NEW n \in 1 .. h.len - pos,
         NEW w, w = Shifted(m, h, pos, n),
         NEW g, g \in Headers, g.len = h.len - n, g.capacity = h.capacity, g.type_size = h.type_size,
         NEW r, r = SubSeq(c, 1, pos) \o Disclaimed(SubSeq(c, pos + n + 1, Len(c)), h.type_size)
  PROVE  Kept(w, g, r)
<1> DEFINE l == h.len
<1>1. h \in Headers /\ l \in Nat /\ h.capacity \in Nat /\ l <= h.capacity /\ Listed(c, l)
  BY HeaderParts DEF Kept, Fitted
<1>2. /\ pos \in Nat /\ pos \in 0 .. l /\ n \in Nat \ {0} /\ pos + n \in pos .. l /\ l - n \in Nat
      /\ (pos + n) - pos = n
      /\ \A p \in 1 .. l - n : ~(p <= pos) => p > pos /\ p + n \in 1 .. l /\ pos + n < l
  <2>1. pos \in 0 .. l - 1 /\ n \in 1 .. l - pos  OBVIOUS
  <2> HIDE DEF l
  <2>2. QED  BY <1>1, <2>1, RangeBounds, Zenon
<1>3. g \in Headers /\ g.len = l - n /\ g.capacity = h.capacity /\ g.type_size = h.type_size
  OBVIOUS
<1>4. ClosedDown(w, m, h, l, pos, n)
  <2>1. DOMAIN m = 0 .. h.capacity * h.type_size - 1  BY DEF Kept, Fitted
  <2>2. pos \in 0 .. l - 1 /\ n \in 1 .. l - pos
        /\ w = ft_memmove(m, pos * h.type_size, (pos + n) * h.type_size, l - (pos + 1))
    BY DEF Shifted
  <2> HIDE DEF l
  <2>3. QED  BY <1>1, <2>1, <2>2, MovedDown
<1>5. Removed(r, c, l, pos, n, h.type_size)
  <2> DEFINE y == pos + n
  <2>1. Removed(r, c, l, pos, y - pos, h.type_size)
    <3>1. y \in pos .. l /\ r = SubSeq(c, 1, pos) \o Disclaimed(SubSeq(c, y + 1, Len(c)), h.type_size)
      BY <1>2
    <3> HIDE DEF y, l
    <3>2. QED  BY <1>1, <1>2, <3>1, TakenOut
  <2>2. y - pos = n  BY <1>2
  <2> HIDE DEF y, l
  <2>3. QED  BY <2>1, <2>2
<1>6. Fitted(w, g)
  <2>1. g.len <= g.capacity  BY <1>1, <1>2, <1>3
  <2>2. DOMAIN w = 0 .. g.capacity * g.type_size - 1  BY <1>3, <1>4 DEF Kept, Fitted, ClosedDown
  <2>3. QED  BY <2>1, <2>2 DEF Fitted
<1>7. ASSUME NEW p \in 1 .. l - n, r[p] # NoClaim PROVE Element(w, g, p) = r[p]
  <2>1. \A q \in 1 .. l : c[q] # NoClaim => Element(m, h, q) = c[q]  BY DEF Kept
  <2>2. Element(w, g, p) = Element(w, h, p)  BY <1>3, ElementOfSize
  <2>3. CASE p <= pos
    <3>1. p \in 1 .. l  BY <1>1, <1>2
    <3>2. r[p] = c[p]  BY <1>5, <2>3 DEF Removed
    <3>3. Element(w, h, p) = Element(m, h, p)  BY <1>4, <2>3, <3>1 DEF ClosedDown
    <3>4. QED  BY <1>7, <2>1, <2>2, <3>1, <3>2, <3>3
  <2>4. CASE ~(p <= pos)
    <3>1. p > pos /\ p + n \in 1 .. l /\ pos + n < l
      <4>1. p \in 1 .. l - n  OBVIOUS
      <4>2. QED  BY <1>2, <2>4, <4>1, Zenon
    <3>2. h.type_size = 1 /\ r[p] = c[p + n]  BY <1>5, <1>7, <2>4 DEF Removed
    <3>3. Element(w, h, p) = Element(m, h, p + n)  BY <1>4, <3>1, <3>2 DEF ClosedDown
    <3>4. QED  BY <1>7, <2>1, <2>2, <3>1, <3>2, <3>3
  <2>5. QED  BY <2>3, <2>4
<1>8. Listed(r, g.len)  BY <1>3, <1>5 DEF Removed
<1>9. QED  BY <1>3, <1>6, <1>7, <1>8 DEF Kept

(* What the end of an operation does to the block keeps them. *)
LEMMA ShrunkKept ==
  ASSUME NEW m, NEW h, NEW c, Kept(m, h, c), NEW target \in Nat, h.len <= target,
         Shrink(h, m, target)
  PROVE  Kept(bytes', header', c)
<1>1. h \in Headers /\ Fitted(m, h) /\ Listed(c, h.len)  BY DEF Kept
<1>2. /\ header' \in Headers /\ Fitted(bytes', header')
      /\ header'.len = h.len /\ header'.type_size = h.type_size
      /\ \A p \in 1 .. h.len : Element(bytes', header', p) = Element(m, h, p)
  BY <1>1, ShrinkKeeps
<1>3. ASSUME NEW p \in 1 .. h.len, c[p] # NoClaim PROVE Element(bytes', header', p) = c[p]
  BY <1>2, <1>3 DEF Kept
<1>4. QED  BY <1>1, <1>2, <1>3 DEF Kept

-----------------------------------------------------------------------------
(* Every operation keeps the invariant. *)

LEMMA Created == ASSUME ft_vector_create PROVE VectorIInv'
<1>1. PICK s \in Sizes, x \in Capacities :
        /\ header' = [len |-> 0, capacity |-> x, type_size |-> s, dont_shrink |-> FALSE]
        /\ bytes' = Fresh(s * x)
  BY DEF ft_vector_create
<1>2. x \in Nat /\ s \in Nat  BY SizesAssumption
<1>3. header' \in Headers /\ header'.len = 0 /\ header'.capacity = x /\ header'.type_size = s
  BY <1>1, <1>2 DEF Headers
<1>4. DOMAIN bytes' = 0 .. header'.capacity * header'.type_size - 1
  <2>1. DOMAIN bytes' = 0 .. s * x - 1  BY <1>1 DEF Fresh
  <2>2. s * x = x * s  BY <1>2
  <2>3. QED  BY <1>3, <2>1, <2>2
<1>5. contents' = <<>>  BY DEF ft_vector_create
<1>6. Listed(contents', 0)  BY <1>5 DEF Listed
<1>7. Fitted(bytes', header')  BY <1>2, <1>3, <1>4 DEF Fitted
<1>8. \A p \in 1 .. header'.len : Element(bytes', header', p) = contents'[p]  BY <1>3
<1>9. Kept(bytes', header', contents')  BY <1>3, <1>6, <1>7, <1>8 DEF Kept
<1>10. QED  BY <1>5, <1>9 DEF VectorIInv

LEMMA InsertedRange == ASSUME VectorIInv, ft_vector_insert_range PROVE VectorIInv'
<1>1. Kept(bytes, header, contents)
  BY DEF VectorIInv, ft_vector_insert_range
<1>2. PICK pos \in 0 .. header.len, n \in 1 .. LenMax - header.len :
      \E data \in [1 .. n -> Elements(header.type_size)] :
         LET grows == header.len + n > header.capacity
             grown == IF grows THEN [header EXCEPT !.capacity = (header.len + n) * 2] ELSE header
         IN  \/ /\ header' = [grown EXCEPT !.len = header.len + n]
                /\ bytes' = Insert(Sized(bytes, grown), header, pos, data)
                /\ contents' = SubSeq(contents, 1, pos) \o data \o SubSeq(contents, pos + 1, Len(contents))
             \/ grows /\ UNCHANGED <<header, bytes, contents>>
  BY DEF ft_vector_insert_range
<1>3. PICK data \in [1 .. n -> Elements(header.type_size)] :
         LET grows == header.len + n > header.capacity
             grown == IF grows THEN [header EXCEPT !.capacity = (header.len + n) * 2] ELSE header
         IN  \/ /\ header' = [grown EXCEPT !.len = header.len + n]
                /\ bytes' = Insert(Sized(bytes, grown), header, pos, data)
                /\ contents' = SubSeq(contents, 1, pos) \o data \o SubSeq(contents, pos + 1, Len(contents))
             \/ grows /\ UNCHANGED <<header, bytes, contents>>
  BY <1>2
<1> DEFINE g == IF header.len + n > header.capacity
                THEN [header EXCEPT !.capacity = (header.len + n) * 2] ELSE header
           new == [g EXCEPT !.len = header.len + n]
<1>4. header \in Headers /\ header.len \in Nat /\ header.capacity \in Nat
  BY <1>1, HeaderParts DEF Kept
<1>5. n \in Nat \ {0} /\ header.len + n \in Nat /\ (header.len + n) * 2 \in Nat
      /\ header.len + n <= (header.len + n) * 2
  BY <1>4, SizesAssumption
<1>6. /\ g \in Headers /\ g.type_size = header.type_size /\ g.len = header.len
      /\ header.len + n <= g.capacity /\ header.capacity <= g.capacity
  <2>1. CASE header.len + n > header.capacity
    <3>1. g = [header EXCEPT !.capacity = (header.len + n) * 2]  BY <2>1
    <3>2. g \in Headers /\ g.type_size = header.type_size /\ g.len = header.len
          /\ g.capacity = (header.len + n) * 2
      <4> HIDE DEF g
      <4>1. QED  BY <1>4, <1>5, <3>1, HeaderWith
    <3> HIDE DEF g
    <3>3. QED  BY <1>4, <1>5, <2>1, <3>2
  <2>2. CASE ~(header.len + n > header.capacity)
    <3>1. g = header  BY <2>2
    <3> HIDE DEF g
    <3>2. QED  BY <1>4, <1>5, <2>2, <3>1
  <2>3. QED  BY <2>1, <2>2
<1>7. \/ /\ header' = new
         /\ bytes' = Insert(Sized(bytes, g), header, pos, data)
         /\ contents' = SubSeq(contents, 1, pos) \o data \o SubSeq(contents, pos + 1, Len(contents))
      \/ UNCHANGED <<header, bytes, contents>>
  BY <1>3, Zenon
<1> HIDE DEF g
<1>8. new \in Headers /\ new.len = header.len + n /\ new.capacity = g.capacity /\ new.type_size = g.type_size
  BY <1>5, <1>6, HeaderWith
<1> HIDE DEF new
<1>9. CASE /\ header' = new
           /\ bytes' = Insert(Sized(bytes, g), header, pos, data)
           /\ contents' = SubSeq(contents, 1, pos) \o data \o SubSeq(contents, pos + 1, Len(contents))
  <2>1. Kept(bytes', new, contents')  BY <1>1, <1>5, <1>6, <1>8, <1>9, InsertKeeps
  <2>2. Kept(bytes', header', contents')  BY <1>1, <1>9, <2>1
  <2>3. QED  BY <1>1, <2>2 DEF VectorIInv
<1>10. CASE UNCHANGED <<header, bytes, contents>>
  BY <1>1, <1>10 DEF VectorIInv
<1>11. QED  BY <1>7, <1>9, <1>10

LEMMA ErasedRange == ASSUME VectorIInv, ft_vector_erase_range PROVE VectorIInv'
<1>1. Kept(bytes, header, contents)  BY DEF VectorIInv, ft_vector_erase_range
<1> DEFINE LeftOver(pos, n) ==
               SubSeq(contents, 1, pos) \o Disclaimed(SubSeq(contents, pos + n + 1, Len(contents)), header.type_size)
<1>2. PICK pos \in 0 .. header.len - 1 : \E n \in 1 .. header.len - pos :
          Erase(pos, n) /\ contents' = LeftOver(pos, n)
  BY DEF ft_vector_erase_range
<1>3. PICK n \in 1 .. header.len - pos : Erase(pos, n) /\ contents' = LeftOver(pos, n)
  BY <1>2
<1>4. header \in Headers /\ header.len \in Nat /\ Listed(contents, header.len)
  BY <1>1, HeaderParts DEF Kept
<1>5. /\ pos \in Nat /\ pos \in 0 .. header.len /\ n \in Nat \ {0} /\ pos + n \in pos .. header.len
      /\ header.len - n \in Nat
  BY <1>4, RangeBounds, Zenon
<1> DEFINE g == [header EXCEPT !.len = header.len - n]
           w == ft_memmove(bytes, pos * header.type_size, (pos + n) * header.type_size, header.len - (pos + 1))
           moved == IF pos + 1 # header.len THEN w ELSE bytes
<1>6. /\ g \in Headers /\ g.len = header.len - n /\ g.capacity = header.capacity
      /\ g.type_size = header.type_size
  BY <1>4, <1>5, HeaderWith
<1>7. Shrink(g, moved, g.len * 2)  BY <1>3 DEF Erase
<1>8. Kept(moved, g, contents')
  <2>1. CASE pos + 1 # header.len
    <3>1. moved = w  BY <2>1
    <3> DEFINE r == contents'
    <3>2. r = LeftOver(pos, n) /\ w = Shifted(bytes, header, pos, n)  BY <1>3 DEF Shifted
    <3> HIDE DEF moved, r, w, g
    <3>3. Kept(w, g, r)  BY <1>1, <1>6, <3>2, EraseKeeps
    <3>4. QED  BY <3>1, <3>3 DEF r
  <2>2. CASE pos + 1 = header.len
    <3>1. moved = bytes /\ pos + n = header.len /\ pos = header.len - n  BY <1>4, <1>5, <2>2
    <3>2. contents' = SubSeq(contents, 1, header.len - n)
      <4> DEFINE s == header.type_size
      <4>1. contents' = SubSeq(contents, 1, pos) \o Disclaimed(SubSeq(contents, header.len + 1, Len(contents)), s)
        BY <1>3, <3>1
      <4> HIDE DEF s
      <4>2. Removed(contents', contents, header.len, pos, header.len - pos, s)
        <5>1. header.len \in pos .. header.len  BY <1>4, <1>5
        <5>2. QED  BY <1>4, <1>5, <4>1, <5>1, TakenOut
      <4>3. /\ contents' = [p \in 1 .. pos |-> contents'[p]]
            /\ \A p \in 1 .. pos : contents'[p] = contents[p]
        <5>1. header.len - (header.len - pos) = pos  BY <1>4, <1>5
        <5>2. \A p \in 1 .. pos : p <= pos  BY <1>5
        <5>3. QED  BY <4>2, <5>1, <5>2 DEF Removed, Listed
      <4>4. contents' = [p \in 1 .. pos |-> contents[p]]  BY <4>3
      <4>5. SubSeq(contents, 1, pos) = [p \in 1 .. pos |-> contents[p]]
        <5>1. pos \in pos .. header.len  BY <1>5
        <5>2. QED  BY <1>4, <1>5, <5>1, PartsOf
      <4>6. QED  BY <3>1, <4>4, <4>5
    <3>3. header.len - n \in 0 .. header.len  BY <1>4, <1>5
    <3>4. Kept(bytes, g, contents')  BY <1>1, <3>2, <3>3, CutKeeps
    <3>5. QED  BY <3>1, <3>4
  <2>3. QED  BY <2>1, <2>2
<1> HIDE DEF g, moved
<1>9. Kept(bytes', header', contents')
  <2>1. g.len * 2 \in Nat /\ g.len <= g.len * 2  BY <1>5, <1>6
  <2>2. QED  BY <1>7, <1>8, <2>1, ShrunkKept
<1>10. QED  BY <1>9 DEF VectorIInv

LEMMA PoppedRange == ASSUME VectorIInv, ft_vector_pop_range PROVE VectorIInv'
<1>1. Kept(bytes, header, contents)
  BY DEF VectorIInv, ft_vector_pop_range
<1>2. PICK n \in 1 .. header.len :
          Erase(header.len - 1, n) /\ contents' = SubSeq(contents, 1, Len(contents) - n)
  BY DEF ft_vector_pop_range
<1>3. header \in Headers /\ header.len \in Nat /\ Listed(contents, header.len)
  BY <1>1, HeaderParts DEF Kept
<1>4. Len(contents) = header.len  BY <1>3, ListedIsSeq
<1>5. header.len - n \in 0 .. header.len /\ header.len - n \in Nat /\ (header.len - 1) + 1 = header.len
  BY <1>3
<1> DEFINE g == [header EXCEPT !.len = header.len - n]
<1>6. g.len = header.len - n  BY <1>3, <1>5, HeaderWith
<1>7. Shrink(g, bytes, g.len * 2)  BY <1>2, <1>5 DEF Erase
<1>8. Kept(bytes, g, contents')  BY <1>1, <1>2, <1>4, <1>5, CutKeeps
<1> HIDE DEF g
<1>9. g.len * 2 \in Nat /\ g.len <= g.len * 2  BY <1>5, <1>6
<1>10. Kept(bytes', header', contents')  BY <1>1, <1>7, <1>8, <1>9, ShrunkKept
<1>11. QED  BY <1>1, <1>10 DEF VectorIInv

LEMMA Reserved == ASSUME VectorIInv, ft_vector_reserve PROVE VectorIInv'
<1>1. Kept(bytes, header, contents) /\ UNCHANGED contents
  BY DEF VectorIInv, ft_vector_reserve
<1>2. PICK x \in Capacities : /\ header.capacity <= x
                              /\ header' = [header EXCEPT !.capacity = x]
                              /\ bytes' = Sized(bytes, header')
  BY DEF ft_vector_reserve
<1>3. header \in Headers /\ Fitted(bytes, header) /\ header.len \in Nat /\ header.capacity \in Nat
      /\ header.len <= header.capacity /\ x \in Nat
  BY <1>1, HeaderParts, SizesAssumption DEF Kept, Fitted
<1> DEFINE g == [header EXCEPT !.capacity = x]
           a == Sized(bytes, g)
<1>4. g \in Headers /\ g.len = header.len /\ g.capacity = x /\ g.type_size = header.type_size
  BY <1>3, HeaderWith
<1>5. header' = g /\ bytes' = a  BY <1>2
<1> HIDE DEF g
<1>6. /\ DOMAIN a = 0 .. g.capacity * header.type_size - 1
      /\ \A p \in 1 .. header.len : Element(a, header, p) = Element(bytes, header, p)
  BY <1>2, <1>3, <1>4, GrownKeeps
<1> HIDE DEF a
<1>7. Fitted(a, g)  BY <1>2, <1>3, <1>4, <1>6 DEF Fitted
<1>8. ASSUME NEW p \in 1 .. header.len, contents[p] # NoClaim
      PROVE  Element(a, g, p) = contents[p]
  <2>1. Element(a, g, p) = Element(a, header, p)  BY <1>4, ElementOfSize
  <2>2. Element(bytes, header, p) = contents[p]  BY <1>1, <1>8 DEF Kept
  <2>3. QED  BY <1>6, <2>1, <2>2
<1>9. Kept(a, g, contents)  BY <1>1, <1>4, <1>7, <1>8 DEF Kept
<1>10. QED  BY <1>1, <1>5, <1>9 DEF VectorIInv

LEMMA Resized == ASSUME VectorIInv, ft_vector_resize PROVE VectorIInv'
<1>1. Kept(bytes, header, contents)
  BY DEF VectorIInv, ft_vector_resize
<1>2. PICK count \in 0 .. header.capacity :
          LET h == [header EXCEPT !.len = count]
          IN  /\ Shrink(h, bytes, count)
              /\ contents' = [p \in 1 .. count |-> IF p <= header.len THEN contents[p] ELSE Element(bytes, h, p)]
  BY DEF ft_vector_resize
<1> DEFINE h == [header EXCEPT !.len = count]
           c == contents'
<1>3. Shrink(h, bytes, count) /\ c = [p \in 1 .. count |-> IF p <= header.len THEN contents[p] ELSE Element(bytes, h, p)]
  BY <1>2
<1>4. header \in Headers /\ Fitted(bytes, header) /\ header.len \in Nat /\ header.capacity \in Nat
      /\ header.len <= header.capacity
  BY <1>1, HeaderParts DEF Kept, Fitted
<1>5. count \in Nat /\ count <= header.capacity  BY <1>4
<1>6. h \in Headers /\ h.len = count /\ h.capacity = header.capacity /\ h.type_size = header.type_size
  BY <1>4, <1>5, HeaderWith
<1> HIDE DEF h, c
<1>7. Listed(c, h.len)  BY <1>3, <1>6 DEF Listed
<1>8. Fitted(bytes, h)  BY <1>4, <1>5, <1>6 DEF Fitted
<1>9. ASSUME NEW p \in 1 .. count, c[p] # NoClaim
      PROVE  Element(bytes, h, p) = c[p]
  <2>1. CASE p <= header.len
    <3>1. p \in 1 .. header.len /\ c[p] = contents[p]  BY <1>3, <1>4, <2>1
    <3>2. Element(bytes, header, p) = contents[p]  BY <1>1, <1>9, <3>1 DEF Kept
    <3>3. Element(bytes, h, p) = Element(bytes, header, p)  BY <1>6, ElementOfSize
    <3>4. QED  BY <3>1, <3>2, <3>3
  <2>2. CASE ~(p <= header.len)
    BY <1>3, <2>2
  <2>3. QED  BY <2>1, <2>2
<1>10. Kept(bytes, h, c)  BY <1>6, <1>7, <1>8, <1>9 DEF Kept
<1>11. Kept(bytes', header', c)
  <2>1. h.len <= count  BY <1>5, <1>6
  <2>2. QED  BY <1>1, <1>3, <1>5, <1>10, <2>1, ShrunkKept
<1>12. QED  BY <1>1, <1>11 DEF VectorIInv, c

LEMMA ShrinkSet == ASSUME VectorIInv, ft_vector_set_shrink PROVE VectorIInv'
<1>1. /\ Kept(bytes, header, contents)
      /\ UNCHANGED <<bytes, contents>>
      /\ header' = [header EXCEPT !.dont_shrink = ~header.dont_shrink]
  BY DEF VectorIInv, ft_vector_set_shrink
<1> DEFINE g == [header EXCEPT !.dont_shrink = ~header.dont_shrink]
<1>2. /\ g \in Headers /\ g.len = header.len /\ g.capacity = header.capacity
      /\ g.type_size = header.type_size
  BY <1>1 DEF Kept, Headers
<1>3. header' = g  BY <1>1
<1> HIDE DEF g
<1>4. Fitted(bytes, g) /\ Listed(contents, g.len)  BY <1>1, <1>2 DEF Kept, Fitted
<1>5. ASSUME NEW p \in 1 .. header.len, contents[p] # NoClaim
      PROVE  Element(bytes, g, p) = contents[p]
  <2>1. Element(bytes, header, p) = contents[p]  BY <1>1, <1>5 DEF Kept
  <2>2. QED  BY <1>2, <2>1, ElementOfSize
<1>6. Kept(bytes, g, contents)  BY <1>2, <1>4, <1>5 DEF Kept
<1>7. QED  BY <1>1, <1>3, <1>6 DEF VectorIInv

-----------------------------------------------------------------------------
(* Whatever sizes of elements, whatever elements and however long the vector gets, every   *)
(* reachable block has the size its header says, room for the elements, and holds them, in *)
(* order: all of them where they are single bytes, and where they are larger all but those *)
(* that once lay behind an erased range.                                                   *)
THEOREM VectorInvariance == VectorSpec => []VectorIInv
<1>1. VectorInit => VectorIInv  BY DEF VectorInit, VectorIInv, Live
<1>2. VectorIInv /\ [VectorNext]_vvars => VectorIInv'
  <2> SUFFICES ASSUME VectorIInv, [VectorNext]_vvars PROVE VectorIInv'
    OBVIOUS
  <2>1. CASE ft_vector_create  BY <2>1, Created
  <2>2. CASE ft_vector_free
    BY <2>2 DEF ft_vector_free, VectorIInv, Live
  <2>3. CASE ft_vector_insert_range  BY <2>3, InsertedRange
  <2>4. CASE ft_vector_erase_range  BY <2>4, ErasedRange
  <2>5. CASE ft_vector_pop_range  BY <2>5, PoppedRange
  <2>6. CASE ft_vector_reserve  BY <2>6, Reserved
  <2>7. CASE ft_vector_resize  BY <2>7, Resized
  <2>8. CASE ft_vector_set_shrink  BY <2>8, ShrinkSet
  <2>9. CASE UNCHANGED vvars
    BY <2>9 DEF vvars, VectorIInv, Live
  <2>10. QED  BY <2>1, <2>2, <2>3, <2>4, <2>5, <2>6, <2>7, <2>8, <2>9 DEF VectorNext
<1>3. QED  BY <1>1, <1>2, PTL DEF VectorSpec

(* What the elements are read back as is what was put in and not taken out, in order,      *)
(* whichever operation moved the block and whichever allocation failed (libft/ft_vector.c),*)
(* but for elements of more than a byte that once lay behind an erased range.              *)
THEOREM SequenceKeptHolds == VectorSpec => []SequenceKept
<1>1. VectorIInv => SequenceKept
  <2> SUFFICES ASSUME VectorIInv, Live
               PROVE  /\ header.len <= header.capacity
                      /\ DOMAIN bytes = 0 .. header.capacity * header.type_size - 1
                      /\ Len(contents) = header.len
                      /\ \A p \in 1 .. header.len : contents[p] \in {Element(bytes, header, p), NoClaim}
    BY DEF SequenceKept
  <2>1. Kept(bytes, header, contents)  BY DEF VectorIInv
  <2>2. header.len <= header.capacity /\ DOMAIN bytes = 0 .. header.capacity * header.type_size - 1
    BY <2>1 DEF Kept, Fitted
  <2>3. Len(contents) = header.len  BY <2>1, HeaderParts, ListedIsSeq DEF Kept
  <2>4. \A p \in 1 .. header.len : contents[p] \in {Element(bytes, header, p), NoClaim}
    BY <2>1 DEF Kept
  <2>5. QED  BY <2>2, <2>3, <2>4
<1>2. QED  BY <1>1, VectorInvariance, PTL

=============================================================================
