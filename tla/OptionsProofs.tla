---------------------------- MODULE OptionsProofs ----------------------------
(***************************************************************************)
(* Whatever the options of a command and the words it is called with, from *)
(* the command line or typed at the prompt: what the scan strikes out and  *)
(* leaves is what the conventions say, no argument is taken twice, and a   *)
(* digest has a line for everything that it could read.                    *)
(***************************************************************************)
EXTENDS Prompt, FiniteSetTheorems, SequenceTheorems, WellFoundedInduction, TLAPS

-----------------------------------------------------------------------------
(* The inductive invariant.  It says nothing of the states of the prompt.  *)

Scanning == pc \in {"scan", "cluster"}
Parsed == pc \in {"parsed", "files", "strings", "done"}

\* NULL and the name of the standard input are texts as well.
Item == Seq(STRING \cup {"NULL", "stdin", Nul})
Handled == [id : STRING, value : Item, from : Nat]
Types == /\ kind \in Kinds
         /\ argv \in Seq(Item) /\ args \in Seq(Item) /\ Len(args) = Len(argv)
         /\ \A k \in 1 .. Len(argv) : argv[k] # NULL /\ args[k] \in {argv[k], NULL}
         /\ calls \in Seq(Handled) /\ printed \in Seq(Item)
         /\ i \in Nat \ {0} /\ j \in Nat /\ shift \in Nat /\ nbr \in Int /\ ret \in Nat
         /\ Scanning \/ pc = "parsed" => printed = <<>> /\ shift = 0 /\ ret = 0

\* Where a cluster is: its letters so far took no value, and when it is at its end the
\* next argument is struck out if, and only if, it was its value.
Dashed(a) == Len(a) > 0 /\ a[1] = Dash
TakesNone(a, n) == \E e \in Entries : ~e.arg /\ e.short = a[n]
InCluster(a) ==
    /\ Dashed(a) /\ (Len(a) > 1 => a[2] # Dash)
    /\ j \in 2 .. Len(a) + 1
    /\ j <= Len(a) => \A n \in 2 .. j - 1 : TakesNone(a, n)
    /\ j > Len(a) /\ i < Len(argv) => (TakesNext(a) <=> args[i + 1] = NULL)

\* How many arguments are left of the first ones, and the others are as they were.
Kept(n) == {k \in 1 .. n : args[k] # NULL}
Counted ==
    /\ Scanning => nbr = Cardinality(Kept(i - 1)) + Len(argv) - i + 1
    /\ pc = "scan" => /\ i <= Len(argv) + 1
                      /\ \A k \in i + 1 .. Len(argv) : args[k] = argv[k]
    /\ pc = "cluster" => /\ i <= Len(argv) /\ args[i] = argv[i]
                         /\ InCluster(argv[i])
                         /\ j <= Len(argv[i]) => \A k \in i + 1 .. Len(argv) : args[k] = argv[k]
                         /\ \A k \in i + 2 .. Len(argv) : args[k] = argv[k]
    /\ Parsed => nbr = Cardinality(Left)

\* The arguments behind the scan are struck out as getopt_long would have it.
Passed(k) == args[k] = NULL <=> IsValue(k) \/ Dashed(argv[k])
RuledAt(p) == /\ Open(p) /\ \A k \in 1 .. p - 1 : Passed(k)
              /\ \E n \in 0 .. p - 1 : Takers(p, n)
              /\ p <= Len(argv) => (IsValue(p) <=> args[p] = NULL)
Ruled ==
    /\ Scanning => RuledAt(i)
    /\ Parsed => Left = {k \in 1 .. Len(argv) : ~Open(k) \/ ~(IsValue(k) \/ Dashed(argv[k]))}

\* The argument that a value came from is behind the scan, or is the cluster it is in
\* or the one behind that, and then the cluster is at its end.
Taken(k) ==
    /\ k <= Len(argv)
    /\ pc = "scan" => k <= i /\ args[k] = NULL
    /\ pc = "cluster" => \/ k < i /\ args[k] = NULL
                         \/ k = i /\ j > Len(argv[i])
                         \/ k = i + 1 /\ args[k] = NULL /\ j > Len(argv[i])
    /\ Parsed => args[k] = NULL
Once ==
    /\ \A m, n \in 1 .. Len(calls) : calls[m].from # 0 /\ calls[m].from = calls[n].from => m = n
    /\ \A n \in 1 .. Len(calls) : calls[n].from # 0 => Taken(calls[n].from)

\* What was printed: some of what is read, in its order, and then some of the strings.
Offset == IF Given("echo") \/ (Left = {} /\ ~Given("sum")) THEN 1 ELSE 0
Rows(read, strings) ==
    /\ Len(printed) = Cardinality(read) + strings
    /\ \A n \in 1 .. Cardinality(read) : printed[n] = Readable[Nth(read, n)]
    /\ \A n \in 1 .. strings : printed[Cardinality(read) + n] = sums[n]
Shown(upto, strings) ==
    \E read \in SUBSET (1 .. upto) : Rows(read, strings) /\ ret = upto - Cardinality(read)
Printed ==
    /\ pc = "files" => /\ kind = "digest"
                       /\ i + shift <= Len(argv) + 1
                       /\ i - 1 = Cardinality(Kept(i + shift - 1))
                       /\ Shown(Offset + i - 1, 0)
    /\ pc = "strings" => /\ kind = "digest"
                         /\ i <= Cardinality(SumCalls) + 1
                         /\ Shown(Len(Readable), i - 1)
    /\ pc = "done" /\ kind = "digest" => Shown(Len(Readable), Cardinality(SumCalls))

IInv == Types /\ Counted /\ Ruled /\ Once /\ Printed

-----------------------------------------------------------------------------
(* Numbers in ascending order.                                             *)

(* Of two numbers the greater has the higher rank. *)
LEMMA RankGrows ==
  ASSUME NEW S \in SUBSET Nat, IsFiniteSet(S), NEW k \in S, NEW m \in S, k < m
  PROVE  Rank(S, k) < Rank(S, m)
<1> DEFINE low == {x \in S : x <= k}
           high == {x \in S : x <= m}
<1>1. IsFiniteSet(high)  BY FS_Subset
<1>2. low \in SUBSET high /\ m \in high /\ m \notin low
  <2>1. S \subseteq Nat /\ k \in Nat /\ m \in Nat  OBVIOUS
  <2>2. \A x \in Nat : x <= k => x <= m  BY <2>1
  <2>3. m <= m /\ ~(m <= k)  BY <2>1
  <2>4. QED  BY <2>1, <2>2, <2>3
<1>3. low # high  BY <1>2
<1> HIDE DEF low, high
<1>4. Cardinality(low) <= Cardinality(high) /\ Cardinality(low) # Cardinality(high)
  BY <1>1, <1>2, <1>3, FS_Subset
<1>5. Cardinality(low) \in Nat /\ Cardinality(high) \in Nat
  BY <1>1, <1>2, FS_Subset, FS_CardinalityType
<1>6. Cardinality(low) < Cardinality(high)  BY <1>4, <1>5
<1>7. QED  BY <1>6 DEF Rank, low, high

(* A number is the one that has its rank. *)
LEMMA RankTells ==
  ASSUME NEW S \in SUBSET Nat, IsFiniteSet(S), NEW k \in S
  PROVE  Nth(S, Rank(S, k)) = k
<1>1. \A m \in S : Rank(S, m) \in Nat
  <2>1. SUFFICES ASSUME NEW m \in S PROVE Rank(S, m) \in Nat
    OBVIOUS
  <2>2. IsFiniteSet({x \in S : x <= m})  BY FS_Subset
  <2>3. QED  BY <2>2, FS_CardinalityType DEF Rank
<1>2. ASSUME NEW m \in S, Rank(S, m) = Rank(S, k) PROVE m = k
  <2>1. ~(m < k) /\ ~(k < m)  BY <1>1, <1>2, RankGrows
  <2>2. QED  BY <2>1
<1>3. \E m \in S : Rank(S, m) = Rank(S, k)  OBVIOUS
<1>4. QED  BY <1>2, <1>3 DEF Nth

(* Every rank up to the number of them is that of one. *)
LEMMA RankExists ==
  ASSUME NEW S \in SUBSET Nat, IsFiniteSet(S), NEW n \in 1 .. Cardinality(S)
  PROVE  Nth(S, n) \in S /\ Rank(S, Nth(S, n)) = n
<1> DEFINE c == Cardinality(S)
           ranks == [k \in S |-> Rank(S, k)]
<1>1. c \in Nat  BY FS_CardinalityType
<1>2. ASSUME NEW k \in S PROVE Rank(S, k) \in 1 .. c
  <2> DEFINE low == {x \in S : x <= k}
  <2>1. low \in SUBSET S /\ k \in low  OBVIOUS
  <2> HIDE DEF low
  <2>2. IsFiniteSet(low) /\ Cardinality(low) <= c  BY <2>1, FS_Subset
  <2>3. Cardinality(low) \in Nat /\ Cardinality(low) # 0
    BY <2>1, <2>2, FS_CardinalityType, FS_EmptySet
  <2>4. QED  BY <1>1, <2>2, <2>3 DEF Rank, low
<1>3. ranks \in [S -> 1 .. c]  BY <1>2
<1>4. ASSUME NEW k \in S, NEW m \in S, ranks[k] = ranks[m] PROVE k = m
  <2>1. Rank(S, k) = Rank(S, m)  BY <1>4
  <2>2. QED  BY <2>1, RankTells
<1>5. ranks \in Injection(S, 1 .. c)  BY <1>3, <1>4 DEF Injection, IsInjective
<1>6. IsFiniteSet(1 .. c) /\ Cardinality(1 .. c) = c  BY <1>1, FS_Interval
<1> HIDE DEF c, ranks
<1>7. ranks \in Surjection(S, 1 .. c)
  <2>1. Cardinality(S) = Cardinality(1 .. c)  BY <1>6 DEF c
  <2>2. QED  BY <1>5, <1>6, <2>1, FS_Injection
<1>8. n \in 1 .. c  BY DEF c
<1>9. \E k \in S : ranks[k] = n  BY <1>7, <1>8 DEF Surjection
<1>10. \E k \in S : Rank(S, k) = n  BY <1>9 DEF ranks
<1>11. QED  BY <1>10 DEF Nth

(* What is greater than all of them becomes the last. *)
LEMMA RankLast ==
  ASSUME NEW S \in SUBSET Nat, IsFiniteSet(S), NEW x \in Nat, \A m \in S : m < x
  PROVE  /\ IsFiniteSet(S \cup {x}) /\ Cardinality(S \cup {x}) = Cardinality(S) + 1
         /\ \A n \in 1 .. Cardinality(S) : Nth(S \cup {x}, n) = Nth(S, n)
         /\ Nth(S \cup {x}, Cardinality(S) + 1) = x
<1> DEFINE T == S \cup {x}
<1>1. x \notin S  OBVIOUS
<1>2. IsFiniteSet(T) /\ Cardinality(T) = Cardinality(S) + 1  BY <1>1, FS_AddElement
<1>3. T \in SUBSET Nat  OBVIOUS
<1>4. ASSUME NEW n \in 1 .. Cardinality(S) PROVE Nth(T, n) = Nth(S, n)
  <2> DEFINE k == Nth(S, n)
  <2>1. k \in S /\ Rank(S, k) = n  BY RankExists
  <2> HIDE DEF k
  <2>2. {m \in T : m <= k} = {m \in S : m <= k}  BY <2>1
  <2>3. Rank(T, k) = n  BY <2>1, <2>2 DEF Rank
  <2>4. k \in T  BY <2>1
  <2> HIDE DEF T
  <2>5. Nth(T, n) = k  BY <1>2, <1>3, <2>3, <2>4, RankTells
  <2>6. QED  BY <2>5 DEF k
<1>5. {m \in T : m <= x} = T
  <2>1. \A m \in T : m <= x  OBVIOUS
  <2>2. QED  BY <2>1
<1>6. Rank(T, x) = Cardinality(S) + 1  BY <1>2, <1>5 DEF Rank
<1>7. x \in T  OBVIOUS
<1> HIDE DEF T
<1>8. Nth(T, Cardinality(S) + 1) = x  BY <1>2, <1>3, <1>6, <1>7, RankTells
<1>9. QED  BY <1>2, <1>4, <1>8 DEF T

-----------------------------------------------------------------------------
(* Types.                                                                  *)

LEMMA Literals == NULL \in Item /\ Stdin \in Item /\ Text \subseteq Item /\ Seq(Byte) \subseteq Item
<1> DEFINE C == STRING \cup {"NULL", "stdin", Nul}
<1>1. "NULL" \in C /\ "stdin" \in C /\ STRING \subseteq C /\ Byte \subseteq C  BY DEF Byte
<1> HIDE DEF C
<1>2. \A c \in C : <<c>> \in Seq(C)  OBVIOUS
<1>3. ASSUME NEW a \in Seq(STRING) PROVE a \in Seq(C)
  <2>1. Len(a) \in Nat /\ a \in [1 .. Len(a) -> STRING]  BY LenProperties
  <2>2. a \in [1 .. Len(a) -> C]  BY <1>1, <2>1
  <2>3. QED  BY <2>1, <2>2
<1>4. ASSUME NEW a \in Seq(Byte) PROVE a \in Seq(C)
  <2>1. Len(a) \in Nat /\ a \in [1 .. Len(a) -> Byte]  BY LenProperties
  <2>2. a \in [1 .. Len(a) -> C]  BY <1>1, <2>1
  <2>3. QED  BY <2>1, <2>2
<1>5. Item = Seq(C)  BY DEF Item, C
<1>6. QED  BY <1>1, <1>2, <1>3, <1>4, <1>5 DEF NULL, Stdin, Text

(* The entries of a map, of which one letter tells one. *)
LEMMA EntryTypes ==
  ASSUME kind \in Kinds
  PROVE  /\ IsFiniteSet(Entries)
         /\ \A e \in Entries : e.id \in STRING /\ e.arg \in BOOLEAN /\ e.long \in Item
         /\ \A e, f \in Entries : e.short = f.short => e = f
<1> DEFINE E == [id : STRING, short : STRING, long : Text, arg : BOOLEAN]
           map == Map[kind]
<1>1. map \in Seq(E)  BY MapAssumption
<1>2. \A m, n \in DOMAIN map : map[m].short = map[n].short => m = n  BY MapAssumption
<1>3. Entries = {map[m] : m \in DOMAIN map}  BY DEF Entries
<1> HIDE DEF map
<1>4. Len(map) \in Nat /\ map \in [1 .. Len(map) -> E] /\ DOMAIN map = 1 .. Len(map)
  BY <1>1, LenProperties
<1>5. \A e \in Entries : e \in E  BY <1>3, <1>4
<1>6. \A e \in Entries : e.id \in STRING /\ e.arg \in BOOLEAN /\ e.long \in Item
  BY <1>5, Literals
<1>7. \A e, f \in Entries : e.short = f.short => e = f  BY <1>2, <1>3
<1>8. IsFiniteSet(Entries)
  <2>1. map \in Surjection(1 .. Len(map), Entries)  BY <1>3, <1>4 DEF Surjection
  <2>2. IsFiniteSet(1 .. Len(map))  BY <1>4, FS_Interval
  <2>3. QED  BY <2>1, <2>2, FS_Surjection
<1>9. QED  BY <1>6, <1>7, <1>8

(* What is behind the beginning of a text. *)
LEMMA RestIsText ==
  ASSUME NEW a \in Item, NEW m \in 1 .. Len(a) + 1
  PROVE  /\ SubSeq(a, m, Len(a)) \in Item
         /\ Len(SubSeq(a, m, Len(a))) = Len(a) - m + 1
         /\ \A n \in 1 .. Len(a) - m + 1 : SubSeq(a, m, Len(a))[n] = a[m + n - 1]
<1> DEFINE C == STRING \cup {"NULL", "stdin", Nul}
<1>0. Item = Seq(C)  BY DEF Item
<1> HIDE DEF C
<1>1. a \in Seq(C) /\ Len(a) \in Nat  BY <1>0
<1>2. m \in 1 .. Len(a) + 1 /\ Len(a) \in m - 1 .. Len(a)  BY <1>1
<1>3. SubSeq(a, m, Len(a)) \in Seq(C)  BY <1>1, <1>2, SubSeqProperties
<1>4. Len(SubSeq(a, m, Len(a))) = Len(a) - m + 1  BY <1>1, <1>2, SubSeqProperties
<1>5. \A n \in 1 .. Len(a) - m + 1 : SubSeq(a, m, Len(a))[n] = a[m + n - 1]
  BY <1>1, <1>2, SubSeqProperties
<1>6. QED  BY <1>0, <1>3, <1>4, <1>5

(* Arguments are texts, as many as there were. *)
LEMMA ArgTypes ==
  ASSUME Types
  PROVE  /\ Len(argv) \in Nat /\ Len(args) = Len(argv) /\ DOMAIN args = 1 .. Len(argv)
         /\ \A k \in 1 .. Len(argv) : /\ argv[k] \in Item /\ args[k] \in Item
                                      /\ argv[k] # NULL /\ (args[k] # NULL => args[k] = argv[k])
<1>1. argv \in Seq(Item) /\ args \in Seq(Item) /\ Len(args) = Len(argv)  BY DEF Types
<1>2. Len(argv) \in Nat /\ DOMAIN args = 1 .. Len(argv)  BY <1>1, LenProperties
<1>3. \A k \in 1 .. Len(argv) : argv[k] \in Item /\ args[k] \in Item
  BY <1>1, ElementOfSeq
<1>4. QED  BY <1>1, <1>2, <1>3 DEF Types

\* These arguments are struck out, and no others.
Strikes(S) == /\ args' \in Seq(Item) /\ Len(args') = Len(argv)
              /\ \A k \in 1 .. Len(argv) : args'[k] = IF k \in S THEN NULL ELSE args[k]
Called(h) == h \in Handled /\ calls' = Append(calls, h)

LEMMA StrikesThem ==
  ASSUME Types, NEW S,
         args' = [k \in DOMAIN args |-> IF k \in S THEN NULL ELSE args[k]]
  PROVE  Strikes(S)
<1>1. args' = [k \in 1 .. Len(argv) |-> IF k \in S THEN NULL ELSE args[k]]  BY ArgTypes
<1>2. \A k \in 1 .. Len(argv) : (IF k \in S THEN NULL ELSE args[k]) \in Item
  BY ArgTypes, Literals
<1>3. Len(argv) \in Nat  BY ArgTypes
<1>4. args' \in Seq(Item) /\ Len(args') = Len(argv)  BY <1>1, <1>2, <1>3
<1>5. QED  BY <1>1, <1>4 DEF Strikes

LEMMA StrikesNothing ==
  ASSUME Types, args' = args
  PROVE  Strikes({})
BY ArgTypes DEF Strikes, Types

LEMMA StrikesOne ==
  ASSUME Types, NEW k, args' = [args EXCEPT ![k] = NULL]
  PROVE  Strikes({k})
<1>1. args' = [m \in DOMAIN args |-> IF m \in {k} THEN NULL ELSE args[m]]  OBVIOUS
<1>2. QED  BY <1>1, StrikesThem

LEMMA StrikesArg ==
  ASSUME Types, NEW withValue \in BOOLEAN, Strike(withValue)
  PROVE  Strikes({i} \cup (IF withValue THEN {i + 1} ELSE {}))
<1> DEFINE S == {i} \cup (IF withValue THEN {i + 1} ELSE {})
<1>1. args' = [k \in DOMAIN args |-> IF k = i \/ (withValue /\ k = i + 1) THEN NULL ELSE args[k]]
  BY DEF Strike
<1>2. \A k : k \in S <=> k = i \/ (withValue /\ k = i + 1)  OBVIOUS
<1> HIDE DEF S
<1>3. args' = [k \in DOMAIN args |-> IF k \in S THEN NULL ELSE args[k]]  BY <1>1, <1>2
<1>4. Strikes(S)  BY <1>3, StrikesThem
<1>5. QED  BY <1>4 DEF S

-----------------------------------------------------------------------------
(* What a long option takes.                                               *)

(* The name of a long option ends at its end when there is no '=' in it, and only then. *)
LEMMA NameEnds ==
  ASSUME Arg \in Item, IsLong, ~Singleton
  PROVE  /\ Len(Arg) > 2 /\ Body \in Item /\ Len(Body) = Len(Arg) - 2
         /\ NameEnd \in 1 .. Len(Body) + 1
         /\ NameEnd > Len(Body) => ~Contains(Arg, "=") /\ Name = Body
         /\ NameEnd <= Len(Body) => Contains(Arg, "=")
<1> DEFINE a == Arg
           l == Len(Body)
           plain == {n \in 1 .. l : ~Contains(SubSeq(Body, 1, n), "=")}
<1>1. Len(a) \in Nat /\ Len(a) > 2 /\ a[1] = "-" /\ a[2] = "-"
  BY LenProperties DEF IsLong, IsOption, Singleton, Dash, Item
<1>2. /\ Body \in Item /\ l = Len(a) - 2 /\ l \in Nat
      /\ \A n \in 1 .. l : Body[n] = a[n + 2]
  <2>1. 3 \in 1 .. Len(a) + 1 /\ Len(a) - 3 + 1 = Len(a) - 2 /\ Len(a) - 2 \in Nat  BY <1>1
  <2>2. \A n \in Nat : 3 + n - 1 = n + 2  OBVIOUS
  <2>3. QED  BY <2>1, <2>2, RestIsText DEF Body
<1> HIDE DEF a, l
<1>3. \A n \in 1 .. l : Len(SubSeq(Body, 1, n)) = n /\ \A m \in 1 .. n : SubSeq(Body, 1, n)[m] = Body[m]
  <2> DEFINE C == STRING \cup {"NULL", "stdin", Nul}
  <2>1. Body \in Seq(C)  BY <1>2 DEF Item
  <2> HIDE DEF C
  <2>2. SUFFICES ASSUME NEW n \in 1 .. l
                 PROVE  Len(SubSeq(Body, 1, n)) = n /\ \A m \in 1 .. n : SubSeq(Body, 1, n)[m] = Body[m]
    OBVIOUS
  <2>3. \A m \in 1 .. n : Body[m] \in C  BY <1>2, <2>1, ElementOfSeq DEF l
  <2>4. n \in Int /\ 1 <= n /\ \A m \in 1 .. n : 1 + m - 1 = m  BY <1>2
  <2>5. n - 1 + 1 = n  BY <2>4
  <2>6. QED  BY <2>3, <2>4, <2>5, SubSeqProperties
<1>4. IsFiniteSet(1 .. l) /\ Cardinality(1 .. l) = l
  <2>1. 1 \in Int /\ l \in Int /\ l \in Nat  BY <1>2
  <2>2. IsFiniteSet(1 .. l) /\ Cardinality(1 .. l) = IF 1 > l THEN 0 ELSE l - 1 + 1
    BY <2>1, FS_Interval
  <2>3. QED  BY <2>1, <2>2
<1>5. plain \in SUBSET (1 .. l)  OBVIOUS
<1>6. CASE ~Contains(a, "=")
  <2>1. \A n \in 1 .. l : Body[n] # "="
    <3>1. \A n \in 1 .. l : n + 2 \in 1 .. Len(a)  BY <1>1, <1>2
    <3>2. QED  BY <1>2, <1>6, <3>1 DEF Contains
  <2>2. plain = 1 .. l
    <3>1. \A n \in 1 .. l : \A m \in 1 .. n : m \in 1 .. l  BY <1>2
    <3>2. QED  BY <1>3, <2>1, <3>1 DEF Contains
  <2>3. NameEnd = l + 1
    <3>1. NameEnd = 1 + Cardinality(plain)  BY DEF NameEnd, l
    <3> HIDE DEF plain
    <3>2. QED  BY <1>2, <1>4, <2>2, <3>1
  <2>4. Name = Body
    <3>1. Name = SubSeq(Body, 1, l)  BY <1>2, <2>3 DEF Name
    <3>2. QED  BY <1>2, <3>1, SubSeqFull DEF Item, l
  <2>5. QED  BY <1>1, <1>2, <1>6, <2>3, <2>4 DEF a, l
<1>7. CASE Contains(a, "=")
  <2>1. PICK p \in 1 .. Len(a) : a[p] = "="  BY <1>7 DEF Contains
  <2>2. p # 1 /\ p # 2  BY <1>1, <2>1
  <2>3. p - 2 \in 1 .. l /\ (p - 2) + 2 = p  BY <1>1, <1>2, <2>2
  <2>4. Body[p - 2] = "=" /\ l \in 1 .. l /\ p - 2 \in 1 .. l  BY <1>2, <2>1, <2>3
  <2>5. l \notin plain  BY <1>3, <2>4 DEF Contains
  <2>6. plain # 1 .. l  BY <2>4, <2>5
  <2> HIDE DEF plain
  <2>7. /\ IsFiniteSet(plain) /\ Cardinality(plain) <= l /\ Cardinality(plain) # l
    BY <1>4, <1>5, <2>6, FS_Subset
  <2>8. Cardinality(plain) \in Nat  BY <2>7, FS_CardinalityType
  <2>9. NameEnd = 1 + Cardinality(plain)  BY DEF NameEnd, plain, l
  <2>10. NameEnd \in 1 .. l  BY <1>2, <2>7, <2>8, <2>9
  <2>11. QED  BY <1>1, <1>2, <1>7, <2>10 DEF a, l
<1>8. QED  BY <1>6, <1>7

(* It takes the next argument when it has a name of one option, which wants a value, *)
(* and no '='.                                                                       *)
LEMMA LongTakes ==
  ASSUME Types, Arg \in Item, IsLong, ~Singleton, Cardinality(Matches) = 1, NEW entry \in Matches
  PROVE  /\ entry \in Entries
         /\ NameEnd > Len(Body) /\ entry.arg => TakesNext(Arg)
         /\ NameEnd <= Len(Body) \/ ~entry.arg => ~TakesNext(Arg)
<1>1. entry \in Entries /\ IsFiniteSet(Matches) /\ Matches = {entry}
  <2>1. IsFiniteSet(Entries) /\ Matches \in SUBSET Entries  BY EntryTypes DEF Types, Matches
  <2>2. IsFiniteSet(Matches)  BY <2>1, FS_Subset
  <2>3. PICK x : Matches = {x}  BY <2>2, FS_Singleton
  <2>4. QED  BY <2>1, <2>2, <2>3
<1>2. \A e \in Entries : IsPrefix(Name, e.long) => e = entry  BY <1>1 DEF Matches
<1>3. IsPrefix(Name, entry.long)  BY DEF Matches
<1>4. Len(Arg) > 2 /\ Len(Arg) \in Nat /\ Arg[1] = Dash /\ Arg[2] = Dash
  BY NameEnds, LenProperties DEF IsLong, IsOption, Item
<1>5. ASSUME NameEnd > Len(Body), entry.arg PROVE TakesNext(Arg)
  <2>1. ~Contains(Arg, "=") /\ Name = SubSeq(Arg, 3, Len(Arg))  BY <1>5, NameEnds DEF Body
  <2>2. QED  BY <1>1, <1>3, <1>4, <1>5, <2>1 DEF TakesNext
<1>6. ASSUME NameEnd <= Len(Body) PROVE ~TakesNext(Arg)
  <2>1. Contains(Arg, "=")  BY <1>6, NameEnds
  <2>2. QED  BY <1>4, <2>1 DEF TakesNext
<1>7. ASSUME NameEnd > Len(Body), ~entry.arg PROVE ~TakesNext(Arg)
  <2>1. Name = SubSeq(Arg, 3, Len(Arg))  BY <1>7, NameEnds DEF Body
  <2>2. \A e \in Entries : ~(e.arg /\ IsPrefix(SubSeq(Arg, 3, Len(Arg)), e.long))
    BY <1>2, <1>7, <2>1
  <2>3. QED  BY <1>4, <2>2 DEF TakesNext
<1>8. NameEnd > Len(Body) \/ NameEnd <= Len(Body)
  BY NameEnds
<1>9. QED  BY <1>1, <1>5, <1>6, <1>7, <1>8

-----------------------------------------------------------------------------
(* What the steps of the scan do.                                          *)

\* The scan ends with an error, before or after a handler was called.
Rejects ==
    /\ pc' = "refused" /\ ret' = 2 /\ i' = i /\ nbr' = nbr /\ \E S : Strikes(S)
    /\ calls' = calls \/ \E h : Called(h) /\ h.from \in {i, i + 1} /\ h.from <= Len(argv)
\* It goes on behind the argument.
Advances(S) == Strikes(S) /\ i' = i + 1 /\ nbr' = nbr - 1 /\ pc' = "scan" /\ ret' = ret
\* A long option is alone, or has the next argument for its value.
Alone(h) == Called(h) /\ h.from \in {0, i} /\ Advances({i}) /\ ~TakesNext(Arg)
WithNext(h) == Called(h) /\ h.from = i + 1 /\ i < Len(argv) /\ Advances({i, i + 1}) /\ TakesNext(Arg)

LEMMA CallTypes ==
  ASSUME Types, NEW entry \in Entries, NEW value \in Item, NEW from \in Nat, Call(entry, value, from)
  PROVE  \E h : Called(h) /\ h.from = from
<1> DEFINE h == [id |-> entry.id, value |-> value, from |-> from]
<1>1. entry.id \in STRING  BY EntryTypes DEF Types
<1>2. h \in Handled /\ h.from = from  BY <1>1 DEF Handled
<1>3. calls' = Append(calls, h)  BY DEF Call
<1>4. QED  BY <1>2, <1>3 DEF Called

(* The next argument is a text, NULL or not. *)
LEMMA NextTypes ==
  ASSUME Types, i <= Len(args)
  PROVE  /\ i \in 1 .. Len(argv) /\ Arg \in Item /\ i + 1 \in Nat /\ i \in Nat
         /\ i # Len(args) => i + 1 \in 1 .. Len(argv) /\ args[i + 1] \in Item /\ i < Len(argv)
<1>1. Len(argv) \in Nat /\ Len(args) = Len(argv) /\ i \in Nat \ {0}  BY ArgTypes DEF Types
<1>2. i \in 1 .. Len(argv)  BY <1>1
<1>3. i # Len(args) => i + 1 \in 1 .. Len(argv) /\ i < Len(argv)  BY <1>1
<1>4. Arg \in Item  BY <1>2, ArgTypes DEF Arg
<1>5. i # Len(args) => args[i + 1] \in Item  BY <1>3, ArgTypes
<1>6. QED  BY <1>1, <1>2, <1>3, <1>4, <1>5

LEMMA LongCases ==
  ASSUME Types, LongOption
  PROVE  /\ UNCHANGED <<kind, argv, j, shift, printed>>
         /\ Rejects \/ \E h : Alone(h) \/ WithNext(h)
<1>1. i <= Len(args) /\ IsLong /\ ~Singleton /\ UNCHANGED <<kind, argv, j, shift, printed>>
  BY DEF LongOption
<1>2. /\ i \in 1 .. Len(argv) /\ Arg \in Item /\ i + 1 \in Nat /\ i \in Nat /\ Len(args) = Len(argv)
      /\ i # Len(args) => i + 1 \in 1 .. Len(argv) /\ args[i + 1] \in Item /\ i < Len(argv)
  BY <1>1, NextTypes, ArgTypes
<1>3. CASE Cardinality(Matches) # 1
  <2>1. pc' = "refused" /\ ret' = 2 /\ i' = i /\ nbr' = nbr /\ args' = args /\ calls' = calls
    BY <1>3 DEF LongOption, Error
  <2>2. Strikes({})  BY <2>1, StrikesNothing
  <2>3. QED  BY <1>1, <2>1, <2>2 DEF Rejects
<1>4. CASE Cardinality(Matches) = 1
  <2>1. PICK entry \in Matches :
          \/ /\ NameEnd > Len(Body) /\ entry.arg
             /\ IF i = Len(args)
                THEN Error /\ UNCHANGED <<args, nbr, i, calls>>
                ELSE /\ Call(entry, args[i + 1], i + 1)
                     /\ IF Refuses(entry.id, args[i + 1])
                        THEN Error /\ args' = [args EXCEPT ![i + 1] = NULL] /\ UNCHANGED <<nbr, i>>
                        ELSE Strike(TRUE) /\ NextArgument
          \/ /\ NameEnd > Len(Body) /\ ~entry.arg
             /\ Call(entry, NULL, 0)
             /\ Strike(FALSE) /\ NextArgument
          \/ /\ NameEnd <= Len(Body) /\ ~entry.arg
             /\ Error /\ UNCHANGED <<args, nbr, i, calls>>
          \/ /\ NameEnd <= Len(Body) /\ entry.arg
             /\ LET value == SubSeq(Body, NameEnd + 1, Len(Body))
                IN  /\ Call(entry, value, i)
                    /\ IF Refuses(entry.id, value)
                       THEN Error /\ UNCHANGED <<args, nbr, i>>
                       ELSE Strike(FALSE) /\ NextArgument
    BY <1>4 DEF LongOption
  <2>2. /\ entry \in Entries
        /\ NameEnd > Len(Body) /\ entry.arg => TakesNext(Arg)
        /\ NameEnd <= Len(Body) \/ ~entry.arg => ~TakesNext(Arg)
    BY <1>1, <1>2, <1>4, LongTakes
  <2>3. Strike(FALSE) => Strikes({i})
    <3>1. {i} \cup {} = {i}  OBVIOUS
    <3>2. FALSE \in BOOLEAN  OBVIOUS
    <3>3. Strike(FALSE) => Strikes({i} \cup (IF FALSE THEN {i + 1} ELSE {}))  BY <3>2, StrikesArg
    <3>4. QED  BY <3>1, <3>3
  <2>4. Strike(TRUE) => Strikes({i, i + 1})
    <3>1. {i} \cup {i + 1} = {i, i + 1}  OBVIOUS
    <3>2. TRUE \in BOOLEAN  OBVIOUS
    <3>3. Strike(TRUE) => Strikes({i} \cup (IF TRUE THEN {i + 1} ELSE {}))  BY <3>2, StrikesArg
    <3>4. QED  BY <3>1, <3>3
  <2>5. CASE (i = Len(args) \/ NameEnd <= Len(Body)) /\ Error /\ UNCHANGED <<args, nbr, i, calls>>
    <3>1. Strikes({})  BY <2>5, StrikesNothing
    <3>2. QED  BY <1>1, <2>5, <3>1 DEF Rejects, Error
  <2>6. CASE /\ NameEnd > Len(Body) /\ entry.arg /\ i # Len(args)
             /\ Call(entry, args[i + 1], i + 1)
             /\ IF Refuses(entry.id, args[i + 1])
                THEN Error /\ args' = [args EXCEPT ![i + 1] = NULL] /\ UNCHANGED <<nbr, i>>
                ELSE Strike(TRUE) /\ NextArgument
    <3>1. PICK h : Called(h) /\ h.from = i + 1  BY <1>2, <2>2, <2>6, CallTypes
    <3>2. i + 1 <= Len(argv)  BY <1>2, <2>6
    <3>3. CASE Error /\ args' = [args EXCEPT ![i + 1] = NULL] /\ UNCHANGED <<nbr, i>>
      <4>1. Strikes({i + 1})  BY <3>3, StrikesOne
      <4>2. QED  BY <1>1, <3>1, <3>2, <3>3, <4>1 DEF Rejects, Error
    <3>4. CASE Strike(TRUE) /\ NextArgument
      <4>1. WithNext(h)  BY <1>2, <2>2, <2>4, <2>6, <3>1, <3>4 DEF WithNext, Advances, NextArgument
      <4>2. QED  BY <1>1, <4>1
    <3>5. QED  BY <2>6, <3>3, <3>4
  <2>7. CASE /\ NameEnd > Len(Body) /\ ~entry.arg
             /\ Call(entry, NULL, 0)
             /\ Strike(FALSE) /\ NextArgument
    <3>1. PICK h : Called(h) /\ h.from = 0
      <4>1. 0 \in Nat /\ NULL \in Item  BY Literals
      <4>2. QED  BY <2>2, <2>7, <4>1, CallTypes
    <3>2. Alone(h)  BY <2>2, <2>3, <2>7, <3>1 DEF Alone, Advances, NextArgument
    <3>3. QED  BY <1>1, <3>2
  <2>8. CASE /\ NameEnd <= Len(Body) /\ entry.arg
             /\ LET value == SubSeq(Body, NameEnd + 1, Len(Body))
                IN  /\ Call(entry, value, i)
                    /\ IF Refuses(entry.id, value)
                       THEN Error /\ UNCHANGED <<args, nbr, i>>
                       ELSE Strike(FALSE) /\ NextArgument
    <3> DEFINE value == SubSeq(Body, NameEnd + 1, Len(Body))
    <3>1. value \in Item
      <4>1. Body \in Item /\ NameEnd \in 1 .. Len(Body) + 1  BY <1>1, <1>2, NameEnds
      <4>2. Len(Body) \in Nat  BY <4>1, LenProperties DEF Item
      <4>3. NameEnd + 1 \in 1 .. Len(Body) + 1  BY <2>8, <4>1, <4>2
      <4>4. QED  BY <4>1, <4>3, RestIsText
    <3>2. Call(entry, value, i) /\ (\/ Error /\ UNCHANGED <<args, nbr, i>>
                                    \/ Strike(FALSE) /\ NextArgument)
      BY <2>8
    <3> HIDE DEF value
    <3>3. PICK h : Called(h) /\ h.from = i  BY <1>2, <2>2, <3>1, <3>2, CallTypes
    <3>4. i <= Len(argv)  BY <1>2
    <3>5. CASE Error /\ UNCHANGED <<args, nbr, i>>
      <4>1. Strikes({})  BY <3>5, StrikesNothing
      <4>2. QED  BY <1>1, <3>3, <3>4, <3>5, <4>1 DEF Rejects, Error
    <3>6. CASE Strike(FALSE) /\ NextArgument
      <4>1. Alone(h)  BY <2>2, <2>3, <2>8, <3>3, <3>6 DEF Alone, Advances, NextArgument
      <4>2. QED  BY <1>1, <4>1
    <3>7. QED  BY <3>2, <3>5, <3>6
  <2>9. QED  BY <2>1, <2>5, <2>6, <2>7, <2>8
<1>5. QED  BY <1>3, <1>4

\* A letter without a value; one whose value is the rest of the cluster; and one whose
\* value is the next argument.
TakesSome(a, n) == \E e \in Entries : e.arg /\ e.short = a[n]
PlainFlag(h) == /\ Called(h) /\ h.from = 0 /\ j <= Len(Arg) /\ TakesNone(Arg, j)
                /\ j' = j + 1 /\ args' = args
                /\ nbr' = nbr /\ i' = i /\ pc' = pc /\ ret' = ret
RestFlag(h) == /\ Called(h) /\ h.from = i /\ j < Len(Arg) /\ TakesSome(Arg, j)
               /\ j' = Len(Arg) + 1 /\ args' = args
               /\ nbr' = nbr /\ i' = i /\ pc' = pc /\ ret' = ret
NextFlag(h) == /\ Called(h) /\ h.from = i + 1 /\ i < Len(argv) /\ j = Len(Arg) /\ TakesSome(Arg, j)
               /\ j' = j + 1 /\ Strikes({i + 1})
               /\ nbr' = nbr /\ i' = i /\ pc' = pc /\ ret' = ret

LEMMA ClusterTypes ==
  ASSUME Types, Counted, pc = "cluster"
  PROVE  /\ i \in 1 .. Len(argv) /\ Len(args) = Len(argv) /\ Arg = argv[i] /\ Arg \in Item
         /\ Len(Arg) \in Nat /\ j \in 2 .. Len(Arg) + 1 /\ InCluster(Arg)
<1>1. i <= Len(argv) /\ args[i] = argv[i] /\ InCluster(argv[i])  BY DEF Counted
<1>2. i \in Nat \ {0} /\ Len(argv) \in Nat /\ Len(args) = Len(argv)  BY ArgTypes DEF Types
<1>3. i \in 1 .. Len(argv)  BY <1>1, <1>2
<1>4. Arg = argv[i] /\ Arg \in Item  BY <1>1, <1>3, ArgTypes DEF Arg
<1>5. Len(Arg) \in Nat  BY <1>4, LenProperties DEF Item
<1>6. QED  BY <1>1, <1>2, <1>3, <1>4, <1>5 DEF InCluster

LEMMA FlagCases ==
  ASSUME Types, Counted, pc = "cluster", UnknownFlag \/ Flag \/ FlagWithRest \/ FlagWithNext
  PROVE  /\ UNCHANGED <<kind, argv, shift, printed>> /\ j' \in Nat
         /\ Rejects \/ \E h : PlainFlag(h) \/ RestFlag(h) \/ NextFlag(h)
<1>1. /\ i \in 1 .. Len(argv) /\ Len(args) = Len(argv) /\ Arg \in Item /\ Len(Arg) \in Nat
      /\ j \in 2 .. Len(Arg) + 1
  BY ClusterTypes
<1>2. /\ i \in Nat /\ i + 1 \in Nat /\ i <= Len(argv) /\ j \in Nat /\ j + 1 \in Nat
      /\ Len(Arg) + 1 \in Nat
  BY <1>1
<1>3. Known \subseteq Entries /\ \A e \in Known : e.short = Arg[j]  BY DEF Known, Letter
<1>4. args' = args => Strikes({})  BY StrikesNothing
<1>5. CASE UnknownFlag
  BY <1>2, <1>4, <1>5 DEF UnknownFlag, Rejects, Error
<1>6. CASE Flag
  <2>1. PICK entry \in Known : ~entry.arg /\ Call(entry, NULL, 0)  BY <1>6 DEF Flag
  <2>2. PICK h : Called(h) /\ h.from = 0
    <3>1. 0 \in Nat /\ NULL \in Item /\ entry \in Entries  BY <1>3, Literals
    <3>2. QED  BY <2>1, <3>1, CallTypes
  <2>3. TakesNone(Arg, j)  BY <1>3, <2>1 DEF TakesNone
  <2>4. PlainFlag(h)  BY <1>6, <2>2, <2>3 DEF Flag, PlainFlag
  <2>5. QED  BY <1>2, <1>6, <2>4 DEF Flag
<1>7. CASE FlagWithRest
  <2> DEFINE value == SubSeq(Arg, j + 1, Len(Arg))
  <2>1. PICK entry \in Known :
          /\ entry.arg /\ Call(entry, value, i)
          /\ IF Refuses(entry.id, value) THEN Error /\ UNCHANGED j
             ELSE j' = Len(Arg) + 1 /\ UNCHANGED <<pc, ret>>
    BY <1>7 DEF FlagWithRest
  <2>2. value \in Item
    <3>1. j + 1 \in 1 .. Len(Arg) + 1  BY <1>1, <1>7 DEF FlagWithRest
    <3>2. QED  BY <1>1, <3>1, RestIsText
  <2> HIDE DEF value
  <2>3. PICK h : Called(h) /\ h.from = i
    <3>1. entry \in Entries  BY <1>3
    <3>2. QED  BY <1>2, <2>1, <2>2, <3>1, CallTypes
  <2>4. TakesSome(Arg, j)  BY <1>3, <2>1 DEF TakesSome
  <2>5. CASE Error /\ UNCHANGED j
    BY <1>2, <1>4, <1>7, <2>3, <2>5 DEF FlagWithRest, Rejects, Error
  <2>6. CASE j' = Len(Arg) + 1 /\ UNCHANGED <<pc, ret>>
    <3>1. RestFlag(h)  BY <1>7, <2>3, <2>4, <2>6 DEF FlagWithRest, RestFlag
    <3>2. QED  BY <1>2, <1>7, <2>6, <3>1 DEF FlagWithRest
  <2>7. QED  BY <2>1, <2>5, <2>6
<1>8. CASE FlagWithNext
  <2>1. PICK entry \in Known :
          /\ entry.arg
          /\ IF i = Len(args)
             THEN Error /\ UNCHANGED <<args, calls, j>>
             ELSE /\ Call(entry, args[i + 1], i + 1)
                  /\ args' = [args EXCEPT ![i + 1] = NULL]
                  /\ IF Refuses(entry.id, args[i + 1])
                     THEN Error /\ UNCHANGED j
                     ELSE j' = j + 1 /\ UNCHANGED <<pc, ret>>
    BY <1>8 DEF FlagWithNext
  <2>2. TakesSome(Arg, j)  BY <1>3, <2>1 DEF TakesSome
  <2>3. CASE Error /\ UNCHANGED <<args, calls, j>>
    BY <1>2, <1>4, <1>8, <2>3 DEF FlagWithNext, Rejects, Error
  <2>4. CASE /\ i # Len(args) /\ Call(entry, args[i + 1], i + 1)
             /\ args' = [args EXCEPT ![i + 1] = NULL]
             /\ \/ Error /\ UNCHANGED j
                \/ j' = j + 1 /\ UNCHANGED <<pc, ret>>
    <3>1. i < Len(argv) /\ i + 1 <= Len(argv) /\ args[i + 1] \in Item
      <4>1. i <= Len(args)  BY <1>1, <1>2
      <4>2. i + 1 \in 1 .. Len(argv) /\ args[i + 1] \in Item /\ i < Len(argv)
        BY <2>4, <4>1, NextTypes
      <4>3. QED  BY <4>2
    <3>2. PICK h : Called(h) /\ h.from = i + 1
      <4>1. entry \in Entries  BY <1>3
      <4>2. QED  BY <1>2, <2>4, <3>1, <4>1, CallTypes
    <3>3. Strikes({i + 1})  BY <2>4, StrikesOne
    <3>4. CASE Error /\ UNCHANGED j
      BY <1>2, <1>8, <3>1, <3>2, <3>3, <3>4 DEF FlagWithNext, Rejects, Error
    <3>5. CASE j' = j + 1 /\ UNCHANGED <<pc, ret>>
      <4>1. NextFlag(h)  BY <1>8, <2>2, <3>1, <3>2, <3>3, <3>5 DEF FlagWithNext, NextFlag
      <4>2. QED  BY <1>2, <1>8, <3>5, <4>1 DEF FlagWithNext
    <3>6. QED  BY <2>4, <3>4, <3>5
  <2>5. QED  BY <2>1, <2>3, <2>4
<1>9. QED  BY <1>5, <1>6, <1>7, <1>8

(* The other arguments of the scan. *)
LEMMA PlainCases ==
  ASSUME Types, SkipValue \/ Plain \/ Cluster
  PROVE  /\ UNCHANGED <<kind, argv, args, calls, shift, printed, ret>>
         /\ i \in 1 .. Len(argv) /\ Arg = args[i] /\ pc = "scan" /\ j' \in Nat
         /\ \/ SkipValue /\ Arg = NULL /\ nbr' = nbr - 1 /\ i' = i + 1 /\ pc' = "scan"
            \/ Plain /\ Arg # NULL /\ ~Dashed(Arg) /\ nbr' = nbr /\ i' = i + 1 /\ pc' = "scan"
            \/ /\ Cluster /\ Arg # NULL /\ Dashed(Arg) /\ (Len(Arg) > 1 => Arg[2] # Dash)
               /\ nbr' = nbr /\ i' = i /\ j' = 2 /\ pc' = "cluster"
<1>1. i \in 1 .. Len(argv) /\ j \in Nat
  <2>1. i <= Len(args)  BY DEF SkipValue, Plain, Cluster
  <2>2. QED  BY <2>1, NextTypes DEF Types
<1>2. CASE SkipValue  BY <1>1, <1>2 DEF SkipValue, Arg
<1>3. CASE Plain  BY <1>1, <1>3 DEF Plain, Arg, IsOption, Dashed
<1>4. CASE Cluster  BY <1>1, <1>4 DEF Cluster, Arg, IsOption, IsLong, Dashed
<1>5. QED  BY <1>2, <1>3, <1>4

LEMMA StopCase ==
  ASSUME Types, Stop
  PROVE  /\ UNCHANGED <<kind, argv, i, j, calls, shift, printed, ret>>
         /\ i \in 1 .. Len(argv) /\ pc = "scan" /\ pc' = "parsed" /\ nbr' = nbr - 1
         /\ Strikes({i}) /\ Arg = args[i] /\ Ends(Arg)
<1>1. i \in 1 .. Len(argv)
  <2>1. i <= Len(args)  BY DEF Stop
  <2>2. QED  BY <2>1, NextTypes
<1>2. Strikes({i})
  <2>1. {i} \cup {} = {i} /\ FALSE \in BOOLEAN  OBVIOUS
  <2>2. Strike(FALSE)  BY DEF Stop
  <2>3. Strikes({i} \cup (IF FALSE THEN {i + 1} ELSE {}))  BY <2>1, <2>2, StrikesArg
  <2>4. QED  BY <2>1, <2>3
<1>3. QED  BY <1>1, <1>2 DEF Stop, Singleton, IsLong, IsOption, Ends, Arg

LEMMA ClusterEndsCase ==
  ASSUME Types, ClusterEnds
  PROVE  /\ UNCHANGED <<kind, argv, j, calls, shift, printed>>
         /\ pc = "cluster" /\ j > Len(Arg) /\ Advances({i})
<1>1. Strikes({i})
  <2>1. {i} \cup {} = {i} /\ FALSE \in BOOLEAN  OBVIOUS
  <2>2. Strike(FALSE)  BY DEF ClusterEnds
  <2>3. Strikes({i} \cup (IF FALSE THEN {i + 1} ELSE {}))  BY <2>1, <2>2, StrikesArg
  <2>4. QED  BY <2>1, <2>3
<1>2. QED  BY <1>1 DEF ClusterEnds, Advances, NextArgument

-----------------------------------------------------------------------------
(* Types are kept.                                                         *)

LEMMA TypesKept ==
  ASSUME Types, UNCHANGED <<kind, argv>>, \E S : Strikes(S),
         calls' = calls \/ \E h : Called(h), printed' \in Seq(Item),
         i' \in Nat \ {0}, j' \in Nat, shift' \in Nat, nbr' \in Int, ret' \in Nat,
         (Scanning \/ pc = "parsed")' => printed' = <<>> /\ shift' = 0 /\ ret' = 0
  PROVE  Types'
<1>1. PICK S : Strikes(S)  OBVIOUS
<1>2. args' \in Seq(Item) /\ Len(args') = Len(argv)  BY <1>1 DEF Strikes
<1>3. \A k \in 1 .. Len(argv) : argv[k] # NULL /\ args'[k] \in {argv[k], NULL}
  BY <1>1 DEF Strikes, Types
<1>4. calls' \in Seq(Handled)
  <2>1. calls \in Seq(Handled)  BY DEF Types
  <2>2. ASSUME NEW h, Called(h) PROVE calls' \in Seq(Handled)
    BY <2>1, <2>2, AppendProperties DEF Called
  <2>3. QED  BY <2>1, <2>2
<1>5. kind' \in Kinds /\ argv' \in Seq(Item) /\ argv' = argv  BY DEF Types
<1>6. QED  BY <1>2, <1>3, <1>4, <1>5 DEF Types

LEMMA ScanTypes == Types /\ Counted /\ Scan => Types'
<1> SUFFICES ASSUME Types, Counted, Scan PROVE Types'
  OBVIOUS
<1>1. /\ i \in Nat \ {0} /\ j \in Nat /\ shift \in Nat /\ nbr \in Int /\ ret \in Nat
      /\ printed \in Seq(Item)
      /\ Scanning \/ pc = "parsed" => printed = <<>> /\ shift = 0 /\ ret = 0
      /\ i + 1 \in Nat \ {0} /\ nbr - 1 \in Int /\ 2 \in Nat
  BY DEF Types
<1>2. args' = args => Strikes({})  BY StrikesNothing
<1>3. Scanning
  BY DEF Scan, Scanning, SkipValue, Plain, Stop, LongOption, Cluster, UnknownFlag, Flag,
         FlagWithRest, FlagWithNext, ClusterEnds, ScanEnds
<1>r. Rejects => /\ \E S : Strikes(S)
                 /\ calls' = calls \/ \E h : Called(h)
                 /\ i' \in Nat \ {0} /\ nbr' \in Int /\ ret' \in Nat
                 /\ ~(Scanning \/ pc = "parsed")'
  BY <1>1 DEF Rejects, Scanning
<1>a. \A S : Advances(S) => Strikes(S) /\ i' \in Nat \ {0} /\ nbr' \in Int /\ ret' = 0
  BY <1>1, <1>3 DEF Advances
<1>4. CASE SkipValue \/ Plain \/ Cluster
  <2>1. /\ UNCHANGED <<kind, argv, args, calls, shift, printed, ret>> /\ j' \in Nat
        /\ i' \in Nat \ {0} /\ nbr' \in Int
    BY <1>1, <1>4, PlainCases
  <2>2. QED  BY <1>1, <1>2, <1>3, <2>1, TypesKept
<1>5. CASE Stop
  <2>1. UNCHANGED <<kind, argv, i, j, calls, shift, printed, ret>> /\ nbr' = nbr - 1 /\ Strikes({i})
    BY <1>5, StopCase
  <2>2. QED  BY <1>1, <1>3, <2>1, TypesKept
<1>6. CASE LongOption
  <2>1. /\ UNCHANGED <<kind, argv, j, shift, printed>>
        /\ Rejects \/ \E h : Alone(h) \/ WithNext(h)
    BY <1>6, LongCases
  <2>2. CASE Rejects  BY <1>1, <1>r, <2>1, <2>2, TypesKept
  <2>3. CASE \E h : Alone(h) \/ WithNext(h)
    <3>1. PICK h, S : Called(h) /\ Advances(S)  BY <2>3 DEF Alone, WithNext
    <3>2. Strikes(S) /\ i' \in Nat \ {0} /\ nbr' \in Int /\ ret' = 0  BY <1>a, <3>1
    <3>3. QED  BY <1>1, <1>3, <2>1, <3>1, <3>2, TypesKept
  <2>4. QED  BY <2>1, <2>2, <2>3
<1>7. CASE UnknownFlag \/ Flag \/ FlagWithRest \/ FlagWithNext
  <2>1. pc = "cluster"  BY <1>7 DEF UnknownFlag, Flag, FlagWithRest, FlagWithNext
  <2>2. /\ UNCHANGED <<kind, argv, shift, printed>> /\ j' \in Nat
        /\ Rejects \/ \E h : PlainFlag(h) \/ RestFlag(h) \/ NextFlag(h)
    BY <1>7, <2>1, FlagCases
  <2>3. CASE Rejects  BY <1>1, <1>r, <2>2, <2>3, TypesKept
  <2>4. CASE \E h : PlainFlag(h) \/ RestFlag(h) \/ NextFlag(h)
    <3>1. PICK h, S : Called(h) /\ Strikes(S) /\ i' = i /\ nbr' = nbr /\ ret' = ret
      BY <1>2, <2>4 DEF PlainFlag, RestFlag, NextFlag
    <3>2. QED  BY <1>1, <1>3, <2>2, <3>1, TypesKept
  <2>5. QED  BY <2>2, <2>3, <2>4
<1>8. CASE ClusterEnds
  <2>1. UNCHANGED <<kind, argv, j, calls, shift, printed>> /\ Advances({i})  BY <1>8, ClusterEndsCase
  <2>2. Strikes({i}) /\ i' \in Nat \ {0} /\ nbr' \in Int /\ ret' = 0  BY <1>a, <2>1
  <2>3. QED  BY <1>1, <1>3, <2>1, <2>2, TypesKept
<1>9. CASE ScanEnds
  <2>1. UNCHANGED <<kind, argv, args, nbr, i, j, calls, shift, printed, ret>>  BY <1>9 DEF ScanEnds
  <2>2. QED  BY <1>1, <1>2, <1>3, <2>1, TypesKept
<1>10. QED  BY <1>4, <1>5, <1>6, <1>7, <1>8, <1>9 DEF Scan

-----------------------------------------------------------------------------
(* What a digest prints.                                                   *)

(* The strings of the options are texts. *)
LEMMA SumTypes ==
  ASSUME Types
  PROVE  /\ IsFiniteSet(SumCalls) /\ Cardinality(SumCalls) \in Nat
         /\ sums \in Seq(Item) /\ Len(sums) = Cardinality(SumCalls)
         /\ Given("sum") => Cardinality(SumCalls) # 0
         /\ ~Given("sum") => Cardinality(SumCalls) = 0
<1> DEFINE c == Cardinality(SumCalls)
<1>1. calls \in Seq(Handled) /\ Len(calls) \in Nat  BY LenProperties DEF Types
<1>2. SumCalls \in SUBSET (1 .. Len(calls)) /\ IsFiniteSet(1 .. Len(calls)) /\ SumCalls \in SUBSET Nat
  BY <1>1, FS_Interval DEF SumCalls
<1>3. IsFiniteSet(SumCalls) /\ c \in Nat  BY <1>2, FS_Subset, FS_CardinalityType
<1>4. \A n \in 1 .. c : Nth(SumCalls, n) \in SumCalls  BY <1>2, <1>3, RankExists
<1>5. \A n \in 1 .. c : calls[Nth(SumCalls, n)].value \in Item
  <2>1. \A n \in 1 .. c : calls[Nth(SumCalls, n)] \in Handled
    BY <1>1, <1>2, <1>4, ElementOfSeq
  <2>2. QED  BY <2>1 DEF Handled
<1>6. sums = [n \in 1 .. c |-> calls[Nth(SumCalls, n)].value]  BY DEF sums
<1> HIDE DEF c
<1>7. sums \in Seq(Item) /\ Len(sums) = c  BY <1>3, <1>5, <1>6
<1>8. Given("sum") => SumCalls # {}  BY DEF Given, SumCalls
<1>9. ~Given("sum") => SumCalls = {}  BY DEF Given, SumCalls
<1>10. QED  BY <1>3, <1>7, <1>8, <1>9, FS_EmptySet DEF c

LEMMA LeftTypes ==
  ASSUME Types
  PROVE  /\ Left \in SUBSET (1 .. Len(argv)) /\ Left \in SUBSET Nat
         /\ IsFiniteSet(Left) /\ Cardinality(Left) \in Nat
         /\ \A n \in 1 .. Cardinality(Left) : Nth(Left, n) \in Left
<1>1. Len(argv) \in Nat /\ Len(args) = Len(argv)  BY ArgTypes
<1>2. Left \in SUBSET (1 .. Len(argv)) /\ Left \in SUBSET Nat  BY <1>1 DEF Left
<1>3. 1 \in Int /\ Len(argv) \in Int  BY <1>1
<1>4. IsFiniteSet(1 .. Len(argv))  BY <1>3, FS_Interval
<1>5. IsFiniteSet(Left) /\ Cardinality(Left) \in Nat  BY <1>2, <1>4, FS_Subset, FS_CardinalityType
<1>6. QED  BY <1>2, <1>5, RankExists

(* What is to be read is the standard input, or is not, and then the files. *)
LEMMA ReadableTypes ==
  ASSUME Types
  PROVE  /\ Readable \in Seq(Item) /\ Offset \in {0, 1}
         /\ Len(Readable) = Offset + Cardinality(Left)
         /\ Offset = 1 => Readable[1] = Stdin
         /\ \A n \in 1 .. Cardinality(Left) : Readable[Offset + n] = args[Nth(Left, n)]
<1> DEFINE c == Cardinality(Left)
           head == IF Given("echo") \/ (Left = {} /\ ~Given("sum")) THEN <<Stdin>> ELSE <<>>
<1>1. c \in Nat /\ \A n \in 1 .. c : Nth(Left, n) \in 1 .. Len(argv)
  BY LeftTypes
<1>2. \A n \in 1 .. c : args[Nth(Left, n)] \in Item  BY <1>1, ArgTypes
<1>3. Files = [n \in 1 .. c |-> args[Nth(Left, n)]]  BY DEF Files
<1>4. Readable = head \o Files  BY DEF Readable
<1>5. head \in Seq(Item) /\ Len(head) = Offset /\ Offset \in {0, 1} /\ (Offset = 1 => head[1] = Stdin)
  BY Literals DEF Offset
<1> HIDE DEF c, head
<1>6. Files \in Seq(Item) /\ Len(Files) = c /\ \A n \in 1 .. c : Files[n] = args[Nth(Left, n)]
  BY <1>1, <1>2, <1>3
<1>7. /\ Readable \in Seq(Item) /\ Len(Readable) = Offset + c
      /\ \A n \in 1 .. Offset + c :
            Readable[n] = IF n <= Offset THEN head[n] ELSE Files[n - Offset]
  BY <1>4, <1>5, <1>6, ConcatProperties
<1>8. \A n \in 1 .. c : /\ Offset + n \in 1 .. Offset + c /\ ~(Offset + n <= Offset)
                        /\ (Offset + n) - Offset = n
  BY <1>1, <1>5
<1>9. \A n \in 1 .. c : Readable[Offset + n] = args[Nth(Left, n)]
  BY <1>6, <1>7, <1>8
<1>10. Offset = 1 => 1 \in 1 .. Offset + c /\ 1 <= Offset  BY <1>1
<1>11. Offset = 1 => Readable[1] = Stdin  BY <1>5, <1>7, <1>10
<1>12. QED  BY <1>5, <1>7, <1>9, <1>11 DEF c

LEMMA CommandTypes == Types /\ Command => Types'
<1> SUFFICES ASSUME Types, Command PROVE Types'
  OBVIOUS
<1>1. /\ i \in Nat \ {0} /\ j \in Nat /\ shift \in Nat /\ nbr \in Int /\ ret \in Nat
      /\ printed \in Seq(Item)
      /\ i + 1 \in Nat \ {0} /\ shift + 1 \in Nat /\ ret + 1 \in Nat
      /\ 1 \in Nat \ {0} /\ 2 \in Nat /\ 1 \in Nat
  BY DEF Types
<1>2. args' = args => Strikes({})  BY StrikesNothing
<1>3. UNCHANGED <<kind, argv, args, nbr, j, calls>> /\ ~(Scanning \/ pc = "parsed")'
  BY DEF Command, Refuse, AskPassword, Accept, Digest, DigestStdin, DigestNoStdin, DigestSkip,
         DigestFile, DigestFilesEnd, DigestString, DigestEnds, Error, Scanning
<1>4. i' \in Nat \ {0} /\ shift' \in Nat /\ ret' \in Nat
  BY <1>1
  DEF Command, Refuse, AskPassword, Accept, Digest, DigestStdin, DigestNoStdin, DigestSkip,
         DigestFile, DigestFilesEnd, DigestString, DigestEnds, Error
<1>5. printed' \in Seq(Item)
  <2>1. printed' = printed \/ \E a \in Item : printed' = Append(printed, a)
    <3>1. CASE printed' = printed  BY <3>1
    <3>2. CASE DigestStdin  BY <3>2, Literals DEF DigestStdin, print_hash
    <3>3. CASE DigestFile
      <4>1. i + shift \in 1 .. Len(argv)
        <5>1. i + shift <= Len(argv)  BY <3>3, ArgTypes DEF DigestFile
        <5>2. Len(argv) \in Nat  BY ArgTypes
        <5>3. QED  BY <1>1, <5>1, <5>2
      <4>2. args[i + shift] \in Item  BY <4>1, ArgTypes
      <4>3. QED  BY <3>3, <4>2 DEF DigestFile, print_hash
    <3>4. CASE DigestString
      <4>1. i \in 1 .. Len(sums)
        <5>1. i <= Len(sums) /\ Len(sums) \in Nat  BY <3>4, SumTypes DEF DigestString
        <5>2. QED  BY <1>1, <5>1
      <4>2. sums \in Seq(Item)  BY SumTypes
      <4>3. sums[i] \in Item  BY <4>1, <4>2, ElementOfSeq
      <4>4. QED  BY <3>4, <4>3 DEF DigestString, print_hash
    <3>5. QED
      BY <3>1, <3>2, <3>3, <3>4
      DEF Command, Refuse, AskPassword, Accept, Digest, DigestNoStdin, DigestSkip,
          DigestFilesEnd, DigestEnds
  <2>2. QED  BY <1>1, <2>1, AppendProperties
<1>6. QED  BY <1>1, <1>2, <1>3, <1>4, <1>5, TypesKept

-----------------------------------------------------------------------------
(* What is counted.                                                        *)

LEMMA SameRules ==
  ASSUME UNCHANGED <<kind, argv>>
  PROVE  /\ Entries' = Entries
         /\ \A a : TakesNext(a)' <=> TakesNext(a)
         /\ \A a, n : TakesNone(a, n)' <=> TakesNone(a, n)
<1>1. Entries' = Entries  BY DEF Entries
<1>2. \A a : TakesNext(a)' <=> TakesNext(a)  BY <1>1, Zenon DEF TakesNext
<1>3. \A a, n : TakesNone(a, n)' <=> TakesNone(a, n)  BY <1>1, Zenon DEF TakesNone
<1>4. QED  BY <1>1, <1>2, <1>3

(* What is left of the first arguments, with one more or without it. *)
LEMMA KeptTypes ==
  ASSUME Types, NEW n \in Nat
  PROVE  /\ Kept(n) \in SUBSET Nat /\ IsFiniteSet(Kept(n)) /\ Cardinality(Kept(n)) \in Nat
         /\ n + 1 \notin Kept(n)
         /\ \A k \in Kept(n) : k <= n
         /\ args[n + 1] = NULL => Kept(n + 1) = Kept(n)
         /\ args[n + 1] # NULL => /\ Kept(n + 1) = Kept(n) \cup {n + 1}
                                  /\ Cardinality(Kept(n + 1)) = Cardinality(Kept(n)) + 1
<1>1. Kept(n) \in SUBSET (1 .. n) /\ Kept(n) \in SUBSET Nat  BY DEF Kept
<1>2. IsFiniteSet(1 .. n)
  <2>1. 1 \in Int /\ n \in Int  OBVIOUS
  <2>2. QED  BY <2>1, FS_Interval
<1>3. IsFiniteSet(Kept(n)) /\ Cardinality(Kept(n)) \in Nat  BY <1>1, <1>2, FS_Subset, FS_CardinalityType
<1>4. n + 1 \notin 1 .. n /\ 1 .. n + 1 = (1 .. n) \cup {n + 1}  OBVIOUS
<1>5. n + 1 \notin Kept(n) /\ \A k \in Kept(n) : k <= n  BY <1>1, <1>4
<1>6. args[n + 1] = NULL => Kept(n + 1) = Kept(n)  BY <1>4 DEF Kept
<1>7. args[n + 1] # NULL => Kept(n + 1) = Kept(n) \cup {n + 1}  BY <1>4 DEF Kept
<1>8. Cardinality(Kept(n) \cup {n + 1}) = Cardinality(Kept(n)) + 1  BY <1>3, <1>5, FS_AddElement
<1>9. QED  BY <1>1, <1>3, <1>5, <1>6, <1>7, <1>8

LEMMA KeptSame ==
  ASSUME NEW n \in Nat, \A k \in 1 .. n : args'[k] = args[k]
  PROVE  Kept(n)' = Kept(n)
BY DEF Kept

(* Behind an argument that is struck out the counter has lost one. *)
LEMMA AdvanceCounted ==
  ASSUME Types, Counted, Scanning, i \in 1 .. Len(argv), argv' = argv,
         NEW S \in SUBSET {i, i + 1}, Strikes(S), args'[i] = NULL,
         i' = i + 1, nbr' = nbr - 1, pc' = "scan",
         \A k \in i + 2 .. Len(argv) : args[k] = argv[k]
  PROVE  Counted'
<1>1. Len(argv) \in Nat /\ i \in Nat /\ i - 1 \in Nat /\ (i - 1) + 1 = i /\ i' - 1 = i /\ nbr \in Int
  BY ArgTypes DEF Types
<1>2. nbr = Cardinality(Kept(i - 1)) + Len(argv) - i + 1  BY DEF Counted
<1>3. \A k \in 1 .. i - 1 : args'[k] = args[k]
  <2>1. \A k \in 1 .. i - 1 : k \in 1 .. Len(argv) /\ k # i /\ k # i + 1  BY <1>1
  <2>2. \A k \in 1 .. i - 1 : k \notin S  BY <2>1
  <2>3. QED  BY <2>1, <2>2 DEF Strikes
<1>4. (Kept(i - 1))' = Kept(i - 1)
  <2>1. 1 .. i = (1 .. i - 1) \cup {i} /\ i \notin 1 .. i - 1  BY <1>1
  <2>2. {k \in 1 .. i : args'[k] # NULL} = Kept(i - 1)  BY <1>3, <2>1 DEF Kept
  <2>3. QED  BY <1>1, <2>2 DEF Kept
<1>5. Cardinality(Kept(i - 1)) \in Nat  BY <1>1, KeptTypes
<1>6. (nbr = Cardinality(Kept(i - 1)) + Len(argv) - i + 1)'
  <2> DEFINE c == Cardinality(Kept(i - 1))
  <2>1. nbr' = c + Len(argv) - (i + 1) + 1
    <3> HIDE DEF c
    <3>1. c \in Nat /\ nbr = c + Len(argv) - i + 1  BY <1>2, <1>5 DEF c
    <3>2. QED  BY <1>1, <3>1
  <2>2. QED  BY <1>4, <2>1
<1>7. i' <= Len(argv') + 1  BY <1>1
<1>8. \A k \in i' + 1 .. Len(argv') : args'[k] = argv'[k]
  <2>1. \A k \in (i + 1) + 1 .. Len(argv) : k \in i + 2 .. Len(argv) /\ k \in 1 .. Len(argv) /\ k # i /\ k # i + 1
    BY <1>1
  <2>2. \A k \in (i + 1) + 1 .. Len(argv) : k \notin S  BY <2>1
  <2>3. QED  BY <2>1, <2>2 DEF Strikes
<1>9. (Scanning => nbr = Cardinality(Kept(i - 1)) + Len(argv) - i + 1)'  BY <1>6
<1>10. QED  BY <1>7, <1>8, <1>9 DEF Counted, Parsed

(* The scan ends where nothing is behind it but arguments that are left. *)
LEMMA StopCounted ==
  ASSUME Types, Counted, Stop
  PROVE  Counted'
<1> DEFINE before == Kept(i - 1)
           behind_it == i + 1 .. Len(argv)
<1>1. /\ UNCHANGED <<argv, i>> /\ i \in 1 .. Len(argv) /\ pc = "scan" /\ pc' = "parsed" /\ nbr' = nbr - 1
      /\ Strikes({i})
  BY StopCase
<1>2. Len(argv) \in Nat /\ i \in Nat /\ i - 1 \in Nat /\ (i - 1) + 1 = i /\ nbr \in Int
  BY <1>1, ArgTypes DEF Types
<1>3. /\ nbr = Cardinality(before) + Len(argv) - i + 1
      /\ \A k \in behind_it : args[k] = argv[k]
  BY <1>1 DEF Counted, Scanning
<1>4. before \in SUBSET Nat /\ IsFiniteSet(before) /\ Cardinality(before) \in Nat /\ \A k \in before : k <= i - 1
  BY <1>2, KeptTypes
<1>5. IsFiniteSet(behind_it) /\ Cardinality(behind_it) = Len(argv) - i
  <2>1. i + 1 \in Int /\ Len(argv) \in Int  BY <1>2
  <2>2. IsFiniteSet(behind_it)
        /\ Cardinality(behind_it) = IF i + 1 > Len(argv) THEN 0 ELSE Len(argv) - (i + 1) + 1
    BY <2>1, FS_Interval
  <2>3. QED  BY <1>1, <1>2, <2>2
<1>6. Left' = before \cup behind_it
  <2>1. \A k \in 1 .. Len(argv) : args'[k] # NULL <=> k \in before \/ k \in behind_it
    <3> SUFFICES ASSUME NEW k \in 1 .. Len(argv)
                 PROVE  args'[k] # NULL <=> k \in before \/ k \in behind_it
      OBVIOUS
    <3>1. CASE k <= i - 1
      <4>1. k \in 1 .. i - 1 /\ k # i /\ k \notin behind_it  BY <1>2, <3>1
      <4>2. args'[k] = args[k]  BY <1>1, <4>1 DEF Strikes
      <4>3. k \in before <=> args[k] # NULL  BY <4>1 DEF Kept
      <4>4. QED  BY <4>1, <4>2, <4>3
    <3>2. CASE k = i
      <4>1. k \notin before /\ k \notin behind_it  BY <1>2, <1>4, <3>2
      <4>2. args'[k] = NULL  BY <1>1, <3>2 DEF Strikes
      <4>3. QED  BY <4>1, <4>2
    <3>3. CASE k >= i + 1
      <4>1. k \in behind_it /\ k # i  BY <1>2, <3>3
      <4>2. args'[k] = args[k] /\ args[k] = argv[k] /\ argv[k] # NULL
        BY <1>1, <1>3, <4>1, ArgTypes DEF Strikes
      <4>3. QED  BY <4>1, <4>2
    <3>4. QED  BY <1>2, <3>1, <3>2, <3>3
  <2>2. \A k : k \in before \/ k \in behind_it => k \in 1 .. Len(argv)
    <3>1. before \subseteq 1 .. i - 1  BY DEF Kept
    <3>2. 1 .. i - 1 \subseteq 1 .. Len(argv) /\ behind_it \subseteq 1 .. Len(argv)  BY <1>1, <1>2
    <3>3. QED  BY <3>1, <3>2
  <2>3. Left' = {k \in 1 .. Len(argv) : args'[k] # NULL}  BY <1>1 DEF Left, Strikes
  <2> HIDE DEF before, behind_it
  <2>4. QED  BY <2>1, <2>2, <2>3
<1>7. before \cap behind_it = {}
  <2>1. \A k \in behind_it : ~(k <= i - 1)  BY <1>2
  <2>2. QED  BY <1>4, <2>1
<1> HIDE DEF before, behind_it
<1>8. Cardinality(before \cup behind_it) = Cardinality(before) + (Len(argv) - i)
  <2>1. Cardinality(before \cup behind_it)
           = Cardinality(before) + Cardinality(behind_it) - Cardinality({})
    BY <1>4, <1>5, <1>7, FS_Union
  <2>2. Cardinality({}) = 0  BY FS_EmptySet
  <2>3. QED  BY <1>2, <1>4, <1>5, <2>1, <2>2
<1>9. nbr' = Cardinality(Left')  BY <1>1, <1>2, <1>3, <1>4, <1>6, <1>8
<1>10. QED  BY <1>1, <1>9 DEF Counted, Scanning

LEMMA EndCounted ==
  ASSUME Types, Counted, ScanEnds
  PROVE  Counted'
<1>1. /\ UNCHANGED <<argv, args, i, nbr>> /\ pc = "scan" /\ pc' = "parsed" /\ i > Len(args)
  BY DEF ScanEnds
<1>2. Len(args) = Len(argv) /\ Len(argv) \in Nat /\ i \in Nat /\ i <= Len(argv) + 1
  BY <1>1, ArgTypes DEF Types, Counted
<1>3. i - 1 = Len(argv) /\ Len(argv) - i + 1 = 0  BY <1>1, <1>2
<1>4. Kept(i - 1) = Left /\ Cardinality(Left) \in Nat  BY <1>2, <1>3, LeftTypes DEF Kept, Left
<1>5. nbr = Cardinality(Left) + Len(argv) - i + 1  BY <1>1, <1>4 DEF Counted, Scanning
<1>6. nbr = Cardinality(Left)  BY <1>2, <1>3, <1>4, <1>5
<1>7. nbr' = Cardinality(Left')  BY <1>1, <1>6 DEF Left
<1>8. QED  BY <1>1, <1>7 DEF Counted, Scanning

\* What InCluster says behind a step, of the same argument.
ClusterNext(a) ==
    /\ Dashed(a) /\ (Len(a) > 1 => a[2] # Dash)
    /\ j' \in 2 .. Len(a) + 1
    /\ j' <= Len(a) => \A n \in 2 .. j' - 1 : TakesNone(a, n)
    /\ j' > Len(a) /\ i < Len(argv) => (TakesNext(a) <=> args'[i + 1] = NULL)

LEMMA ClusterPrimed ==
  ASSUME UNCHANGED <<kind, argv, i>>, ClusterNext(argv[i])
  PROVE  InCluster(argv[i])'
<1>1. Entries' = Entries  BY SameRules
<1>2. (j <= Len(argv[i]) => \A n \in 2 .. j - 1 : TakesNone(argv[i], n))'
  BY <1>1 DEF ClusterNext, TakesNone
<1>3. TakesNext(argv[i])' <=> TakesNext(argv[i])  BY <1>1, Zenon DEF TakesNext
<1>4. (j > Len(argv[i]) /\ i < Len(argv) => (TakesNext(argv[i]) <=> args[i + 1] = NULL))'
  BY <1>3 DEF ClusterNext
<1>5. (Dashed(argv[i]) /\ (Len(argv[i]) > 1 => argv[i][2] # Dash) /\ j \in 2 .. Len(argv[i]) + 1)'
  BY DEF ClusterNext, Dashed
<1>6. QED  BY <1>2, <1>4, <1>5 DEF InCluster

(* The letters of a cluster, and whether its last one takes the next argument. *)
LEMMA FlagKept ==
  ASSUME Types, Counted, pc = "cluster", UNCHANGED <<kind, argv>>,
         NEW h, PlainFlag(h) \/ RestFlag(h) \/ NextFlag(h)
  PROVE  /\ ClusterNext(Arg) /\ Arg' = Arg
         /\ j' <= Len(Arg) => PlainFlag(h)
<1> DEFINE a == argv[i]
<1>1. /\ i \in 1 .. Len(argv) /\ Len(args) = Len(argv) /\ Arg = a /\ Arg \in Item
      /\ Len(a) \in Nat /\ j \in 2 .. Len(a) + 1 /\ InCluster(a)
  BY ClusterTypes
<1>2. i' = i /\ i \in Nat /\ Len(argv) \in Nat  BY <1>1, ArgTypes DEF PlainFlag, RestFlag, NextFlag
<1>3. args'[i] = args[i]
  <2>1. i # i + 1  BY <1>2
  <2>2. QED  BY <1>1, <2>1 DEF PlainFlag, RestFlag, NextFlag, Strikes
<1>4. Arg' = a  BY <1>1, <1>2, <1>3 DEF Arg
<1>5. Dashed(a) /\ (Len(a) > 1 => a[2] # Dash) /\ (j <= Len(a) => \A n \in 2 .. j - 1 : TakesNone(a, n))
  BY <1>1 DEF InCluster
<1>6. j <= Len(a)  BY <1>1 DEF PlainFlag, RestFlag, NextFlag
<1>7. \A n : ~(TakesNone(a, n) /\ TakesSome(a, n))
  BY EntryTypes DEF Types, TakesNone, TakesSome
<1>8. i < Len(argv) => args[i + 1] # NULL
  <2>1. \A k \in i + 1 .. Len(argv) : args[k] = argv[k]  BY <1>1, <1>6 DEF Counted
  <2>2. i < Len(argv) => i + 1 \in i + 1 .. Len(argv) /\ i + 1 \in 1 .. Len(argv)  BY <1>2
  <2>3. QED  BY <2>1, <2>2, ArgTypes
<1>9. ASSUME TakesNext(a)
      PROVE  TakesSome(a, Len(a)) /\ \A n \in 2 .. Len(a) - 1 : TakesNone(a, n)
  <2>1. ~(Len(a) > 2 /\ a[1] = Dash /\ a[2] = Dash)  BY <1>1, <1>5
  <2>2. /\ \E e \in Entries : e.arg /\ e.short = a[Len(a)]
        /\ \A n \in 2 .. Len(a) - 1 : \E e \in Entries : ~e.arg /\ e.short = a[n]
    BY <1>9, <2>1, Zenon DEF TakesNext
  <2>3. QED  BY <2>2 DEF TakesSome, TakesNone
<1> HIDE DEF a
<1>11. CASE PlainFlag(h)
  <2>1. j' = j + 1 /\ args' = args /\ TakesNone(a, j)  BY <1>1, <1>11 DEF PlainFlag
  <2>2. j' \in 2 .. Len(a) + 1  BY <1>1, <1>6, <2>1
  <2>3. \A n \in 2 .. j' - 1 : TakesNone(a, n)
    <3>1. \A n \in 2 .. j' - 1 : n \in 2 .. j - 1 \/ n = j  BY <1>1, <2>1
    <3>2. QED  BY <1>5, <1>6, <2>1, <3>1
  <2>4. j' > Len(a) => ~TakesNext(a)
    <3>1. j' > Len(a) => j = Len(a)  BY <1>1, <1>6, <2>1
    <3>2. QED  BY <1>7, <1>9, <2>1, <3>1
  <2>5. QED  BY <1>1, <1>4, <1>5, <1>8, <1>11, <2>1, <2>2, <2>3, <2>4 DEF ClusterNext
<1>12. CASE RestFlag(h)
  <2>1. j' = Len(a) + 1 /\ args' = args /\ TakesSome(a, j) /\ j < Len(a)  BY <1>1, <1>12 DEF RestFlag
  <2>2. j' \in 2 .. Len(a) + 1 /\ ~(j' <= Len(a)) /\ j \in 2 .. Len(a) - 1  BY <1>1, <2>1
  <2>3. ~TakesNext(a)  BY <1>7, <1>9, <2>1, <2>2
  <2>4. QED  BY <1>1, <1>4, <1>5, <1>8, <2>1, <2>2, <2>3 DEF ClusterNext
<1>13. CASE NextFlag(h)
  <2>1. j' = j + 1 /\ j = Len(a) /\ Strikes({i + 1}) /\ TakesSome(a, j)  BY <1>1, <1>13 DEF NextFlag
  <2>2. j' \in 2 .. Len(a) + 1 /\ ~(j' <= Len(a)) /\ Len(a) > 1  BY <1>1, <2>1
  <2>3. TakesNext(a)
    <3>1. \A n \in 2 .. Len(a) - 1 : \E e \in Entries : ~e.arg /\ e.short = a[n]
      BY <1>5, <1>6, <2>1 DEF TakesNone
    <3>2. \E e \in Entries : e.arg /\ e.short = a[Len(a)]  BY <2>1 DEF TakesSome
    <3>3. a[1] = Dash /\ a[2] # Dash  BY <1>5, <2>2 DEF Dashed
    <3>4. QED  BY <2>2, <3>1, <3>2, <3>3, Zenon DEF TakesNext
  <2>4. i < Len(argv) => args'[i + 1] = NULL
    <3>1. i < Len(argv) => i + 1 \in 1 .. Len(argv)  BY <1>2
    <3>2. QED  BY <2>1, <3>1 DEF Strikes
  <2>5. QED  BY <1>1, <1>4, <1>5, <2>2, <2>3, <2>4 DEF ClusterNext
<1>14. QED  BY <1>11, <1>12, <1>13

LEMMA ScanCounted == Types /\ Counted /\ Scan => Counted'
<1> SUFFICES ASSUME Types, Counted, Scan PROVE Counted'
  OBVIOUS
<1>1. CASE SkipValue \/ Plain \/ Cluster
  <2>1. /\ UNCHANGED <<kind, argv, args>> /\ i \in 1 .. Len(argv) /\ Arg = args[i] /\ pc = "scan" /\ Scanning
        /\ \/ SkipValue /\ Arg = NULL /\ nbr' = nbr - 1 /\ i' = i + 1 /\ pc' = "scan"
           \/ Plain /\ Arg # NULL /\ ~Dashed(Arg) /\ nbr' = nbr /\ i' = i + 1 /\ pc' = "scan"
           \/ /\ Cluster /\ Arg # NULL /\ Dashed(Arg) /\ (Len(Arg) > 1 => Arg[2] # Dash)
              /\ nbr' = nbr /\ i' = i /\ j' = 2 /\ pc' = "cluster"
    BY <1>1, PlainCases DEF Scanning
  <2>2. /\ nbr = Cardinality(Kept(i - 1)) + Len(argv) - i + 1
        /\ \A k \in i + 1 .. Len(argv) : args[k] = argv[k]
    BY <2>1 DEF Counted
  <2>3. /\ Len(argv) \in Nat /\ i \in Nat /\ i - 1 \in Nat /\ (i - 1) + 1 = i /\ (i + 1) - 1 = i
        /\ nbr \in Int /\ i <= Len(argv)
    BY <2>1, ArgTypes DEF Types
  <2>4. \A k \in i + 2 .. Len(argv) : args[k] = argv[k]  BY <2>2, <2>3
  <2>5. CASE SkipValue /\ Arg = NULL /\ nbr' = nbr - 1 /\ i' = i + 1 /\ pc' = "scan"
    <3>1. Strikes({}) /\ {} \in SUBSET {i, i + 1}  BY <2>1, StrikesNothing
    <3>2. args'[i] = NULL  BY <2>1, <2>5
    <3>3. QED  BY <2>1, <2>4, <2>5, <3>1, <3>2, AdvanceCounted
  <2>6. CASE Plain /\ Arg # NULL /\ ~Dashed(Arg) /\ nbr' = nbr /\ i' = i + 1 /\ pc' = "scan"
    <3> DEFINE c == Cardinality(Kept(i - 1))
    <3>1. c \in Nat /\ Cardinality(Kept(i)) = c + 1  BY <2>1, <2>3, <2>6, KeptTypes
    <3>2. nbr = Cardinality(Kept(i)) + Len(argv) - (i + 1) + 1
      <4>1. nbr = c + Len(argv) - i + 1  BY <2>2
      <4> HIDE DEF c
      <4>2. QED  BY <2>3, <3>1, <4>1
    <3>3. (Kept(i - 1))' = Kept(i)
      <4>1. i' - 1 = i  BY <2>3, <2>6
      <4>2. QED  BY <2>1, <4>1 DEF Kept
    <3>4. (nbr = Cardinality(Kept(i - 1)) + Len(argv) - i + 1)'  BY <2>1, <2>6, <3>2, <3>3
    <3>5. i' <= Len(argv') + 1 /\ \A k \in i' + 1 .. Len(argv') : args'[k] = argv'[k]
      <4>1. i + 1 <= Len(argv) + 1 /\ (i + 1) + 1 = i + 2  BY <2>3
      <4>2. QED  BY <2>1, <2>4, <2>6, <4>1
    <3>6. QED  BY <2>6, <3>4, <3>5 DEF Counted, Scanning, Parsed
  <2>7. CASE /\ Cluster /\ Arg # NULL /\ Dashed(Arg) /\ (Len(Arg) > 1 => Arg[2] # Dash)
             /\ nbr' = nbr /\ i' = i /\ j' = 2 /\ pc' = "cluster"
    <3>1. Arg = argv[i] /\ Arg \in Item /\ Len(Arg) \in Nat /\ Len(Arg) > 0
      <4>1. Arg = argv[i] /\ Arg \in Item  BY <2>1, <2>7, ArgTypes
      <4>2. QED  BY <2>7, <4>1, LenProperties DEF Item, Dashed
    <3>2. Len(Arg) = 1 => ~TakesNext(Arg)  BY DEF TakesNext
    <3>3. i < Len(argv) => args'[i + 1] # NULL
      <4>1. i < Len(argv) => i + 1 \in i + 1 .. Len(argv) /\ i + 1 \in 1 .. Len(argv)  BY <2>3
      <4>2. QED  BY <2>1, <2>2, <4>1, ArgTypes
    <3>4. ClusterNext(Arg)
      <4>1. 2 \in 2 .. Len(Arg) + 1 /\ (2 > Len(Arg) => Len(Arg) = 1) 
        <5>1. \A n \in Nat : n > 0 => 2 \in 2 .. n + 1 /\ (2 > n => n = 1)  OBVIOUS
        <5>2. QED  BY <3>1, <5>1
      <4>2. \A n \in 2 .. 2 - 1 : FALSE  OBVIOUS
      <4>3. QED  BY <2>7, <3>2, <3>3, <4>1, <4>2 DEF ClusterNext
    <3>5. InCluster(argv[i])'  BY <2>1, <2>7, <3>1, <3>4, ClusterPrimed
    <3>6. (Kept(i - 1))' = Kept(i - 1)  BY <2>1, <2>7 DEF Kept
    <3>7. (nbr = Cardinality(Kept(i - 1)) + Len(argv) - i + 1)'  BY <2>1, <2>2, <2>7, <3>6
    <3>8. /\ i' <= Len(argv') /\ args'[i'] = argv'[i']
          /\ \A k \in i' + 1 .. Len(argv') : args'[k] = argv'[k]
          /\ \A k \in i' + 2 .. Len(argv') : args'[k] = argv'[k]
      BY <2>1, <2>2, <2>3, <2>4, <2>7, <3>1
    <3>9. QED  BY <2>7, <3>5, <3>7, <3>8 DEF Counted, Scanning, Parsed
  <2>8. QED  BY <2>1, <2>5, <2>6, <2>7
<1>2. CASE Stop  BY <1>2, StopCounted
<1>3. CASE ScanEnds  BY <1>3, EndCounted
<1>r. Rejects => Counted'  BY DEF Rejects, Counted, Scanning, Parsed
<1>4. CASE LongOption
  <2>1. pc = "scan" /\ i \in 1 .. Len(argv) /\ Scanning /\ Len(argv) \in Nat
    <3>1. pc = "scan" /\ i <= Len(args)  BY <1>4 DEF LongOption
    <3>2. QED  BY <3>1, NextTypes, ArgTypes DEF Scanning
  <2>2. \A k \in i + 2 .. Len(argv) : args[k] = argv[k]  BY <2>1 DEF Counted
  <2>3. UNCHANGED <<kind, argv>> /\ (Rejects \/ \E h : Alone(h) \/ WithNext(h))  BY <1>4, LongCases
  <2>4. ASSUME NEW S \in SUBSET {i, i + 1}, i \in S, Advances(S) PROVE Counted'
    <3>1. Strikes(S) /\ i' = i + 1 /\ nbr' = nbr - 1 /\ pc' = "scan" /\ argv' = argv
      BY <2>3, <2>4 DEF Advances
    <3>2. args'[i] = NULL  BY <2>1, <2>4, <3>1 DEF Strikes
    <3>3. QED  BY <2>1, <2>2, <3>1, <3>2, AdvanceCounted
  <2>5. \A h : Alone(h) => Counted'
    <3>1. {i} \in SUBSET {i, i + 1} /\ i \in {i}  OBVIOUS
    <3>2. QED  BY <2>4, <3>1 DEF Alone
  <2>6. \A h : WithNext(h) => Counted'
    <3>1. {i, i + 1} \in SUBSET {i, i + 1} /\ i \in {i, i + 1}  OBVIOUS
    <3>2. QED  BY <2>4, <3>1 DEF WithNext
  <2>7. QED  BY <1>r, <2>3, <2>5, <2>6
<1>5. CASE ClusterEnds
  <2>1. UNCHANGED <<kind, argv, j>> /\ pc = "cluster" /\ Scanning /\ Advances({i})
    BY <1>5, ClusterEndsCase DEF Scanning
  <2>2. i \in 1 .. Len(argv) /\ \A k \in i + 2 .. Len(argv) : args[k] = argv[k]
    BY <2>1, ClusterTypes DEF Counted
  <2>3. Strikes({i}) /\ i' = i + 1 /\ nbr' = nbr - 1 /\ pc' = "scan" /\ argv' = argv
    BY <2>1 DEF Advances
  <2>4. args'[i] = NULL  BY <2>2, <2>3 DEF Strikes
  <2>5. {i} \in SUBSET {i, i + 1}  OBVIOUS
  <2>6. QED  BY <2>1, <2>2, <2>3, <2>4, <2>5, AdvanceCounted
<1>6. CASE UnknownFlag \/ Flag \/ FlagWithRest \/ FlagWithNext
  <2>1. pc = "cluster"  BY <1>6 DEF UnknownFlag, Flag, FlagWithRest, FlagWithNext
  <2>2. UNCHANGED <<kind, argv>> /\ (Rejects \/ \E h : PlainFlag(h) \/ RestFlag(h) \/ NextFlag(h))
    BY <1>6, <2>1, FlagCases
  <2>3. ASSUME NEW h, PlainFlag(h) \/ RestFlag(h) \/ NextFlag(h) PROVE Counted'
    <3>1. i' = i /\ nbr' = nbr /\ pc' = pc /\ (args' = args \/ Strikes({i + 1}))
      BY <2>3 DEF PlainFlag, RestFlag, NextFlag
    <3>2. ClusterNext(Arg) /\ Arg' = Arg /\ (j' <= Len(Arg) => PlainFlag(h))
      BY <2>1, <2>2, <2>3, FlagKept
    <3>3. i \in 1 .. Len(argv) /\ Arg = argv[i] /\ Len(argv) \in Nat /\ i \in Nat
      BY <2>1, ClusterTypes, ArgTypes DEF Types
    <3>4. \A k \in 1 .. Len(argv) : k # i + 1 => args'[k] = args[k]
      BY <3>1 DEF Strikes
    <3>5. InCluster(argv[i])'  BY <2>2, <3>1, <3>2, <3>3, ClusterPrimed
    <3>6. (Kept(i - 1))' = Kept(i - 1)
      <4>1. \A k \in 1 .. i - 1 : k \in 1 .. Len(argv) /\ k # i + 1  BY <3>3
      <4>2. QED  BY <3>1, <3>4, <4>1 DEF Kept
    <3>7. (nbr = Cardinality(Kept(i - 1)) + Len(argv) - i + 1)'
      <4>1. nbr = Cardinality(Kept(i - 1)) + Len(argv) - i + 1  BY <2>1 DEF Counted, Scanning
      <4>2. QED  BY <2>2, <3>1, <3>6, <4>1
    <3>8. \A k \in i + 2 .. Len(argv) : args'[k] = argv[k]
      <4>1. \A k \in i + 2 .. Len(argv) : args[k] = argv[k]  BY <2>1 DEF Counted
      <4>2. \A k \in i + 2 .. Len(argv) : k \in 1 .. Len(argv) /\ k # i + 1  BY <3>3
      <4>3. QED  BY <3>4, <4>1, <4>2
    <3>9. j' <= Len(argv[i]) => \A k \in i + 1 .. Len(argv) : args'[k] = argv[k]
      <4>1. j <= Len(argv[i]) => \A k \in i + 1 .. Len(argv) : args[k] = argv[k]  BY <2>1 DEF Counted
      <4>2. QED  BY <3>2, <3>3, <4>1 DEF PlainFlag
    <3>10. i' <= Len(argv') /\ args'[i'] = argv'[i']
      BY <2>2, <3>1, <3>2, <3>3 DEF Arg
    <3>11. (/\ \A k \in i + 2 .. Len(argv) : args[k] = argv[k]
            /\ j <= Len(argv[i]) => \A k \in i + 1 .. Len(argv) : args[k] = argv[k])'
      BY <2>2, <3>1, <3>8, <3>9
    <3>12. pc' = "cluster"  BY <2>1, <3>1
    <3>13. QED  BY <3>5, <3>7, <3>10, <3>11, <3>12 DEF Counted, Scanning, Parsed
  <2>4. QED  BY <1>r, <2>2, <2>3
<1>7. QED  BY <1>1, <1>2, <1>3, <1>4, <1>5, <1>6 DEF Scan

-----------------------------------------------------------------------------
(* What is struck out.                                                     *)

(* How many arguments that take the next one are in front of an argument. *)
LEMMA TakersOnce ==
  ASSUME NEW k \in Nat \ {0}, NEW m \in 0 .. k - 1, NEW n \in 0 .. k - 1, Takers(k, m), Takers(k, n)
  PROVE  m = n
<1>1. ASSUME NEW x \in 0 .. k - 1, NEW y \in 0 .. k - 1, Takers(k, x), Takers(k, y), x < y PROVE FALSE
  <2>1. x < k - 1 /\ k - x - 1 \in k - y .. k - 1  BY <1>1
  <2>2. QED  BY <1>1, <2>1 DEF Takers
<1>2. ~(m < n) /\ ~(n < m)  BY <1>1
<1>3. QED  BY <1>2

(* The next argument is a value when this one takes it and is no value itself. *)
LEMMA NextValue ==
  ASSUME NEW k \in Nat \ {0}, \E n \in 0 .. k - 1 : Takers(k, n)
  PROVE  /\ \E n \in 0 .. (k + 1) - 1 : Takers(k + 1, n)
         /\ IsValue(k + 1) <=> TakesNext(argv[k]) /\ ~IsValue(k)
<1>1. PICK n \in 0 .. k - 1 : Takers(k, n)  OBVIOUS
<1>2. k + 1 \in Nat \ {0} /\ (k + 1) - 1 = k  OBVIOUS
<1>3. IsValue(k) <=> n % 2 = 1  BY <1>1, TakersOnce DEF IsValue
<1>4. CASE TakesNext(argv[k])
  <2>1. Takers(k + 1, n + 1)
    <3>1. \A m \in (k + 1) - (n + 1) .. (k + 1) - 1 : m \in k - n .. k - 1 \/ m = k  BY <1>1
    <3>2. \A m \in (k + 1) - (n + 1) .. (k + 1) - 1 : TakesNext(argv[m])
      BY <1>1, <1>4, <3>1 DEF Takers
    <3>3. n + 1 < (k + 1) - 1 => n < k - 1 /\ (k + 1) - (n + 1) - 1 = k - n - 1  BY <1>1
    <3>4. QED  BY <1>1, <3>2, <3>3 DEF Takers
  <2>2. n + 1 \in 0 .. (k + 1) - 1  BY <1>1
  <2>3. IsValue(k + 1) <=> (n + 1) % 2 = 1  BY <1>2, <2>1, <2>2, TakersOnce DEF IsValue
  <2>4. (n + 1) % 2 = 1 <=> ~(n % 2 = 1)  BY <1>1
  <2>5. QED  BY <1>3, <1>4, <2>1, <2>2, <2>3, <2>4
<1>5. CASE ~TakesNext(argv[k])
  <2>1. Takers(k + 1, 0)
    <3>1. \A m \in (k + 1) - 0 .. (k + 1) - 1 : FALSE  OBVIOUS
    <3>2. (k + 1) - 0 - 1 = k  OBVIOUS
    <3>3. QED  BY <1>5, <3>1, <3>2 DEF Takers
  <2>2. 0 \in 0 .. (k + 1) - 1  OBVIOUS
  <2>3. IsValue(k + 1) <=> 0 % 2 = 1  BY <1>2, <2>1, <2>2, TakersOnce DEF IsValue
  <2>4. ~(0 % 2 = 1)  OBVIOUS
  <2>5. QED  BY <1>5, <2>1, <2>2, <2>3, <2>4
<1>6. QED  BY <1>4, <1>5

(* The conventions are about the command line as it was. *)
LEMMA SameValues ==
  ASSUME UNCHANGED <<kind, argv>>
  PROVE  /\ \A k, n : Takers(k, n)' <=> Takers(k, n)
         /\ \A k : IsValue(k)' <=> IsValue(k)
         /\ \A k : Open(k)' <=> Open(k)
<1>1. Entries' = Entries  BY SameRules
<1>2. \A m : TakesNext(argv[m])' <=> TakesNext(argv[m])  BY <1>1, Zenon DEF TakesNext
<1>3. \A k, n : Takers(k, n)' <=> Takers(k, n)  BY <1>2 DEF Takers
<1>4. \A k : IsValue(k)' <=> IsValue(k)  BY <1>3 DEF IsValue
<1>5. \A k : Closes(k)' <=> Closes(k)  BY <1>4 DEF Closes, Ends
<1>6. \A k : Open(k)' <=> Open(k)  BY <1>5 DEF Open
<1>7. QED  BY <1>3, <1>4, <1>6

\* What RuledAt says behind a step.
RuledNext(p) == /\ Open(p) /\ \A k \in 1 .. p - 1 : args'[k] = NULL <=> IsValue(k) \/ Dashed(argv[k])
                /\ \E n \in 0 .. p - 1 : Takers(p, n)
                /\ p <= Len(argv) => (IsValue(p) <=> args'[p] = NULL)

LEMMA RuledPrimed ==
  ASSUME UNCHANGED <<kind, argv>>, NEW p, i' = p, RuledNext(p), ~Parsed'
  PROVE  Ruled'
<1>1. /\ \A k, n : Takers(k, n)' <=> Takers(k, n)
      /\ \A k : IsValue(k)' <=> IsValue(k)
      /\ \A k : Open(k)' <=> Open(k)
  BY SameValues
<1>2. \A k \in 1 .. p - 1 : Passed(k)'  BY <1>1 DEF RuledNext, Passed, Dashed
<1>3. RuledAt(p)'  BY <1>1, <1>2 DEF RuledAt, RuledNext
<1>4. RuledAt(i)'  BY <1>3 DEF RuledAt, Open, Takers, IsValue
<1>5. QED  BY <1>4 DEF Ruled

(* Behind an argument, once it is struck out or left as it should be. *)
LEMMA AdvanceRuled ==
  ASSUME Types, Ruled, Scanning, i \in 1 .. Len(argv), UNCHANGED <<kind, argv>>, i' = i + 1, ~Parsed',
         \A k \in 1 .. i - 1 : args'[k] = args[k],
         args'[i] = NULL <=> IsValue(i) \/ Dashed(argv[i]),
         ~Closes(i),
         i < Len(argv) => (args'[i + 1] = NULL <=> TakesNext(argv[i]) /\ ~IsValue(i))
  PROVE  Ruled'
<1>1. RuledAt(i)  BY DEF Ruled
<1>2. i \in Nat \ {0} /\ Len(argv) \in Nat /\ (i + 1) - 1 = i  BY ArgTypes DEF Types
<1>3. /\ \E n \in 0 .. (i + 1) - 1 : Takers(i + 1, n)
      /\ IsValue(i + 1) <=> TakesNext(argv[i]) /\ ~IsValue(i)
  BY <1>1, <1>2, NextValue DEF RuledAt
<1>4. Open(i + 1)
  <2>1. \A n \in 1 .. (i + 1) - 1 : n \in 1 .. i - 1 \/ n = i  BY <1>2
  <2>2. QED  BY <1>1, <2>1 DEF RuledAt, Open
<1>5. \A k \in 1 .. (i + 1) - 1 : args'[k] = NULL <=> IsValue(k) \/ Dashed(argv[k])
  <2>1. \A k \in 1 .. (i + 1) - 1 : k \in 1 .. i - 1 \/ k = i  BY <1>2
  <2>2. QED  BY <1>1, <2>1 DEF RuledAt, Passed
<1>6. i + 1 <= Len(argv) => i < Len(argv)  BY <1>2
<1>7. RuledNext(i + 1)  BY <1>3, <1>4, <1>5, <1>6 DEF RuledNext
<1>8. PICK p : p = i + 1  OBVIOUS
<1>9. RuledNext(p) /\ i' = p  BY <1>7, <1>8
<1>10. QED  BY <1>9, RuledPrimed

(* An argument that is looked at further stays what it is. *)
LEMMA StayRuled ==
  ASSUME Types, Ruled, Scanning, i \in 1 .. Len(argv), UNCHANGED <<kind, argv, i>>, ~Parsed',
         \A k \in 1 .. i : args'[k] = args[k]
  PROVE  Ruled'
<1>1. RuledAt(i)  BY DEF Ruled
<1>2. \A k \in 1 .. i - 1 : k \in 1 .. i  BY DEF Types
<1>3. i \in 1 .. i  BY DEF Types
<1>4. RuledNext(i)  BY <1>1, <1>2, <1>3 DEF RuledNext, RuledAt, Passed
<1>5. PICK p : p = i  OBVIOUS
<1>6. RuledNext(p) /\ i' = p  BY <1>4, <1>5
<1>7. QED  BY <1>6, RuledPrimed

(* What getopt_long leaves is what the scan has left when it is over. *)
LEMMA LeftRuled ==
  ASSUME UNCHANGED <<kind, argv>>, Len(args') = Len(argv), ~Scanning',
         \A k \in 1 .. Len(argv) :
            args'[k] # NULL <=> ~Open(k) \/ ~(IsValue(k) \/ Dashed(argv[k]))
  PROVE  Ruled'
<1>1. /\ \A k : IsValue(k)' <=> IsValue(k)
      /\ \A k : Open(k)' <=> Open(k)
  BY SameValues
<1>2. Left' = {k \in 1 .. Len(argv) : args'[k] # NULL}  BY DEF Left
<1>3. Left' = {k \in 1 .. Len(argv) : ~Open(k) \/ ~(IsValue(k) \/ Dashed(argv[k]))}  BY <1>2
<1>4. (Left = {k \in 1 .. Len(argv) : ~Open(k) \/ ~(IsValue(k) \/ Dashed(argv[k]))})'
  BY <1>1, <1>3 DEF Dashed
<1>5. QED  BY <1>4 DEF Ruled

(* A text of two characters is not NULL, and what ends the scan or takes a value has a dash. *)
LEMMA LongTexts ==
  ASSUME NEW a \in Item
  PROVE  /\ Len(a) \in Nat /\ (Len(a) > 1 => a # NULL)
         /\ Ends(a) => Dashed(a)
         /\ TakesNext(a) => Dashed(a)
<1>1. Len(a) \in Nat  BY LenProperties DEF Item
<1>2. a = NULL => Len(a) = 1  BY DEF NULL
<1> \A n \in Nat : (n > 1 => n # 1 /\ n > 0) /\ (n > 2 => n > 0)  OBVIOUS
<1>3. Len(a) > 1 => Len(a) # 1 /\ Len(a) > 0  BY <1>1, Zenon
<1>4. Len(a) > 2 => Len(a) > 0  BY <1>1, Zenon
<1>5. Len(a) > 1 => a # NULL  BY <1>2, <1>3
<1>6. Ends(a) => Dashed(a)  BY <1>3, Zenon DEF Ends, Dashed
<1>7. TakesNext(a) => Dashed(a)  BY <1>3, <1>4, Zenon DEF TakesNext, Dashed
<1>8. QED  BY <1>1, <1>5, <1>6, <1>7

LEMMA StopRuled ==
  ASSUME Types, Counted, Ruled, Stop
  PROVE  Ruled'
<1>1. /\ UNCHANGED <<kind, argv>> /\ i \in 1 .. Len(argv) /\ pc = "scan" /\ pc' = "parsed"
      /\ Strikes({i}) /\ Arg = args[i] /\ Ends(Arg)
  BY StopCase
<1>2. Len(argv) \in Nat /\ i \in Nat  BY <1>1, ArgTypes DEF Types
<1>3. args[i] # NULL
  <2>1. Len(Arg) > 1 /\ Arg \in Item  BY <1>1, ArgTypes DEF Ends
  <2>2. QED  BY <1>1, <2>1, LongTexts
<1>4. args[i] = argv[i] /\ Ends(argv[i]) /\ Dashed(argv[i])
  <2>1. args[i] = argv[i] /\ argv[i] \in Item  BY <1>1, <1>3, ArgTypes
  <2>2. Arg = argv[i]  BY <1>1, <2>1
  <2>3. Ends(argv[i])  BY <1>1, <2>2
  <2>4. QED  BY <2>1, <2>3, LongTexts
<1>5. RuledAt(i) /\ \A k \in i + 1 .. Len(argv) : args[k] = argv[k]
  BY <1>1 DEF Ruled, Counted, Scanning
<1>6. Closes(i)
  <2>1. i <= Len(argv)  BY <1>1
  <2>2. ~IsValue(i)  BY <1>3, <1>5, <2>1 DEF RuledAt
  <2>3. QED  BY <1>4, <2>2 DEF Closes
<1>7. ASSUME NEW k \in 1 .. Len(argv)
      PROVE  args'[k] # NULL <=> ~Open(k) \/ ~(IsValue(k) \/ Dashed(argv[k]))
  <2>1. CASE k < i
    <3>1. k \in 1 .. i - 1 /\ k # i  BY <1>2, <2>1
    <3>2. \A n \in 1 .. k - 1 : n \in 1 .. i - 1  BY <1>2, <2>1
    <3>3. Open(k)  BY <1>5, <3>2 DEF RuledAt, Open
    <3>4. args[k] = NULL <=> IsValue(k) \/ Dashed(argv[k])  BY <1>5, <3>1 DEF RuledAt, Passed
    <3>5. args'[k] = args[k]  BY <1>1, <3>1 DEF Strikes
    <3>6. QED  BY <3>3, <3>4, <3>5
  <2>2. CASE k = i
    <3>1. Open(k) /\ Dashed(argv[k])  BY <1>4, <1>5, <2>2 DEF RuledAt
    <3>2. args'[k] = NULL  BY <1>1, <2>2 DEF Strikes
    <3>3. QED  BY <3>1, <3>2
  <2>3. CASE k > i
    <3>1. k \in i + 1 .. Len(argv) /\ k # i /\ i \in 1 .. k - 1  BY <1>1, <1>2, <2>3
    <3>2. ~Open(k)  BY <1>6, <3>1 DEF Open
    <3>3. args'[k] = args[k] /\ args[k] = argv[k] /\ argv[k] # NULL
      BY <1>1, <1>5, <3>1, ArgTypes DEF Strikes
    <3>4. QED  BY <3>2, <3>3
  <2>4. QED  BY <1>2, <2>1, <2>2, <2>3
<1>8. Len(args') = Len(argv) /\ ~Scanning'  BY <1>1 DEF Strikes, Scanning
<1>9. QED  BY <1>1, <1>7, <1>8, LeftRuled

LEMMA EndRuled ==
  ASSUME Types, Counted, Ruled, ScanEnds
  PROVE  Ruled'
<1>1. UNCHANGED <<kind, argv, args>> /\ pc = "scan" /\ pc' = "parsed" /\ i > Len(args)
  BY DEF ScanEnds
<1>2. Len(args) = Len(argv) /\ Len(argv) \in Nat /\ i \in Nat /\ i <= Len(argv) + 1
  BY <1>1, ArgTypes DEF Types, Counted
<1>3. RuledAt(i) /\ i - 1 = Len(argv)  BY <1>1, <1>2 DEF Ruled, Scanning
<1>4. ASSUME NEW k \in 1 .. Len(argv)
      PROVE  args'[k] # NULL <=> ~Open(k) \/ ~(IsValue(k) \/ Dashed(argv[k]))
  <2>1. \A n \in 1 .. k - 1 : n \in 1 .. i - 1  BY <1>2, <1>3
  <2>2. Open(k)  BY <1>3, <2>1 DEF RuledAt, Open
  <2>3. args[k] = NULL <=> IsValue(k) \/ Dashed(argv[k])  BY <1>3 DEF RuledAt, Passed
  <2>4. QED  BY <1>1, <2>2, <2>3
<1>5. ~Scanning'  BY <1>1 DEF Scanning
<1>6. QED  BY <1>1, <1>2, <1>4, <1>5, LeftRuled

LEMMA ScanRuled == Types /\ Counted /\ Ruled /\ Scan => Ruled'
<1> SUFFICES ASSUME Types, Counted, Ruled, Scan PROVE Ruled'
  OBVIOUS
<1>r. Rejects => Ruled'  BY DEF Rejects, Ruled, Scanning, Parsed
<1>1. CASE SkipValue \/ Plain \/ Cluster
  <2>1. /\ UNCHANGED <<kind, argv, args>> /\ i \in 1 .. Len(argv) /\ Arg = args[i] /\ pc = "scan" /\ Scanning
        /\ \/ SkipValue /\ Arg = NULL /\ i' = i + 1 /\ pc' = "scan"
           \/ Plain /\ Arg # NULL /\ ~Dashed(Arg) /\ i' = i + 1 /\ pc' = "scan"
           \/ Cluster /\ i' = i /\ pc' = "cluster"
    BY <1>1, PlainCases DEF Scanning
  <2>2. RuledAt(i) /\ i <= Len(argv) /\ Len(argv) \in Nat /\ i \in Nat
    BY <2>1, ArgTypes DEF Ruled
  <2>3. IsValue(i) <=> args[i] = NULL  BY <2>2 DEF RuledAt
  <2>4. i < Len(argv) => args[i + 1] # NULL
    <3>1. \A k \in i + 1 .. Len(argv) : args[k] = argv[k]  BY <2>1 DEF Counted
    <3>2. i < Len(argv) => i + 1 \in i + 1 .. Len(argv) /\ i + 1 \in 1 .. Len(argv)  BY <2>2
    <3>3. QED  BY <3>1, <3>2, ArgTypes
  <2>5. CASE SkipValue /\ Arg = NULL /\ i' = i + 1 /\ pc' = "scan"
    <3>1. IsValue(i) /\ ~Closes(i)  BY <2>1, <2>3, <2>5 DEF Closes
    <3>2. ~Parsed'  BY <2>5 DEF Parsed
    <3>3. QED  BY <2>1, <2>4, <2>5, <3>1, <3>2, AdvanceRuled
  <2>6. CASE Plain /\ Arg # NULL /\ ~Dashed(Arg) /\ i' = i + 1 /\ pc' = "scan"
    <3>1. Arg = argv[i] /\ ~Dashed(argv[i]) /\ argv[i] \in Item  BY <2>1, <2>6, ArgTypes
    <3>2. ~Closes(i) /\ ~TakesNext(argv[i])  BY <3>1, LongTexts DEF Closes
    <3>3. ~Parsed' /\ ~IsValue(i)  BY <2>1, <2>3, <2>6 DEF Parsed
    <3>4. QED  BY <2>1, <2>4, <2>6, <3>1, <3>2, <3>3, AdvanceRuled
  <2>7. CASE Cluster /\ i' = i /\ pc' = "cluster"
    <3>1. ~Parsed'  BY <2>7 DEF Parsed
    <3>2. QED  BY <2>1, <2>7, <3>1, StayRuled
  <2>8. QED  BY <2>1, <2>5, <2>6, <2>7
<1>2. CASE Stop  BY <1>2, StopRuled
<1>3. CASE ScanEnds  BY <1>3, EndRuled
<1>4. CASE LongOption
  <2>1. /\ pc = "scan" /\ i \in 1 .. Len(argv) /\ Scanning /\ IsLong /\ ~Singleton
        /\ Arg = args[i] /\ Arg \in Item
    <3>1. pc = "scan" /\ i <= Len(args) /\ IsLong /\ ~Singleton  BY <1>4 DEF LongOption
    <3>2. QED  BY <3>1, NextTypes DEF Scanning, Arg
  <2>2. UNCHANGED <<kind, argv>> /\ (Rejects \/ \E h : Alone(h) \/ WithNext(h))  BY <1>4, LongCases
  <2>3. Len(Arg) > 2 /\ Arg[1] = Dash /\ ~Ends(Arg) /\ Arg # NULL
    <3>1. Len(Arg) > 2 /\ Arg \in Item /\ Len(Arg) \in Nat  BY <2>1, NameEnds, LongTexts
    <3>2. Arg[1] = Dash  BY <2>1 DEF IsLong, IsOption
    <3>3. ~Ends(Arg)  BY <2>1, <3>1 DEF IsLong, Singleton, Ends
    <3>4. Len(Arg) > 1  BY <3>1
    <3>5. QED  BY <3>1, <3>2, <3>3, <3>4, LongTexts
  <2>4. Arg = argv[i] /\ Dashed(argv[i]) /\ ~Closes(i)
    <3>1. Arg = argv[i]  BY <2>1, <2>3, ArgTypes
    <3>2. Len(Arg) \in Nat  BY <2>1, LenProperties DEF Item
    <3>3. QED  BY <2>3, <3>1, <3>2 DEF Closes, Dashed
  <2>5. RuledAt(i) /\ i <= Len(argv) /\ Len(argv) \in Nat /\ i \in Nat
    BY <2>1, ArgTypes DEF Ruled
  <2>6. ~IsValue(i)  BY <2>1, <2>3, <2>5 DEF RuledAt
  <2>7. i < Len(argv) => /\ args[i + 1] # NULL /\ i + 1 \in 1 .. Len(argv)
    <3>1. \A k \in i + 1 .. Len(argv) : args[k] = argv[k]  BY <2>1 DEF Counted
    <3>2. i < Len(argv) => i + 1 \in i + 1 .. Len(argv) /\ i + 1 \in 1 .. Len(argv)  BY <2>5
    <3>3. QED  BY <3>1, <3>2, ArgTypes
  <2>8. \A k \in 1 .. i - 1 : k \in 1 .. Len(argv) /\ k \notin {i} /\ k \notin {i, i + 1}  BY <2>5
  <2>9. i + 1 # i  BY <2>5
  <2>10. ASSUME NEW h, Alone(h) PROVE Ruled'
    <3>1. Strikes({i}) /\ i' = i + 1 /\ ~Parsed' /\ ~TakesNext(argv[i])
      BY <2>4, <2>10 DEF Alone, Advances, Parsed
    <3>2. \A k \in 1 .. i - 1 : args'[k] = args[k]  BY <2>8, <3>1 DEF Strikes
    <3>3. args'[i] = NULL  BY <2>1, <3>1 DEF Strikes
    <3>4. i < Len(argv) => args'[i + 1] # NULL  BY <2>7, <2>9, <3>1 DEF Strikes
    <3>5. QED  BY <2>1, <2>2, <2>4, <3>1, <3>2, <3>3, <3>4, AdvanceRuled
  <2>11. ASSUME NEW h, WithNext(h) PROVE Ruled'
    <3>1. Strikes({i, i + 1}) /\ i' = i + 1 /\ ~Parsed' /\ TakesNext(argv[i])
      BY <2>4, <2>11 DEF WithNext, Advances, Parsed
    <3>2. \A k \in 1 .. i - 1 : args'[k] = args[k]  BY <2>8, <3>1 DEF Strikes
    <3>3. args'[i] = NULL  BY <2>1, <3>1 DEF Strikes
    <3>4. i < Len(argv) => args'[i + 1] = NULL  BY <2>7, <3>1 DEF Strikes
    <3>5. QED  BY <2>1, <2>2, <2>4, <2>6, <3>1, <3>2, <3>3, <3>4, AdvanceRuled
  <2>12. QED  BY <1>r, <2>2, <2>10, <2>11
<1>5. CASE ClusterEnds
  <2>1. UNCHANGED <<kind, argv, j>> /\ pc = "cluster" /\ Scanning /\ j > Len(Arg) /\ Advances({i})
    BY <1>5, ClusterEndsCase DEF Scanning
  <2>2. i \in 1 .. Len(argv) /\ Arg = argv[i] /\ args[i] = argv[i] /\ InCluster(argv[i])
    BY <2>1, ClusterTypes DEF Counted
  <2>3. Strikes({i}) /\ i' = i + 1 /\ ~Parsed'  BY <2>1 DEF Advances, Parsed
  <2>4. RuledAt(i) /\ i <= Len(argv) /\ Len(argv) \in Nat /\ i \in Nat
    BY <2>1, <2>2, ArgTypes DEF Ruled
  <2>5. ~IsValue(i)
    <3>1. args[i] # NULL  BY <2>2, ArgTypes
    <3>2. QED  BY <2>4, <3>1 DEF RuledAt
  <2>6. Dashed(argv[i]) /\ ~Closes(i)  BY <2>2 DEF InCluster, Closes, Ends
  <2>7. i < Len(argv) => (args'[i + 1] = NULL <=> TakesNext(argv[i]))
    <3>1. i < Len(argv) => i + 1 \in 1 .. Len(argv) /\ i + 1 # i  BY <2>4
    <3>2. i < Len(argv) => args'[i + 1] = args[i + 1]  BY <2>3, <3>1 DEF Strikes
    <3>3. i < Len(argv) => (TakesNext(argv[i]) <=> args[i + 1] = NULL)  BY <2>1, <2>2 DEF InCluster
    <3>4. QED  BY <3>2, <3>3
  <2>8. \A k \in 1 .. i - 1 : args'[k] = args[k]
    <3>1. \A k \in 1 .. i - 1 : k \in 1 .. Len(argv) /\ k # i  BY <2>4
    <3>2. QED  BY <2>3, <3>1 DEF Strikes
  <2>9. args'[i] = NULL  BY <2>2, <2>3 DEF Strikes
  <2>10. QED  BY <2>1, <2>2, <2>3, <2>5, <2>6, <2>7, <2>8, <2>9, AdvanceRuled
<1>6. CASE UnknownFlag \/ Flag \/ FlagWithRest \/ FlagWithNext
  <2>1. pc = "cluster" /\ Scanning
    BY <1>6 DEF UnknownFlag, Flag, FlagWithRest, FlagWithNext, Scanning
  <2>2. UNCHANGED <<kind, argv>> /\ (Rejects \/ \E h : PlainFlag(h) \/ RestFlag(h) \/ NextFlag(h))
    BY <1>6, <2>1, FlagCases
  <2>3. i \in 1 .. Len(argv) /\ Len(argv) \in Nat /\ i \in Nat  BY <2>1, ClusterTypes, ArgTypes DEF Types
  <2>4. ASSUME NEW h, PlainFlag(h) \/ RestFlag(h) \/ NextFlag(h) PROVE Ruled'
    <3>1. i' = i /\ pc' = pc /\ (args' = args \/ Strikes({i + 1}))
      BY <2>4 DEF PlainFlag, RestFlag, NextFlag
    <3>2. \A k \in 1 .. i : args'[k] = args[k]
      <4>1. \A k \in 1 .. i : k \in 1 .. Len(argv) /\ k # i + 1  BY <2>3
      <4>2. QED  BY <3>1, <4>1 DEF Strikes
    <3>3. ~Parsed'  BY <2>1, <3>1 DEF Parsed
    <3>4. QED  BY <2>1, <2>2, <2>3, <3>1, <3>2, <3>3, StayRuled
  <2>5. QED  BY <1>r, <2>2, <2>4
<1>7. QED  BY <1>1, <1>2, <1>3, <1>4, <1>5, <1>6 DEF Scan

-----------------------------------------------------------------------------
(* What is taken.                                                          *)

(* A handler that is called takes an argument that none took before, if any. *)
LEMMA OnceKept ==
  ASSUME Types, Once,
         \A k \in Nat \ {0} : Taken(k) => Taken(k)',
         calls' = calls \/ \E h : /\ Called(h)
                                  /\ \A k \in Nat \ {0} : h.from = k => ~Taken(k) /\ Taken(k)'
  PROVE  Once'
<1> DEFINE from(n) == calls[n].from
<1>1. calls \in Seq(Handled) /\ Len(calls) \in Nat /\ \A n \in 1 .. Len(calls) : from(n) \in Nat
  <2>1. calls \in Seq(Handled) /\ Len(calls) \in Nat  BY LenProperties DEF Types
  <2>2. \A n \in 1 .. Len(calls) : calls[n] \in Handled  BY <2>1, ElementOfSeq
  <2>3. QED  BY <2>1, <2>2 DEF Handled
<1>2. /\ \A m, n \in 1 .. Len(calls) : from(m) # 0 /\ from(m) = from(n) => m = n
      /\ \A n \in 1 .. Len(calls) : from(n) # 0 => Taken(from(n))
  BY DEF Once
<1>3. CASE calls' = calls
  <2>1. \A n \in 1 .. Len(calls) : \A k \in Nat \ {0} : calls'[n].from = k => Taken(k)'
    BY <1>1, <1>2, <1>3
  <2>2. ASSUME NEW n \in 1 .. Len(calls'), calls'[n].from # 0 PROVE Taken(calls[n].from)'
    <3>1. PICK k \in Nat \ {0} : calls'[n].from = k  BY <1>1, <1>3, <2>2
    <3>2. Taken(k)'  BY <1>3, <2>1, <3>1
    <3>3. QED  BY <3>1, <3>2 DEF Taken
  <2>3. \A m, n \in 1 .. Len(calls') : calls'[m].from # 0 /\ calls'[m].from = calls'[n].from => m = n
    BY <1>2, <1>3
  <2>4. QED  BY <2>2, <2>3 DEF Once
<1>4. CASE \E h : /\ Called(h)
                  /\ \A k \in Nat \ {0} : h.from = k => ~Taken(k) /\ Taken(k)'
  <2> DEFINE l == Len(calls)
  <2>1. PICK h : /\ Called(h)
                 /\ \A k \in Nat \ {0} : h.from = k => ~Taken(k) /\ Taken(k)'
    BY <1>4
  <2>2. h \in Handled /\ calls' = Append(calls, h)  BY <2>1 DEF Called
  <2>3. /\ Len(calls') = l + 1 /\ calls'[l + 1] = h
        /\ \A n \in 1 .. l : calls'[n] = calls[n]
    BY <1>1, <2>2, AppendProperties
  <2>4. h.from \in Nat  BY <2>2 DEF Handled
  <2>5. \A n \in 1 .. Len(calls') : n \in 1 .. l \/ n = l + 1  BY <1>1, <2>3
  <2>6. \A n \in 1 .. l : from(n) # 0 => from(n) # h.from
    <3>1. SUFFICES ASSUME NEW n \in 1 .. l, from(n) # 0, from(n) = h.from PROVE FALSE
      OBVIOUS
    <3>2. PICK k \in Nat \ {0} : k = from(n)  BY <1>1, <3>1
    <3>3. Taken(k)  BY <1>2, <3>1, <3>2
    <3>4. QED  BY <2>1, <3>1, <3>2, <3>3
  <2>7. \A m, n \in 1 .. Len(calls') : calls'[m].from # 0 /\ calls'[m].from = calls'[n].from => m = n
    BY <1>2, <2>3, <2>5, <2>6
  <2>8. ASSUME NEW n \in 1 .. Len(calls'), calls'[n].from # 0 PROVE Taken(calls[n].from)'
    <3>1. calls'[n].from \in Nat  BY <1>1, <2>3, <2>4, <2>5
    <3>2. PICK k \in Nat \ {0} : calls'[n].from = k  BY <2>8, <3>1
    <3>3. Taken(k)'
      <4>1. CASE n \in 1 .. l
        <5>1. Taken(k)  BY <1>2, <2>3, <3>2, <4>1
        <5>2. QED  BY <5>1
      <4>2. CASE n = l + 1  BY <2>1, <2>3, <3>2, <4>2
      <4>3. QED  BY <2>5, <4>1, <4>2
    <3>4. QED  BY <3>2, <3>3 DEF Taken
  <2>9. QED  BY <2>7, <2>8 DEF Once
<1>5. QED  BY <1>3, <1>4

LEMMA ScanOnce == Types /\ Counted /\ Once /\ Scan => Once'
<1> SUFFICES ASSUME Types, Counted, Once, Scan PROVE Once'
  OBVIOUS
<1>1. Len(argv) \in Nat /\ i \in Nat \ {0} /\ i + 1 \in Nat \ {0} /\ ~(i + 1 <= i) /\ i + 1 # i /\ ~(i < i)
      /\ i <= i + 1 /\ ~(i + 1 < i) /\ i + 1 <= i + 1
  BY ArgTypes DEF Types
<1>2. ASSUME NEW S, Strikes(S), NEW k \in Nat \ {0}, k <= Len(argv), args[k] = NULL \/ k \in S
      PROVE  args'[k] = NULL
  BY <1>1, <1>2 DEF Strikes
<1>3. ASSUME Rejects, argv' = argv, ~Taken(i), ~Taken(i + 1) PROVE Once'
  <2>1. \A k : k <= Len(argv) => Taken(k)'  BY <1>3 DEF Taken, Rejects, Parsed
  <2>2. \A k \in Nat \ {0} : Taken(k) => Taken(k)'  BY <2>1 DEF Taken
  <2>3. ASSUME NEW h, h.from \in {i, i + 1}, h.from <= Len(argv), NEW k \in Nat \ {0}, h.from = k
        PROVE  ~Taken(k) /\ Taken(k)'
    BY <1>3, <2>1, <2>3
  <2>4. QED  BY <1>3, <2>2, <2>3, OnceKept DEF Rejects
<1>4. CASE SkipValue \/ Plain \/ Cluster
  <2>1. /\ UNCHANGED <<argv, args, calls>> /\ pc = "scan" /\ Arg = args[i]
        /\ \/ i' = i + 1 /\ pc' = "scan"
           \/ Arg # NULL /\ i' = i /\ pc' = "cluster"
    BY <1>4, PlainCases
  <2>2. ASSUME NEW k \in Nat \ {0}, Taken(k) PROVE Taken(k)'
    <3>1. k <= Len(argv) /\ k <= i /\ args[k] = NULL  BY <2>1, <2>2 DEF Taken
    <3>2. k <= i + 1 /\ (k # i => k < i)  BY <1>1, <3>1
    <3>3. CASE i' = i + 1 /\ pc' = "scan"  BY <2>1, <3>1, <3>2, <3>3 DEF Taken, Parsed
    <3>4. CASE Arg # NULL /\ i' = i /\ pc' = "cluster"
      <4>1. k < i  BY <2>1, <3>1, <3>2, <3>4
      <4>2. QED  BY <2>1, <3>1, <3>4, <4>1 DEF Taken, Parsed
    <3>5. QED  BY <2>1, <3>3, <3>4
  <2>3. QED  BY <2>1, <2>2, OnceKept
<1>5. CASE Stop \/ ScanEnds
  <2>1. argv' = argv /\ calls' = calls /\ pc = "scan" /\ pc' = "parsed" /\ \E S : Strikes(S)
    <3>1. CASE Stop  BY <3>1, StopCase
    <3>2. CASE ScanEnds  BY <3>2, StrikesNothing DEF ScanEnds
    <3>3. QED  BY <1>5, <3>1, <3>2
  <2>2. ASSUME NEW k \in Nat \ {0}, Taken(k) PROVE Taken(k)'
    <3>1. k <= Len(argv) /\ args[k] = NULL  BY <2>1, <2>2 DEF Taken
    <3>2. args'[k] = NULL  BY <1>2, <2>1, <3>1
    <3>3. QED  BY <2>1, <3>1, <3>2 DEF Taken, Parsed
  <2>3. QED  BY <2>1, <2>2, OnceKept
<1>6. CASE LongOption
  <2>1. pc = "scan" /\ i \in 1 .. Len(argv) /\ IsLong /\ ~Singleton /\ Arg \in Item
    <3>1. pc = "scan" /\ i <= Len(args) /\ IsLong /\ ~Singleton  BY <1>6 DEF LongOption
    <3>2. QED  BY <3>1, NextTypes
  <2>2. argv' = argv /\ (Rejects \/ \E h : Alone(h) \/ WithNext(h))  BY <1>6, LongCases
  <2>3. args[i] # NULL
    <3>1. Len(Arg) > 2 /\ Len(Arg) \in Nat  BY <2>1, NameEnds, LongTexts
    <3>2. Len(Arg) > 1  BY <3>1
    <3>3. QED  BY <2>1, <3>2, LongTexts DEF Arg
  <2>4. ~Taken(i) /\ ~Taken(i + 1)  BY <1>1, <2>1, <2>3 DEF Taken
  <2>5. ASSUME NEW h, NEW S, Called(h), Advances(S), i \in S,
               h.from \in {0, i} \/ (h.from = i + 1 /\ i + 1 \in S /\ i < Len(argv))
        PROVE  Once'
    <3>1. Strikes(S) /\ i' = i + 1 /\ pc' = "scan"  BY <2>5 DEF Advances
    <3>2. ASSUME NEW k \in Nat \ {0}, k <= Len(argv), k <= i + 1, args[k] = NULL \/ k \in S PROVE Taken(k)'
      <4>1. args'[k] = NULL  BY <1>2, <3>1, <3>2
      <4>2. QED  BY <2>2, <3>1, <3>2, <4>1 DEF Taken, Parsed
    <3>3. ASSUME NEW k \in Nat \ {0}, Taken(k) PROVE Taken(k)'
      <4>1. k <= Len(argv) /\ k <= i /\ args[k] = NULL  BY <2>1, <3>3 DEF Taken
      <4>2. k <= i + 1  BY <1>1, <4>1
      <4>3. QED  BY <3>2, <4>1, <4>2
    <3>4. i <= Len(argv) /\ (i < Len(argv) => i + 1 <= Len(argv))  BY <1>1, <2>1
    <3>5. ASSUME NEW k \in Nat \ {0}, h.from = k PROVE ~Taken(k) /\ Taken(k)'
      <4>1. CASE k = i
        <5>1. Taken(k)'  BY <1>1, <2>5, <3>2, <3>4, <4>1
        <5>2. QED  BY <2>4, <4>1, <5>1
      <4>2. CASE k = i + 1 /\ i + 1 \in S /\ i < Len(argv)
        <5>1. Taken(k)'  BY <1>1, <3>2, <3>4, <4>2
        <5>2. QED  BY <2>4, <4>2, <5>1
      <4>3. QED  BY <2>5, <3>5, <4>1, <4>2
    <3>6. QED  BY <2>5, <3>3, <3>5, OnceKept
  <2>6. ASSUME NEW h, Alone(h) PROVE Once'
    <3>1. i \in {i}  OBVIOUS
    <3>2. QED  BY <2>5, <2>6, <3>1 DEF Alone
  <2>7. ASSUME NEW h, WithNext(h) PROVE Once'
    <3>1. i \in {i, i + 1} /\ i + 1 \in {i, i + 1}  OBVIOUS
    <3>2. QED  BY <2>5, <2>7, <3>1 DEF WithNext
  <2>8. QED  BY <1>3, <2>2, <2>4, <2>6, <2>7
<1>7. CASE ClusterEnds
  <2>1. /\ UNCHANGED <<argv, calls>> /\ pc = "cluster" /\ Strikes({i}) /\ i' = i + 1 /\ pc' = "scan"
    BY <1>7, ClusterEndsCase DEF Advances
  <2>2. ASSUME NEW k \in Nat \ {0}, Taken(k) PROVE Taken(k)'
    <3>1. k <= Len(argv) /\ (\/ k < i /\ args[k] = NULL
                             \/ k = i
                             \/ k = i + 1 /\ args[k] = NULL)
      BY <2>1, <2>2 DEF Taken
    <3>2. k <= i + 1  BY <1>1, <3>1
    <3>3. args'[k] = NULL  BY <1>2, <2>1, <3>1
    <3>4. QED  BY <2>1, <3>1, <3>2, <3>3 DEF Taken, Parsed
  <2>3. QED  BY <2>1, <2>2, OnceKept
<1>8. CASE UnknownFlag \/ Flag \/ FlagWithRest \/ FlagWithNext
  <2>1. pc = "cluster"  BY <1>8 DEF UnknownFlag, Flag, FlagWithRest, FlagWithNext
  <2>2. /\ argv' = argv
        /\ Rejects \/ \E h : PlainFlag(h) \/ RestFlag(h) \/ NextFlag(h)
    BY <1>8, <2>1, FlagCases
  <2>3. /\ i \in 1 .. Len(argv) /\ Arg = argv[i] /\ Len(Arg) \in Nat /\ j \in 2 .. Len(Arg) + 1
    BY <2>1, ClusterTypes
  <2>4. j <= Len(Arg)
    BY <1>8, <2>3 DEF UnknownFlag, Flag, FlagWithRest, FlagWithNext
  <2>5. ~(j > Len(argv[i]))  BY <2>3, <2>4
  <2>6. ~Taken(i) /\ ~Taken(i + 1)  BY <1>1, <2>1, <2>5 DEF Taken
  <2>7. ASSUME NEW h, PlainFlag(h) \/ RestFlag(h) \/ NextFlag(h) PROVE Once'
    <3>1. Called(h) /\ i' = i /\ pc' = "cluster" /\ \E S : Strikes(S)
      BY <2>1, <2>7, StrikesNothing DEF PlainFlag, RestFlag, NextFlag
    <3>2. ASSUME NEW k \in Nat \ {0}, Taken(k) PROVE Taken(k)'
      <4>1. k <= Len(argv) /\ k < i /\ args[k] = NULL  BY <2>1, <2>5, <3>2 DEF Taken
      <4>2. args'[k] = NULL  BY <1>2, <3>1, <4>1
      <4>3. QED  BY <2>2, <3>1, <4>1, <4>2 DEF Taken, Parsed
    <3>3. ASSUME NEW k \in Nat \ {0}, h.from = k PROVE ~Taken(k) /\ Taken(k)'
      <4>1. CASE PlainFlag(h)  BY <3>3, <4>1 DEF PlainFlag
      <4>2. CASE RestFlag(h)
        <5>1. k = i /\ j' = Len(argv[i]) + 1 /\ k <= Len(argv)  BY <2>3, <3>3, <4>2 DEF RestFlag
        <5>2. j' > Len(argv[i])  BY <2>3, <5>1
        <5>3. Taken(k)'  BY <2>2, <3>1, <5>1, <5>2 DEF Taken, Parsed
        <5>4. QED  BY <2>6, <5>1, <5>3
      <4>3. CASE NextFlag(h)
        <5>1. k = i + 1 /\ i < Len(argv) /\ j = Len(Arg) /\ j' = j + 1 /\ Strikes({i + 1})
          BY <3>3, <4>3 DEF NextFlag
        <5>2. j' > Len(argv[i]) /\ k <= Len(argv)  BY <1>1, <2>3, <5>1
        <5>3. args'[k] = NULL  BY <1>2, <5>1, <5>2
        <5>4. Taken(k)'  BY <2>2, <3>1, <5>1, <5>2, <5>3 DEF Taken, Parsed
        <5>5. QED  BY <2>6, <5>1, <5>4
      <4>4. QED  BY <2>7, <4>1, <4>2, <4>3
    <3>4. QED  BY <3>1, <3>2, <3>3, OnceKept
  <2>8. QED  BY <1>3, <2>2, <2>6, <2>7
<1>9. QED  BY <1>4, <1>5, <1>6, <1>7, <1>8 DEF Scan

-----------------------------------------------------------------------------
(* What is printed.                                                        *)

LEMMA ScanPrinted == Types /\ Counted /\ Scan => Printed'
<1> SUFFICES ASSUME Types, Counted, Scan PROVE pc' \notin {"files", "strings", "done"}
  BY DEF Printed
<1>1. CASE SkipValue \/ Plain \/ Cluster  BY <1>1, PlainCases
<1>2. CASE Stop  BY <1>2, StopCase
<1>3. CASE LongOption
  <2>1. Rejects \/ \E h : Alone(h) \/ WithNext(h)  BY <1>3, LongCases
  <2>2. QED  BY <2>1 DEF Rejects, Alone, WithNext, Advances
<1>4. CASE UnknownFlag \/ Flag \/ FlagWithRest \/ FlagWithNext
  <2>1. pc = "cluster"  BY <1>4 DEF UnknownFlag, Flag, FlagWithRest, FlagWithNext
  <2>2. Rejects \/ \E h : PlainFlag(h) \/ RestFlag(h) \/ NextFlag(h)  BY <1>4, <2>1, FlagCases
  <2>3. QED  BY <2>1, <2>2 DEF Rejects, PlainFlag, RestFlag, NextFlag
<1>5. CASE ClusterEnds  BY <1>5, ClusterEndsCase DEF Advances
<1>6. CASE ScanEnds  BY <1>6 DEF ScanEnds
<1>7. QED  BY <1>1, <1>2, <1>3, <1>4, <1>5, <1>6 DEF Scan

(* What there is to read and what the strings are depends on what is left and what was *)
(* called.                                                                              *)
LEMMA SameRows ==
  ASSUME UNCHANGED <<args, calls>>
  PROVE  Readable' = Readable /\ Offset' = Offset /\ sums' = sums /\ SumCalls' = SumCalls
<1>1. SumCalls' = SumCalls /\ Left' = Left  BY DEF SumCalls, Left
<1>2. Given("echo")' <=> Given("echo")  BY DEF Given
<1>3. Given("sum")' <=> Given("sum")  BY DEF Given
<1>4. sums' = sums  BY <1>1 DEF sums
<1>5. Files' = Files  BY <1>1 DEF Files
<1>6. QED  BY <1>1, <1>2, <1>3, <1>4, <1>5 DEF Readable, Offset

(* Nothing is shown at first. *)
LEMMA ShowNothing ==
  ASSUME printed = <<>>, ret = 0
  PROVE  Shown(0, 0)
<1>1. Cardinality({}) = 0  BY FS_EmptySet
<1>2. Rows({}, 0)  BY <1>1 DEF Rows
<1>3. {} \in SUBSET (1 .. 0) /\ ret = 0 - Cardinality({})  BY <1>1
<1>4. QED  BY <1>2, <1>3 DEF Shown

LEMMA ShowSame ==
  ASSUME UNCHANGED <<args, calls, printed, ret>>, NEW upto, NEW strings, Shown(upto, strings)
  PROVE  Shown(upto, strings)'
<1>1. Readable' = Readable /\ sums' = sums  BY SameRows
<1>2. QED  BY <1>1 DEF Shown, Rows

(* One more was to be read. *)
LEMMA ShowFile ==
  ASSUME Types, UNCHANGED <<args, calls>>, NEW upto \in Nat, Shown(upto, 0),
         \/ printed' = Append(printed, Readable[upto + 1]) /\ ret' = ret
         \/ printed' = printed /\ ret' = ret + 1,
         Readable[upto + 1] \in Item
  PROVE  Shown(upto + 1, 0)'
<1>1. Readable' = Readable /\ sums' = sums  BY SameRows
<1>2. PICK read \in SUBSET (1 .. upto) : Rows(read, 0) /\ ret = upto - Cardinality(read)  BY DEF Shown
<1>3. IsFiniteSet(1 .. upto)
  <2>1. 1 \in Int /\ upto \in Int  OBVIOUS
  <2>2. QED  BY <2>1, FS_Interval
<1>4. read \in SUBSET Nat /\ IsFiniteSet(read) /\ \A m \in read : m < upto + 1
  <2>1. IsFiniteSet(read)  BY <1>2, <1>3, FS_Subset
  <2>2. \A m \in read : m \in 1 .. upto  BY <1>2
  <2>3. \A m \in read : m \in Nat /\ m < upto + 1  BY <2>2
  <2>4. QED  BY <2>1, <2>3
<1> DEFINE c == Cardinality(read)
           more == read \cup {upto + 1}
<1>5. c \in Nat  BY <1>4, FS_CardinalityType
<1>6. printed \in Seq(Item) /\ Len(printed) = c /\ \A n \in 1 .. c : printed[n] = Readable[Nth(read, n)]
  BY <1>2, <1>5 DEF Rows, Types
<1>7. CASE printed' = Append(printed, Readable[upto + 1]) /\ ret' = ret
  <2>1. /\ Cardinality(more) = c + 1
        /\ \A n \in 1 .. c : Nth(more, n) = Nth(read, n)
        /\ Nth(more, c + 1) = upto + 1
    <3>1. upto + 1 \in Nat  OBVIOUS
    <3>2. QED  BY <1>4, <3>1, RankLast
  <2>2. more \in SUBSET (1 .. upto + 1)  BY <1>2
  <2>3. ret = upto - c  BY <1>2
  <2> HIDE DEF c, more
  <2>4. /\ Len(printed') = c + 1 /\ printed'[c + 1] = Readable[upto + 1]
        /\ \A n \in 1 .. c : printed'[n] = printed[n]
    BY <1>6, <1>7, AppendProperties
  <2>5. \A n \in 1 .. c + 1 : n \in 1 .. c \/ n = c + 1  BY <1>5
  <2>6. \A n \in 1 .. c + 1 : printed'[n] = Readable[Nth(more, n)]
    BY <1>6, <2>1, <2>4, <2>5
  <2>7. \A n \in 1 .. 0 : FALSE  OBVIOUS
  <2>8. c + 1 + 0 = c + 1  BY <1>5
  <2>9. Rows(more, 0)'  BY <1>1, <2>1, <2>4, <2>6, <2>7, <2>8 DEF Rows
  <2>10. ret' = (upto + 1) - Cardinality(more)  BY <1>5, <1>7, <2>1, <2>3
  <2>11. QED  BY <2>2, <2>9, <2>10 DEF Shown
<1>8. CASE printed' = printed /\ ret' = ret + 1
  <2>1. Rows(read, 0)'  BY <1>1, <1>2, <1>8 DEF Rows
  <2>2. read \in SUBSET (1 .. upto + 1)  BY <1>2
  <2>3. ret' = (upto + 1) - Cardinality(read)
    <3>1. ret = upto - c  BY <1>2
    <3> HIDE DEF c
    <3>2. ret' = (upto + 1) - c  BY <1>5, <1>8, <3>1
    <3>3. QED  BY <3>2 DEF c
  <2>4. QED  BY <2>1, <2>2, <2>3 DEF Shown
<1>9. QED  BY <1>7, <1>8

(* One more string is shown. *)
LEMMA ShowString ==
  ASSUME Types, UNCHANGED <<args, calls>>, NEW upto \in Nat, NEW strings \in Nat, Shown(upto, strings),
         printed' = Append(printed, sums[strings + 1]), sums[strings + 1] \in Item, ret' = ret
  PROVE  Shown(upto, strings + 1)'
<1>1. Readable' = Readable /\ sums' = sums  BY SameRows
<1>2. PICK read \in SUBSET (1 .. upto) : Rows(read, strings) /\ ret = upto - Cardinality(read)
  BY DEF Shown
<1>3. IsFiniteSet(1 .. upto)
  <2>1. 1 \in Int /\ upto \in Int  OBVIOUS
  <2>2. QED  BY <2>1, FS_Interval
<1> DEFINE c == Cardinality(read)
<1>4. c \in Nat  BY <1>2, <1>3, FS_Subset, FS_CardinalityType
<1>5. /\ printed \in Seq(Item) /\ Len(printed) = c + strings
      /\ \A n \in 1 .. c : printed[n] = Readable[Nth(read, n)]
      /\ \A n \in 1 .. strings : printed[c + n] = sums[n]
  BY <1>2 DEF Rows, Types
<1> HIDE DEF c
<1>6. /\ Len(printed') = c + strings + 1 /\ printed'[c + strings + 1] = sums[strings + 1]
      /\ \A n \in 1 .. c + strings : printed'[n] = printed[n]
  BY <1>5, AppendProperties
<1>7. /\ c + strings + 1 = c + (strings + 1)
      /\ \A n \in 1 .. c : n \in 1 .. c + strings
      /\ \A n \in 1 .. strings : c + n \in 1 .. c + strings
      /\ \A n \in 1 .. strings + 1 : n \in 1 .. strings \/ n = strings + 1
  BY <1>4
<1>8. \A n \in 1 .. c : printed'[n] = Readable[Nth(read, n)]  BY <1>5, <1>6, <1>7
<1>9. \A n \in 1 .. strings + 1 : printed'[c + n] = sums[n]  BY <1>5, <1>6, <1>7
<1>10. Rows(read, strings + 1)'  BY <1>1, <1>6, <1>7, <1>8, <1>9 DEF Rows, c
<1>11. QED  BY <1>2, <1>10 DEF Shown

(* Where the loop over the files is. *)
LEMMA FilesPrimed ==
  ASSUME kind' = "digest", UNCHANGED <<argv, args, calls>>, pc' = "files",
         NEW n \in Nat, n = i' + shift' - 1, i' \in Nat, shift' \in Nat, Len(argv) \in Nat, n <= Len(argv),
         i' - 1 = Cardinality(Kept(n)),
         NEW upto, upto = Offset + i' - 1, Shown(upto, 0)'
  PROVE  Printed'
<1>1. Offset' = Offset  BY SameRows
<1>2. (Shown(Offset + i - 1, 0))'  BY <1>1 DEF Shown, Rows
<1>3. (i - 1 = Cardinality(Kept(i + shift - 1)))'  BY DEF Kept
<1>4. (i + shift <= Len(argv) + 1)'  OBVIOUS
<1>5. QED  BY <1>2, <1>3, <1>4 DEF Printed

(* The standard input is read when it is the first that is to be read. *)
LEMMA ReadsFirst ==
  ASSUME Types, nbr = Cardinality(Left)
  PROVE  ReadsStdin <=> Offset = 1
<1>1. Left = {} <=> Cardinality(Left) = 0
  <2>1. IsFiniteSet(Left)  BY LeftTypes
  <2>2. QED  BY <2>1, FS_EmptySet
<1>2. sums = <<>> <=> ~Given("sum")
  <2>1. sums \in Seq(Item) /\ Len(sums) = Cardinality(SumCalls)  BY SumTypes
  <2>2. sums = <<>> <=> Len(sums) = 0  BY <2>1, EmptySeq
  <2>3. QED  BY <2>1, <2>2, SumTypes
<1>3. ReadsStdin <=> (Left = {} /\ ~Given("sum")) \/ Given("echo")
  BY <1>1, <1>2 DEF ReadsStdin
<1>4. QED  BY <1>3 DEF Offset

(* The first arguments are not more than all. *)
LEMMA KeptOfLeft ==
  ASSUME Types, NEW n \in Nat, n <= Len(argv)
  PROVE  /\ Cardinality(Kept(n)) <= Cardinality(Left)
         /\ n = Len(argv) => Kept(n) = Left
<1>1. Len(args) = Len(argv) /\ Len(argv) \in Nat  BY ArgTypes
<1>2. Kept(n) \in SUBSET Left  BY <1>1 DEF Kept, Left
<1>3. IsFiniteSet(Left)  BY LeftTypes
<1>4. Cardinality(Kept(n)) <= Cardinality(Left)  BY <1>2, <1>3, FS_Subset
<1>5. QED  BY <1>1, <1>4 DEF Kept, Left

(* The next file that is left is the next that is to be read. *)
LEMMA NextFile ==
  ASSUME Types, Counted, Printed, pc = "files", i <= nbr, i + shift <= Len(args),
         args[i + shift] # NULL
  PROVE  /\ i = Cardinality(Kept(i + shift))
         /\ Readable[Offset + i] = args[i + shift] /\ args[i + shift] \in Item
<1> DEFINE p == i + shift
           c == Cardinality(Left)
<1>1. /\ i \in Nat \ {0} /\ shift \in Nat /\ p \in Nat \ {0} /\ p - 1 \in Nat /\ (p - 1) + 1 = p
      /\ Len(args) = Len(argv) /\ Len(argv) \in Nat
  BY ArgTypes DEF Types
<1>2. i - 1 = Cardinality(Kept(p - 1))
  <2>1. i - 1 = Cardinality(Kept(i + shift - 1))  BY Zenon DEF Printed
  <2>2. i + shift - 1 = p - 1  BY <1>1
  <2>3. QED  BY <2>1, <2>2
<1>3. p \in 1 .. Len(argv) /\ p \in Left  BY <1>1 DEF Left
<1> HIDE DEF p
<1>4. Cardinality(Kept(p)) = Cardinality(Kept(p - 1)) + 1  BY <1>1, <1>3, KeptTypes DEF Left
<1>5. Cardinality(Kept(p)) = i  BY <1>1, <1>2, <1>4
<1>6. Kept(p) = {m \in Left : m <= p}
  <2>1. \A m \in 1 .. p : m \in 1 .. Len(args) /\ m <= p  BY <1>1, <1>3
  <2>2. \A m \in 1 .. Len(args) : m <= p => m \in 1 .. p  BY <1>1
  <2>3. QED  BY <2>1, <2>2 DEF Kept, Left
<1>7. Rank(Left, p) = i  BY <1>5, <1>6 DEF Rank
<1>8. Nth(Left, i) = p
  <2>1. Left \in SUBSET Nat /\ IsFiniteSet(Left)  BY LeftTypes
  <2>2. Nth(Left, Rank(Left, p)) = p  BY <1>3, <2>1, RankTells
  <2>3. QED  BY <1>7, <2>2
<1>9. i \in 1 .. c
  <2>1. nbr = c /\ c \in Nat  BY LeftTypes DEF Counted, Parsed
  <2>2. QED  BY <1>1, <2>1
<1>10. Readable[Offset + i] = args[Nth(Left, i)]  BY <1>9, ReadableTypes
<1>11. args[p] \in Item  BY <1>3, ArgTypes
<1>12. QED  BY <1>5, <1>8, <1>10, <1>11 DEF p

LEMMA CommandPrinted == Types /\ Counted /\ Printed /\ Command => Printed'
<1> SUFFICES ASSUME Types, Counted, Printed, Command PROVE Printed'
  OBVIOUS
<1>1. /\ Len(argv) \in Nat /\ Len(args) = Len(argv) /\ i \in Nat \ {0} /\ shift \in Nat
      /\ Offset \in Nat /\ i - 1 \in Nat /\ nbr \in Int /\ ret \in Nat
  BY ArgTypes, ReadableTypes DEF Types
<1>2. Cardinality(Left) \in Nat /\ Len(Readable) = Offset + Cardinality(Left) /\ Len(Readable) \in Nat
  BY <1>1, LeftTypes, ReadableTypes
<1>3. CASE Refuse \/ AskPassword \/ Accept
  <2>1. kind' # "digest" \/ pc' = "refused"
    BY <1>3 DEF Refuse, AskPassword, Accept, Error
  <2>2. pc' \notin {"files", "strings"}  BY <1>3 DEF Refuse, AskPassword, Accept, Error
  <2>3. QED  BY <2>1, <2>2 DEF Printed
<1>4. CASE DigestStdin \/ DigestNoStdin
  <2>1. /\ UNCHANGED <<kind, argv, args, nbr, j, calls, shift>> /\ kind = "digest" /\ pc = "parsed"
        /\ pc' = "files" /\ i' = 1
        /\ \/ ReadsStdin /\ (\/ printed' = Append(printed, Stdin) /\ ret' = ret
                             \/ printed' = printed /\ ret' = ret + 1)
           \/ ~ReadsStdin /\ printed' = printed /\ ret' = ret
    <3>1. pc = "parsed" => ret = 0 /\ 0 + 1 = 1  BY DEF Types
    <3>2. QED  BY <1>4, <3>1 DEF DigestStdin, DigestNoStdin, print_hash
  <2>2. printed = <<>> /\ shift = 0 /\ ret = 0 /\ nbr = Cardinality(Left)
    BY <2>1 DEF Types, Counted, Parsed
  <2>3. Shown(0, 0)  BY <2>2, ShowNothing
  <2>4. PICK upto : upto = Offset  OBVIOUS
  <2>5. Shown(upto, 0)'
    <3>1. CASE ReadsStdin
      <4>1. Offset = 1 /\ Readable[1] = Stdin /\ Stdin \in Item
        BY <2>2, <3>1, ReadsFirst, ReadableTypes, Literals
      <4>2. 0 + 1 = 1 /\ 0 \in Nat  OBVIOUS
      <4>3. Shown(0 + 1, 0)'  BY <2>1, <2>3, <3>1, <4>1, <4>2, ShowFile
      <4>4. upto = 0 + 1  BY <2>4, <4>1
      <4>5. QED  BY <4>3, <4>4
    <3>2. CASE ~ReadsStdin
      <4>1. upto = 0  BY <2>2, <2>4, <3>2, ReadsFirst, ReadableTypes
      <4>2. Shown(0, 0)'  BY <2>1, <2>3, <3>2, ShowSame
      <4>3. QED  BY <4>1, <4>2
    <3>3. QED  BY <3>1, <3>2
  <2>6. Cardinality(Kept(0)) = 0
    <3>1. Kept(0) = {}  BY DEF Kept
    <3>2. QED  BY <3>1, FS_EmptySet
  <2>7. 0 \in Nat /\ 0 = i' + shift' - 1 /\ i' \in Nat /\ shift' \in Nat /\ 0 <= Len(argv)
        /\ i' - 1 = 0
    BY <1>1, <2>1, <2>2
  <2>8. upto = Offset + i' - 1  BY <1>1, <2>1, <2>4
  <2>9. QED  BY <1>1, <2>1, <2>5, <2>6, <2>7, <2>8, FilesPrimed
<1>5. CASE DigestSkip
  <2>1. /\ UNCHANGED <<kind, argv, args, nbr, i, j, calls, printed, ret>> /\ pc = "files" /\ pc' = "files"
        /\ i + shift <= Len(argv) /\ args[i + shift] = NULL /\ shift' = shift + 1
    BY <1>1, <1>5 DEF DigestSkip
  <2>2. /\ kind = "digest" /\ i - 1 = Cardinality(Kept(i + shift - 1)) /\ Shown(Offset + i - 1, 0)
    BY <2>1 DEF Printed
  <2>3. PICK n, upto : n = i + shift /\ upto = Offset + i - 1  OBVIOUS
  <2>4. n \in Nat /\ n - 1 \in Nat /\ (n - 1) + 1 = n /\ n = i' + shift' - 1 /\ shift' \in Nat
        /\ upto = Offset + i' - 1 /\ i' \in Nat
    BY <1>1, <2>1, <2>3
  <2>5. Kept(n) = Kept(n - 1)
    <3>1. args[(n - 1) + 1] = NULL => Kept((n - 1) + 1) = Kept(n - 1)  BY <2>4, KeptTypes
    <3>2. QED  BY <2>1, <2>3, <2>4, <3>1
  <2>6. i' - 1 = Cardinality(Kept(n))
    <3>1. n - 1 = i + shift - 1  BY <1>1, <2>3
    <3>2. i - 1 = Cardinality(Kept(n - 1))  BY <2>2, <3>1
    <3>3. QED  BY <2>1, <2>5, <3>2
  <2>7. Shown(upto, 0)'  BY <2>1, <2>2, <2>3, ShowSame
  <2>8. QED  BY <1>1, <2>1, <2>2, <2>3, <2>4, <2>6, <2>7, FilesPrimed
<1>6. CASE DigestFile
  <2>1. /\ UNCHANGED <<kind, argv, args, nbr, j, calls, shift>> /\ pc = "files" /\ pc' = "files"
        /\ i <= nbr /\ i + shift <= Len(args) /\ args[i + shift] # NULL /\ i' = i + 1
        /\ \/ printed' = Append(printed, args[i + shift]) /\ ret' = ret
           \/ printed' = printed /\ ret' = ret + 1
    BY <1>6 DEF DigestFile, print_hash
  <2>2. kind = "digest" /\ Shown(Offset + i - 1, 0)  BY <2>1 DEF Printed
  <2>3. /\ i = Cardinality(Kept(i + shift))
        /\ Readable[Offset + i] = args[i + shift] /\ args[i + shift] \in Item
    BY <2>1, NextFile
  <2>4. PICK n, upto : n = i + shift /\ upto = Offset + i - 1  OBVIOUS
  <2>5. n \in Nat /\ n = i' + shift' - 1 /\ shift' \in Nat /\ i' \in Nat /\ upto \in Nat
        /\ upto + 1 = Offset + i /\ upto + 1 = Offset + i' - 1 /\ i' - 1 = i /\ n <= Len(argv)
    BY <1>1, <2>1, <2>4
  <2>6. Shown(upto + 1, 0)'  BY <2>1, <2>2, <2>3, <2>4, <2>5, ShowFile
  <2>7. PICK u : u = upto + 1  OBVIOUS
  <2>8. Shown(u, 0)'  BY <2>6, <2>7
  <2>9. i' - 1 = Cardinality(Kept(n))  BY <2>3, <2>4, <2>5
  <2>10. u = Offset + i' - 1  BY <2>5, <2>7
  <2>11. QED  BY <1>1, <2>1, <2>2, <2>5, <2>8, <2>9, <2>10, FilesPrimed
<1>7. CASE DigestFilesEnd
  <2>1. /\ UNCHANGED <<kind, argv, args, nbr, j, calls, shift, printed, ret>> /\ pc = "files"
        /\ i > nbr /\ pc' = "strings" /\ i' = 1
    BY <1>7 DEF DigestFilesEnd
  <2>2. /\ kind = "digest" /\ i + shift <= Len(argv) + 1 /\ i - 1 = Cardinality(Kept(i + shift - 1))
        /\ Shown(Offset + i - 1, 0) /\ nbr = Cardinality(Left)
    BY <2>1 DEF Printed, Counted, Parsed
  <2>3. i + shift - 1 \in Nat /\ i + shift - 1 <= Len(argv)  BY <1>1, <2>2
  <2>4. i - 1 <= Cardinality(Left)  BY <2>2, <2>3, KeptOfLeft
  <2>5. Offset + i - 1 = Len(Readable)
    <3>1. i - 1 = Cardinality(Left)  BY <1>1, <1>2, <2>1, <2>2, <2>4
    <3>2. Offset + i - 1 = Offset + (i - 1)  BY <1>1
    <3>3. QED  BY <1>2, <3>1, <3>2
  <2>6. PICK upto : upto = Len(Readable)  OBVIOUS
  <2>7. Shown(upto, 0)'  BY <2>1, <2>2, <2>5, <2>6, ShowSame
  <2>8. (Shown(Len(Readable), i - 1))'
    <3>1. Readable' = Readable /\ i' - 1 = 0  BY <2>1, SameRows
    <3>2. QED  BY <2>6, <2>7, <3>1 DEF Shown, Rows
  <2>9. (i <= Cardinality(SumCalls) + 1)'
    <3>1. SumCalls' = SumCalls /\ Cardinality(SumCalls) \in Nat  BY <2>1, SameRows, SumTypes
    <3>2. QED  BY <2>1, <3>1
  <2>10. QED  BY <2>1, <2>2, <2>8, <2>9 DEF Printed
<1>8. CASE DigestString
  <2>1. /\ UNCHANGED <<kind, argv, args, nbr, j, calls, shift, ret>> /\ pc = "strings" /\ pc' = "strings"
        /\ i <= Len(sums) /\ printed' = Append(printed, sums[i]) /\ i' = i + 1
    BY <1>8 DEF DigestString, print_hash
  <2>2. kind = "digest" /\ Shown(Len(Readable), i - 1)  BY <2>1 DEF Printed
  <2>3. sums[i] \in Item /\ i + 1 <= Cardinality(SumCalls) + 1
    <3>1. sums \in Seq(Item) /\ Len(sums) = Cardinality(SumCalls) /\ Cardinality(SumCalls) \in Nat
      BY SumTypes
    <3>2. i \in 1 .. Len(sums) /\ i + 1 <= Cardinality(SumCalls) + 1  BY <1>1, <2>1, <3>1
    <3>3. QED  BY <3>1, <3>2, ElementOfSeq
  <2>4. PICK upto, strings : upto = Len(Readable) /\ strings = i - 1  OBVIOUS
  <2>5. upto \in Nat /\ strings \in Nat /\ strings + 1 = i /\ i' - 1 = strings + 1
    BY <1>1, <1>2, <2>1, <2>4
  <2>6. Shown(upto, strings + 1)'  BY <2>1, <2>2, <2>3, <2>4, <2>5, ShowString
  <2>7. (Shown(Len(Readable), i - 1))'
    <3>1. Readable' = Readable  BY <2>1, SameRows
    <3>2. QED  BY <2>4, <2>5, <2>6, <3>1 DEF Shown, Rows
  <2>8. (i <= Cardinality(SumCalls) + 1)'
    <3>1. SumCalls' = SumCalls  BY <2>1, SameRows
    <3>2. QED  BY <2>1, <2>3, <3>1
  <2>9. QED  BY <2>1, <2>2, <2>7, <2>8 DEF Printed
<1>9. CASE DigestEnds
  <2>1. /\ UNCHANGED <<kind, argv, args, nbr, i, j, calls, shift, printed, ret>> /\ pc = "strings"
        /\ i > Len(sums) /\ pc' = "done"
    BY <1>9 DEF DigestEnds
  <2>2. Shown(Len(Readable), i - 1) /\ i <= Cardinality(SumCalls) + 1  BY <2>1 DEF Printed
  <2>3. i - 1 = Cardinality(SumCalls)
    <3>1. Len(sums) = Cardinality(SumCalls) /\ Cardinality(SumCalls) \in Nat  BY SumTypes
    <3>2. QED  BY <1>1, <2>1, <2>2, <3>1
  <2>4. PICK upto, strings : upto = Len(Readable) /\ strings = Cardinality(SumCalls)  OBVIOUS
  <2>5. Shown(upto, strings)'  BY <2>1, <2>2, <2>3, <2>4, ShowSame
  <2>6. (Shown(Len(Readable), Cardinality(SumCalls)))'
    <3>1. Readable' = Readable /\ SumCalls' = SumCalls  BY <2>1, SameRows
    <3>2. QED  BY <2>4, <2>5, <3>1 DEF Shown, Rows
  <2>7. QED  BY <2>1, <2>6 DEF Printed
<1>10. QED  BY <1>3, <1>4, <1>5, <1>6, <1>7, <1>8, <1>9 DEF Command, Digest

(* The command leaves the arguments as the scan has left them. *)
LEMMA CommandKeeps == Types /\ Counted /\ Ruled /\ Once /\ Command => Counted' /\ Ruled' /\ Once'
<1> SUFFICES ASSUME Types, Counted, Ruled, Once, Command PROVE Counted' /\ Ruled' /\ Once'
  OBVIOUS
<1>1. UNCHANGED <<kind, argv, args, nbr, j, calls>> /\ ~Scanning' /\ Parsed
  BY DEF Command, Refuse, AskPassword, Accept, Digest, DigestStdin, DigestNoStdin, DigestSkip,
         DigestFile, DigestFilesEnd, DigestString, DigestEnds, Error, Scanning, Parsed
<1>2. Counted'
  <2>1. nbr' = Cardinality(Left')  BY <1>1 DEF Counted, Left
  <2>2. QED  BY <1>1, <2>1 DEF Counted, Scanning
<1>3. Ruled'
  <2>1. Left = {k \in 1 .. Len(argv) : ~Open(k) \/ ~(IsValue(k) \/ Dashed(argv[k]))}  BY <1>1 DEF Ruled
  <2>2. Left = {k \in 1 .. Len(argv) : args[k] # NULL} /\ Len(args) = Len(argv)  BY ArgTypes DEF Left
  <2>3. \A k \in 1 .. Len(argv) : args[k] # NULL <=> ~Open(k) \/ ~(IsValue(k) \/ Dashed(argv[k]))
    BY <2>1, <2>2
  <2>4. QED  BY <1>1, <2>2, <2>3, LeftRuled
<1>4. Once'
  <2>1. pc' # "scan" /\ pc' # "cluster"  BY <1>1 DEF Scanning
  <2>2. \A k \in Nat \ {0} : Taken(k) => Taken(k)'  BY <1>1, <2>1 DEF Taken
  <2>3. QED  BY <1>1, <2>2, OnceKept
<1>5. QED  BY <1>2, <1>3, <1>4

-----------------------------------------------------------------------------
(* The steps of a command keep the invariant.                              *)

LEMMA OptionsStep == IInv /\ (Scan \/ Command) => IInv'
<1> SUFFICES ASSUME IInv, Scan \/ Command PROVE IInv'
  OBVIOUS
<1>1. Types /\ Counted /\ Ruled /\ Once /\ Printed  BY DEF IInv
<1>2. CASE Scan
  BY <1>1, <1>2, ScanTypes, ScanCounted, ScanRuled, ScanOnce, ScanPrinted DEF IInv
<1>3. CASE Command  BY <1>1, <1>3, CommandTypes, CommandKeeps, CommandPrinted DEF IInv
<1>4. QED  BY <1>2, <1>3

(* A command that is called is at the beginning of its scan. *)
LEMMA OptionsStarts ==
  ASSUME kind \in Kinds, argv \in Seq(Item), \A k \in 1 .. Len(argv) : argv[k] # NULL, Started,
         pc = "scan" \/ ~(Scanning \/ Parsed)
  PROVE  IInv
<1>1. /\ args = argv /\ nbr = Len(argv) /\ i = 1 /\ j = 0 /\ calls = <<>>
      /\ shift = 0 /\ printed = <<>> /\ ret = 0
  BY DEF Started
<1>2. Len(argv) \in Nat  BY LenProperties
<1>3. <<>> \in Seq(Handled) /\ <<>> \in Seq(Item) /\ Len(<<>>) = 0  OBVIOUS
<1>4. Types  BY <1>1, <1>2, <1>3 DEF Types
<1>5. Counted
  <2>1. Kept(1 - 1) = {}  BY DEF Kept
  <2>2. Cardinality(Kept(1 - 1)) = 0  BY <2>1, FS_EmptySet
  <2>3. Len(argv) = 0 + Len(argv) - 1 + 1 /\ 1 <= Len(argv) + 1  BY <1>2
  <2>4. \A k \in 1 + 1 .. Len(argv) : args[k] = argv[k]  BY <1>1
  <2>5. QED  BY <1>1, <2>2, <2>3, <2>4 DEF Counted, Scanning, Parsed
<1>6. Ruled
  <2>1. \A n \in 1 .. 1 - 1 : FALSE  OBVIOUS
  <2>2. Open(1)  BY <2>1 DEF Open
  <2>3. Takers(1, 0) /\ 0 \in 0 .. 1 - 1
    <3>1. \A m \in 1 - 0 .. 1 - 1 : FALSE  OBVIOUS
    <3>2. QED  BY <3>1 DEF Takers
  <2>4. ~IsValue(1)
    <3>1. \A n \in 0 .. 1 - 1 : ~(n % 2 = 1)
      <4>1. \A n \in 0 .. 1 - 1 : n = 0  OBVIOUS
      <4>2. QED  BY <4>1
    <3>2. QED  BY <3>1 DEF IsValue
  <2>5. 1 <= Len(argv) => 1 \in 1 .. Len(argv)  BY <1>2
  <2>6. RuledAt(1)  BY <1>1, <2>1, <2>2, <2>3, <2>4, <2>5 DEF RuledAt
  <2>7. RuledAt(i)  BY <1>1, <2>6
  <2>8. QED  BY <2>7 DEF Ruled, Scanning, Parsed
<1>7. Once
  <2>1. \A n \in 1 .. Len(calls) : FALSE  BY <1>1, <1>3
  <2>2. QED  BY <2>1 DEF Once
<1>8. Printed  BY DEF Printed, Scanning, Parsed
<1>9. QED  BY <1>4, <1>5, <1>6, <1>7, <1>8 DEF IInv

(* Nothing of it is about what the prompt does. *)
LEMMA OptionsIdle ==
  ASSUME IInv, UNCHANGED ovars, pc' = pc \/ pc' \notin {"scan", "cluster", "parsed", "files", "strings", "done"}
  PROVE  IInv'
<1>1. UNCHANGED <<kind, argv, args, nbr, i, j, calls, shift, printed, ret>>  BY DEF ovars
<1>2. CASE pc' = pc
  <2>1. UNCHANGED vars  BY <1>1, <1>2 DEF vars
  <2>2. Entries' = Entries /\ Left' = Left  BY <1>1 DEF Entries, Left
  <2>3. Types'  BY <1>1, <1>2 DEF IInv, Types, Scanning
  <2>4. Counted'
    <3>1. (pc = "cluster" => InCluster(argv[i]))'
      <4>1. pc = "cluster" => ClusterNext(argv[i])
        BY <1>1 DEF IInv, Counted, InCluster, ClusterNext
      <4>2. QED  BY <1>1, <1>2, <4>1, ClusterPrimed
    <3>2. (Scanning => nbr = Cardinality(Kept(i - 1)) + Len(argv) - i + 1)'
      BY <1>1, <1>2 DEF IInv, Counted, Scanning, Kept
    <3>3. QED  BY <1>1, <1>2, <2>2, <3>1, <3>2 DEF IInv, Counted, Parsed
  <2>5. Ruled'
    <3>1. CASE Scanning
      <4>1. PICK p : p = i  OBVIOUS
      <4>2. RuledNext(p)  BY <1>1, <3>1, <4>1 DEF IInv, Ruled, RuledAt, RuledNext, Passed
      <4>3. ~Parsed'  BY <1>2, <3>1 DEF Scanning, Parsed
      <4>4. QED  BY <1>1, <4>1, <4>2, <4>3, RuledPrimed
    <3>2. CASE ~Scanning
      <4>1. /\ \A k : IsValue(k)' <=> IsValue(k)
            /\ \A k : Open(k)' <=> Open(k)
        BY <1>1, SameValues
      <4>2. QED  BY <1>1, <1>2, <2>2, <3>2, <4>1 DEF IInv, Ruled, Parsed, Scanning, Dashed
    <3>3. QED  BY <3>1, <3>2
  <2>6. Once'
    <3>1. \A k \in Nat \ {0} : Taken(k) => Taken(k)'  BY <1>1, <1>2 DEF Taken, Parsed
    <3>2. QED  BY <1>1, <3>1, OnceKept DEF IInv
  <2>7. Printed'
    <3>1. Readable' = Readable /\ Offset' = Offset /\ sums' = sums /\ SumCalls' = SumCalls
      BY <1>1, SameRows
    <3>2. QED  BY <1>1, <1>2, <3>1 DEF IInv, Printed, Shown, Rows, Kept
  <2>8. QED  BY <2>3, <2>4, <2>5, <2>6, <2>7 DEF IInv
<1>3. CASE pc' \notin {"scan", "cluster", "parsed", "files", "strings", "done"}
  <2>1. ~Scanning' /\ ~Parsed'  BY <1>3 DEF Scanning, Parsed
  <2>2. Types'  BY <1>1, <1>3 DEF IInv, Types, Scanning
  <2>3. Once'
    <3>1. \A k \in Nat \ {0} : Taken(k) => Taken(k)'  BY <1>1, <1>3, <2>1 DEF Taken
    <3>2. QED  BY <1>1, <3>1, OnceKept DEF IInv
  <2>4. QED  BY <1>3, <2>1, <2>2, <2>3 DEF IInv, Counted, Ruled, Printed
<1>4. QED  BY <1>2, <1>3

-----------------------------------------------------------------------------
(* The words of a line.                                                    *)

(* A set of numbers has a least one. *)
LEMMA Least ==
  ASSUME NEW S \in SUBSET Nat, S # {}
  PROVE  \E m \in S : \A n \in S : m <= n
<1>1. PICK m \in S : \A n \in S : ~(<<n, m>> \in OpToRel(<, Nat))
  BY WFMin, NatLessThanWellFounded, Zenon
<1>2. \A n \in S : ~(n < m)  BY <1>1, Zenon DEF OpToRel
<1>3. QED  BY <1>2

LEMMA PastIs ==
  ASSUME NEW s, NEW bytes, NEW from \in Nat, LineSize \in Nat,
         NEW x \in from .. LineSize, s[x] \notin bytes
  PROVE  /\ Past(s, bytes, from) \in from .. LineSize
         /\ s[Past(s, bytes, from)] \notin bytes
         /\ \A n \in from .. Past(s, bytes, from) - 1 : s[n] \in bytes
<1> DEFINE S == {k \in from .. LineSize : s[k] \notin bytes}
<1>1. S \in SUBSET Nat /\ S # {}  OBVIOUS
<1> HIDE DEF S
<1>2. PICK m \in S : \A n \in S : m <= n  BY <1>1, Least
<1> USE DEF S
<1>3. \A n \in from .. m - 1 : s[n] \in bytes
  <2>1. \A n \in from .. m - 1 : n \in from .. LineSize /\ ~(m <= n)  OBVIOUS
  <2>2. QED  BY <1>2, <2>1
<1>4. \E k \in from .. LineSize : s[k] \notin bytes /\ \A n \in from .. k - 1 : s[n] \in bytes
  BY <1>3
<1>5. QED  BY <1>4 DEF Past

LEMMA BeforeIs ==
  ASSUME NEW s, NEW bytes, NEW from \in Nat, LineSize \in Nat,
         NEW x \in from .. LineSize, s[x] \in bytes
  PROVE  /\ Before(s, bytes, from) \in from .. LineSize
         /\ s[Before(s, bytes, from)] \in bytes
         /\ \A n \in from .. Before(s, bytes, from) - 1 : s[n] \notin bytes
<1> DEFINE S == {k \in from .. LineSize : s[k] \in bytes}
<1>1. S \in SUBSET Nat /\ S # {}  OBVIOUS
<1> HIDE DEF S
<1>2. PICK m \in S : \A n \in S : m <= n  BY <1>1, Least
<1> USE DEF S
<1>3. \A n \in from .. m - 1 : s[n] \notin bytes
  <2>1. \A n \in from .. m - 1 : n \in from .. LineSize /\ ~(m <= n)  OBVIOUS
  <2>2. QED  BY <1>2, <2>1
<1>4. \E k \in from .. LineSize : s[k] \in bytes /\ \A n \in from .. k - 1 : s[n] \notin bytes
  BY <1>3
<1>5. QED  BY <1>4 DEF Before

(* The words of a string that ends behind a text are counted in the text. *)
LEMMA CountsWords ==
  ASSUME NEW t \in Seq(Byte \ {Nul}), Len(t) < LineSize, LineSize \in Nat, NEW s,
         \A k \in 1 .. Len(t) : s[k] = t[k], s[Len(t) + 1] = Nul
  PROVE  count_words(s) = Cardinality(Begins(t, Len(t)))
<1> DEFINE l == Len(t)
<1>1. l \in Nat /\ l + 1 \in 1 .. LineSize  OBVIOUS
<1>2. \A k \in 1 .. l : s[k] # Nul
  <2>1. \A k \in 1 .. l : t[k] \in Byte \ {Nul}  BY ElementOfSeq
  <2>2. QED  BY <2>1
<1> DEFINE e == Before(s, {Nul}, 1)
<1>3. e \in 1 .. LineSize /\ s[e] \in {Nul} /\ \A n \in 1 .. e - 1 : s[n] \notin {Nul}
  <2>1. 1 \in Nat /\ s[l + 1] \in {Nul}  OBVIOUS
  <2>2. QED  BY <1>1, <2>1, BeforeIs
<1> HIDE DEF e, l
<1>4. e = l + 1
  <2>1. ~(e \in 1 .. l)  BY <1>2, <1>3
  <2>2. ~(l + 1 \in 1 .. e - 1)  BY <1>3 DEF l
  <2>3. QED  BY <1>1, <1>3, <2>1, <2>2
<1>5. Begins(s, l) = Begins(t, l)
  <2>1. \A k \in 1 .. l : k > 1 => k - 1 \in 1 .. l  BY <1>1
  <2>2. \A k \in 1 .. l : s[k] = t[k]  BY DEF l
  <2>3. QED  BY <2>1, <2>2 DEF Begins
<1>6. e - 1 = l  BY <1>1, <1>4
<1>7. QED  BY <1>5, <1>6 DEF count_words, e, l

\* The prompt has a line and words in it.
Typing == pc \in {"prompt", "split", "words"}
Filled == line \in [1 .. LineSize -> Byte] /\ words \in Seq(Seq(Byte))
Prompted == (Typing => source = "prompt") /\ (source = "prompt" => Filled)

\* The line is split in the text that was typed, of which it is a copy from there on;
\* or behind the end of it, when the text does not end in white space: then all its
\* words were found, and one more has no room.
Behind(s, n) == {m \in Begins(s, Len(s)) : m < n}
InText == /\ at \in 1 .. Len(text) + 1 /\ (at > 1 => text[at - 1] \in White)
          /\ \A k \in at .. Len(text) : line[k] = text[k]
          /\ line[Len(text) + 1] = Nul
          /\ Len(words) = Cardinality(Behind(text, at))
          /\ \A k \in 1 .. Len(words) : words[k] = Word(text, Nth(Beginnings, k))
Beyond == /\ at \in Nat /\ at > Len(text) + 1 /\ ~Terminated
          /\ Len(words) >= counted /\ (Len(words) = counted => words = WordsOf)
Splitting ==
    pc = "split" => /\ text \in Seq(Byte \ {Nul}) /\ 0 < Len(text) /\ Len(text) < LineSize
                    /\ counted = Cardinality(Beginnings)
                    /\ InText \/ Beyond
PInv == IInv /\ Prompted /\ Splitting /\ SplitRight

LEMMA TextTypes ==
  ASSUME text \in Seq(Byte \ {Nul})
  PROVE  /\ Len(text) \in Nat /\ \A k \in 1 .. Len(text) : text[k] \in Byte /\ text[k] # Nul
         /\ Beginnings \in SUBSET (1 .. Len(text)) /\ Beginnings \in SUBSET Nat
         /\ IsFiniteSet(Beginnings) /\ Cardinality(Beginnings) \in Nat
<1>1. Len(text) \in Nat  BY LenProperties
<1>2. \A k \in 1 .. Len(text) : text[k] \in Byte /\ text[k] # Nul
  <2>1. \A k \in 1 .. Len(text) : text[k] \in Byte \ {Nul}  BY ElementOfSeq
  <2>2. QED  BY <2>1
<1>3. Beginnings \in SUBSET (1 .. Len(text)) /\ Beginnings \in SUBSET Nat
  BY <1>1 DEF Beginnings, Begins
<1>4. IsFiniteSet(1 .. Len(text))
  <2>1. 1 \in Int /\ Len(text) \in Int  BY <1>1
  <2>2. QED  BY <2>1, FS_Interval
<1>5. QED  BY <1>1, <1>2, <1>3, <1>4, FS_Subset, FS_CardinalityType

(* What is in front of a word is white space, and it begins where it was not begun before. *)
LEMMA WordBegins ==
  ASSUME pc = "split", Splitting, InText, Filled, at <= Len(text), LineSize \in Nat
  PROVE  /\ WordFrom \in at .. Len(text) + 1 /\ at \in Nat \ {0}
         /\ Behind(text, WordFrom) = Behind(text, at)
         /\ \/ WordFrom \in Beginnings /\ WordFrom <= Len(text) /\ line[WordFrom] # Nul
            \/ WordFrom = Len(text) + 1 /\ line[WordFrom] = Nul /\ text[Len(text)] \in White
<1> DEFINE l == Len(text)
           w == WordFrom
<1>1. text \in Seq(Byte \ {Nul}) /\ l < LineSize  BY DEF Splitting
<1>2. l \in Nat /\ \A k \in 1 .. l : text[k] \in Byte /\ text[k] # Nul  BY <1>1, TextTypes
<1>3. /\ at \in 1 .. l + 1 /\ (at > 1 => text[at - 1] \in White)
      /\ \A k \in at .. l : line[k] = text[k]
      /\ line[l + 1] = Nul
  BY DEF InText
<1>4. Nul \notin White  BY DEF Nul, White
<1> HIDE DEF l
<1>5. at \in Nat \ {0} /\ l + 1 \in at .. LineSize /\ line[l + 1] \notin White
  BY <1>1, <1>2, <1>3, <1>4 DEF l
<1>6. /\ w \in at .. LineSize /\ line[w] \notin White
      /\ \A n \in at .. w - 1 : line[n] \in White
  BY <1>5, PastIs DEF WordFrom
<1> HIDE DEF w
<1>7. w <= l + 1
  <2>1. l + 1 \notin at .. w - 1  BY <1>5, <1>6
  <2>2. QED  BY <1>2, <1>5, <1>6, <2>1
<1>8. \A n \in at .. w - 1 : n \in at .. l /\ n \in 1 .. l  BY <1>2, <1>5, <1>6, <1>7
<1>9. \A n \in at .. w - 1 : text[n] \in White  BY <1>3, <1>6, <1>8
<1>10. Behind(text, w) = Behind(text, at)
  <2>1. \A m \in at .. w - 1 : m \notin Beginnings  BY <1>9 DEF Beginnings, Begins
  <2>2. \A m \in Beginnings : m \in Nat  BY <1>1, TextTypes
  <2>3. \A m \in Beginnings : m < w <=> m < at
    <3>1. SUFFICES ASSUME NEW m \in Beginnings PROVE m < w <=> m < at
      OBVIOUS
    <3>2. m \in Nat /\ m \notin at .. w - 1 /\ w \in Nat /\ at \in Nat /\ at <= w
      BY <1>5, <1>6, <2>1, <2>2
    <3>3. QED  BY <3>2
  <2>4. QED  BY <2>3 DEF Behind, Beginnings
<1>11. CASE w <= l
  <2>1. w \in at .. l /\ w \in 1 .. l /\ w \in Nat  BY <1>2, <1>5, <1>6, <1>11
  <2>2. line[w] = text[w] /\ line[w] # Nul /\ text[w] \notin White
    BY <1>2, <1>3, <1>6, <2>1
  <2>3. w > 1 => text[w - 1] \in White
    <3>1. CASE w = at  BY <1>3, <3>1
    <3>2. CASE w # at
      <4>1. w - 1 \in at .. w - 1  BY <1>5, <2>1, <3>2
      <4>2. QED  BY <1>9, <4>1
    <3>3. QED  BY <3>1, <3>2
  <2>4. w \in Beginnings  BY <2>1, <2>2, <2>3 DEF Beginnings, Begins, l
  <2>5. QED  BY <1>5, <1>6, <1>7, <1>10, <1>11, <2>1, <2>2, <2>4 DEF l, w
<1>12. CASE w = l + 1
  <2>1. l \in at .. w - 1  BY <1>2, <1>5, <1>12 DEF l
  <2>2. text[l] \in White  BY <1>9, <2>1
  <2>3. w \in at .. l + 1  BY <1>2, <1>3, <1>12
  <2>4. QED  BY <1>3, <1>5, <1>10, <1>12, <2>2, <2>3 DEF l, w
<1>13. QED  BY <1>2, <1>6, <1>7, <1>11, <1>12

(* Equal parts of two strings. *)
LEMMA SamePart ==
  ASSUME NEW C, NEW s, NEW t, NEW m \in Int, NEW n \in Int, m <= n,
         \A k \in m .. n : s[k] \in C /\ s[k] = t[k]
  PROVE  SubSeq(s, m, n) = SubSeq(t, m, n) /\ SubSeq(s, m, n) \in Seq(C)
<1> DEFINE a == SubSeq(s, m, n)
           b == SubSeq(t, m, n)
<1>1. \A k \in m .. n : s[k] \in C  OBVIOUS
<1>2. \A k \in m .. n : t[k] \in C  OBVIOUS
<1>3. a \in Seq(C) /\ b \in Seq(C)  BY <1>1, <1>2, SubSeqProperties
<1>4. Len(a) = IF m <= n THEN n - m + 1 ELSE 0  BY <1>1, SubSeqProperties
<1>5. Len(b) = IF m <= n THEN n - m + 1 ELSE 0  BY <1>2, SubSeqProperties
<1>6. \A k \in 1 .. n - m + 1 : a[k] = s[m + k - 1]  BY <1>1, SubSeqProperties
<1>7. \A k \in 1 .. n - m + 1 : b[k] = t[m + k - 1]  BY <1>2, SubSeqProperties
<1>8. \A k \in 1 .. n - m + 1 : m + k - 1 \in m .. n  OBVIOUS
<1> HIDE DEF a, b
<1>9. \A k \in 1 .. Len(a) : a[k] = b[k]  BY <1>4, <1>6, <1>7, <1>8
<1>10. a = b  BY <1>3, <1>4, <1>5, <1>9, SeqEqual
<1>11. QED  BY <1>3, <1>10 DEF a, b

(* It ends with the text, or where there is white space in the text. *)
LEMMA WordEnds ==
  ASSUME text \in Seq(Byte \ {Nul}), Len(text) < LineSize, LineSize \in Nat, Filled,
         NEW w \in Beginnings, \A k \in w .. Len(text) : line[k] = text[k], line[Len(text) + 1] = Nul,
         NEW e, e = Before(line, White \cup {Nul}, w)
  PROVE  /\ e \in w + 1 .. Len(text) + 1 /\ e <= LineSize
         /\ e <= Len(text) => text[e] \in White
         /\ e = Len(text) + 1 => text[Len(text)] \notin White
         /\ SubSeq(line, w, e - 1) = Word(text, w) /\ Word(text, w) \in Seq(Byte)
         /\ Behind(text, e + 1) = Behind(text, w) \cup {w}
<1> DEFINE l == Len(text)
<1>1. /\ l \in Nat /\ \A k \in 1 .. l : text[k] \in Byte /\ text[k] # Nul
      /\ Beginnings \in SUBSET (1 .. l)
  BY TextTypes
<1>2. w \in 1 .. l /\ text[w] \notin White  BY <1>1 DEF Beginnings, Begins
<1>3. (\A k \in w .. l : line[k] = text[k]) /\ line[l + 1] = Nul /\ l < LineSize  OBVIOUS
<1> HIDE DEF l
<1>4. w \in Nat /\ l + 1 \in w .. LineSize  BY <1>1, <1>2, <1>3
<1>5. /\ e \in w .. LineSize /\ line[e] \in White \cup {Nul}
      /\ \A n \in w .. e - 1 : line[n] \notin White \cup {Nul}
  <2>1. line[l + 1] \in White \cup {Nul}  BY <1>3
  <2>2. QED  BY <1>4, <2>1, BeforeIs
<1>6. e <= l + 1
  <2>1. l + 1 \notin w .. e - 1  BY <1>3, <1>5
  <2>2. QED  BY <1>1, <1>4, <1>5, <2>1
<1>7. e # w
  <2>1. line[w] = text[w] /\ text[w] # Nul  BY <1>1, <1>2, <1>3
  <2>2. QED  BY <1>2, <1>5, <2>1
<1>8. e \in w + 1 .. l + 1 /\ e <= LineSize /\ e \in Nat /\ e - 1 \in w .. l /\ e - 1 \in Int /\ w \in Int
  BY <1>1, <1>2, <1>4, <1>5, <1>6, <1>7
<1>9. \A n \in w .. e - 1 : n \in w .. l /\ n \in 1 .. l  BY <1>1, <1>2, <1>8
<1>10. \A n \in w .. e - 1 : line[n] = text[n] /\ text[n] \notin White /\ text[n] \in Byte
  BY <1>1, <1>3, <1>5, <1>9
<1>11. e <= l => text[e] \in White
  <2>1. e <= l => e \in w .. l /\ e \in 1 .. l  BY <1>1, <1>2, <1>8
  <2>2. QED  BY <1>1, <1>3, <1>5, <2>1
<1>12. Letters(text, w) = w .. e - 1
  <2>1. ASSUME NEW k \in w .. l, \A m \in w .. k : text[m] \notin White PROVE k \in w .. e - 1
    <3>1. k < e
      <4>1. SUFFICES ASSUME k >= e PROVE FALSE
        BY <1>1, <1>4, <1>8
      <4>2. e \in w .. k /\ e <= l  BY <1>1, <1>4, <1>8, <4>1
      <4>3. QED  BY <1>11, <2>1, <4>2
    <3>2. QED  BY <1>1, <1>4, <1>8, <3>1
  <2>2. ASSUME NEW k \in w .. e - 1 PROVE k \in w .. l /\ \A m \in w .. k : text[m] \notin White
    <3>1. \A m \in w .. k : m \in w .. e - 1  BY <1>4, <1>8
    <3>2. QED  BY <1>9, <1>10, <3>1
  <2>3. QED  BY <2>1, <2>2 DEF Letters, l
<1>13. w + Cardinality(Letters(text, w)) - 1 = e - 1
  <2>1. Cardinality(w .. e - 1) = IF w > e - 1 THEN 0 ELSE (e - 1) - w + 1
    BY <1>8, FS_Interval
  <2>2. Cardinality(w .. e - 1) = e - w  BY <1>4, <1>8, <2>1
  <2>3. QED  BY <1>4, <1>8, <1>12, <2>2
<1>14. SubSeq(line, w, e - 1) = Word(text, w) /\ Word(text, w) \in Seq(Byte)
  <2> DEFINE C == Byte
  <2>1. Word(text, w) = SubSeq(text, w, e - 1)  BY <1>13 DEF Word
  <2>2. \A k \in w .. e - 1 : line[k] \in C /\ line[k] = text[k]  BY <1>10
  <2>3. PICK s : s = line  OBVIOUS
  <2>4. PICK t : t = text  OBVIOUS
  <2>5. PICK z : z = e - 1  OBVIOUS
  <2> HIDE DEF C
  <2>6. \A k \in w .. z : s[k] \in C /\ s[k] = t[k]  BY <2>2, <2>3, <2>4, <2>5
  <2>7. w \in Int /\ z \in Int /\ w <= z  BY <1>4, <1>8, <2>5
  <2>8. SubSeq(s, w, z) = SubSeq(t, w, z) /\ SubSeq(s, w, z) \in Seq(C)
    BY <2>6, <2>7, SamePart
  <2>9. QED  BY <2>1, <2>3, <2>4, <2>5, <2>8 DEF C
<1>15. Behind(text, e + 1) = Behind(text, w) \cup {w}
  <2>1. ASSUME NEW m \in Beginnings, m < e + 1 PROVE m < w \/ m = w
    <3>1. m \in 1 .. l /\ text[m] \notin White /\ (m > 1 => text[m - 1] \in White)
      BY <1>1, <2>1 DEF Beginnings, Begins
    <3>2. SUFFICES ASSUME m > w PROVE FALSE
      BY <1>1, <1>4, <3>1
    <3>3. m > 1 /\ m - 1 \in w .. e - 1  BY <1>1, <1>2, <1>4, <1>8, <2>1, <3>1, <3>2
    <3>4. QED  BY <1>10, <3>1, <3>3
  <2>2. \A m \in Beginnings : m < w \/ m = w => m < e + 1  BY <1>1, <1>4, <1>8
  <2>3. QED  BY <2>1, <2>2 DEF Behind, Beginnings
<1>16. e = l + 1 => text[l] \notin White
  <2>1. e = l + 1 => l \in w .. e - 1  BY <1>1, <1>2, <1>8
  <2>2. QED  BY <1>10, <2>1
<1>17. QED  BY <1>8, <1>11, <1>14, <1>15, <1>16 DEF l

(* Nul ends no word, and is a byte. *)
LEMMA NulByte == Nul \in Byte /\ Nul \notin White /\ LineSize \in Nat \ {0}
BY LineAssumption DEF Byte, Nul, White

(* A line was read, and nothing of it is split yet. *)
LEMMA LineRead == PInv /\ ReadLine => PInv'
<1> SUFFICES ASSUME PInv, ReadLine PROVE PInv'
  OBVIOUS
<1>1. /\ pc = "prompt" /\ text' \in Inputs /\ counted' = count_words(line')
      /\ at' = 1 /\ words' = <<>> /\ pc' = "split" /\ source' = source /\ UNCHANGED ovars
  BY DEF ReadLine, ovars
<1>2. IInv'  BY <1>1, OptionsIdle DEF PInv
<1>3. source = "prompt" /\ Filled  BY <1>1 DEF PInv, Prompted, Typing
<1>4. PICK t : t = text'  OBVIOUS
<1>5. PICK s : s = line'  OBVIOUS
<1>6. t \in Seq(Byte \ {Nul}) /\ 0 < Len(t) /\ Len(t) < LineSize /\ LineSize \in Nat
  BY <1>1, <1>4, LineAssumption
<1>7. Len(t) \in Nat /\ \A k \in 1 .. Len(t) : t[k] \in Byte
  <2>1. \A k \in 1 .. Len(t) : t[k] \in Byte \ {Nul}  BY <1>6, ElementOfSeq
  <2>2. QED  BY <1>6, <2>1
<1>8. s = [k \in 1 .. LineSize |-> IF k <= Len(t) THEN t[k]
                                   ELSE IF k = Len(t) + 1 THEN Nul ELSE line[k]]
  BY <1>4, <1>5 DEF ReadLine
<1>9. line \in [1 .. LineSize -> Byte]  BY <1>3 DEF Filled
<1>10. s \in [1 .. LineSize -> Byte]
  <2>1. Nul \in Byte  BY NulByte
  <2>2. \A k \in 1 .. LineSize : k <= Len(t) => t[k] \in Byte  BY <1>6, <1>7
  <2>3. \A k \in 1 .. LineSize : line[k] \in Byte  BY <1>9
  <2>4. QED  BY <1>8, <2>1, <2>2, <2>3
<1>11. (\A k \in 1 .. Len(t) : s[k] = t[k]) /\ s[Len(t) + 1] = Nul
  <2>1. \A k \in 1 .. Len(t) : k \in 1 .. LineSize /\ k <= Len(t)  BY <1>6, <1>7
  <2>2. Len(t) + 1 \in 1 .. LineSize /\ ~(Len(t) + 1 <= Len(t))  BY <1>6, <1>7
  <2>3. QED  BY <1>8, <2>1, <2>2
<1>12. Filled'
  <2>1. <<>> \in Seq(Seq(Byte))  BY EmptySeq
  <2>2. QED  BY <1>1, <1>5, <1>10, <2>1 DEF Filled
<1>13. counted' = Cardinality(Begins(t, Len(t)))  BY <1>1, <1>5, <1>6, <1>11, CountsWords
<1>14. InText'
  <2>1. Behind(t, 1) = {}
    <3>1. \A m \in 1 .. Len(t) : ~(m < 1)  BY <1>7
    <3>2. QED  BY <3>1 DEF Behind, Begins
  <2>2. Cardinality(Behind(t, 1)) = 0  BY <2>1, FS_EmptySet
  <2>3. Len(<<>>) = 0 /\ 1 \in 1 .. Len(t) + 1 /\ ~(1 > 1)  BY <1>7
  <2>4. \A k \in 1 .. 0 : FALSE  OBVIOUS
  <2>5. QED  BY <1>1, <1>4, <1>5, <1>11, <2>2, <2>3, <2>4 DEF InText
<1>15. Splitting'  BY <1>4, <1>6, <1>13, <1>14 DEF Splitting, Beginnings
<1>16. Prompted' /\ SplitRight'  BY <1>1, <1>3, <1>12 DEF Prompted, SplitRight
<1>17. QED  BY <1>2, <1>15, <1>16 DEF PInv

(* What begins a word is the next one. *)
LEMMA NextWord ==
  ASSUME NEW t \in Seq(Byte \ {Nul}), NEW w \in Begins(t, Len(t))
  PROVE  /\ Cardinality(Behind(t, w)) \in Nat
         /\ Nth(Begins(t, Len(t)), Cardinality(Behind(t, w)) + 1) = w
         /\ Cardinality(Behind(t, w) \cup {w}) = Cardinality(Behind(t, w)) + 1
<1> DEFINE B == Begins(t, Len(t))
           low == {m \in B : m < w}
<1>1. Len(t) \in Nat  OBVIOUS
<1>2. B \in SUBSET (1 .. Len(t)) /\ B \in SUBSET Nat  BY <1>1 DEF Begins
<1>3. IsFiniteSet(B)
  <2>1. 1 \in Int /\ Len(t) \in Int  BY <1>1
  <2>2. IsFiniteSet(1 .. Len(t))  BY <2>1, FS_Interval
  <2>3. QED  BY <1>2, <2>2, FS_Subset
<1>4. w \in B  OBVIOUS
<1> HIDE DEF B
<1>5. {m \in B : m <= w} = low \cup {w}
  <2>1. \A m \in B : m \in Nat  BY <1>2
  <2>2. \A m \in B : m <= w <=> m < w \/ m = w  BY <1>4, <2>1
  <2>3. QED  BY <1>4, <2>2
<1>6. IsFiniteSet(low) /\ w \notin low  BY <1>2, <1>3, <1>4, FS_Subset
<1>7. low = Behind(t, w)  BY DEF Behind, B
<1> HIDE DEF low
<1>8. Cardinality(low \cup {w}) = Cardinality(low) + 1  BY <1>6, FS_AddElement
<1>9. Cardinality(low) \in Nat  BY <1>6, FS_CardinalityType
<1>10. Rank(B, w) = Cardinality(low) + 1  BY <1>5, <1>8 DEF Rank
<1>11. Nth(B, Rank(B, w)) = w  BY <1>2, <1>3, <1>4, RankTells
<1>12. QED  BY <1>7, <1>8, <1>9, <1>10, <1>11 DEF B

(* One more word. *)
LEMMA OneMore ==
  ASSUME NEW C, NEW s \in Seq(Seq(C)), NEW x \in Seq(C)
  PROVE  /\ Append(s, x) \in Seq(Seq(C)) /\ Len(s) \in Nat /\ Len(Append(s, x)) = Len(s) + 1
         /\ \A k \in 1 .. Len(s) : Append(s, x)[k] = s[k]
         /\ Append(s, x)[Len(s) + 1] = x
OBVIOUS

(* As many words as begin in the text, each the one that begins there. *)
LEMMA AllWords ==
  ASSUME text \in Seq(Byte \ {Nul}), NEW s \in Seq(Seq(Byte)), Len(s) = Cardinality(Beginnings),
         \A k \in 1 .. Len(s) : s[k] = Word(text, Nth(Beginnings, k))
  PROVE  s = WordsOf
<1> DEFINE f == [k \in 1 .. Len(s) |-> Word(text, Nth(Beginnings, k))]
<1>1. Len(s) \in Nat /\ s = [k \in 1 .. Len(s) |-> s[k]]  OBVIOUS
<1>2. s = f  BY <1>1
<1>3. QED  BY <1>2 DEF WordsOf

(* A word that begins in the text is the next of its words; when it ends with the text,
   it was the last, and the text does not end in white space. *)
LEMMA ParsesText ==
  ASSUME PInv, ParseWord, InText
  PROVE  Filled' /\ (InText' \/ Beyond')
<1> DEFINE l == Len(text)
<1>1. /\ pc = "split" /\ Len(words) <= counted /\ line[at] # Nul
      /\ text' = text /\ counted' = counted /\ source' = source
  BY DEF ParseWord
<1>2. Splitting /\ Filled  BY <1>1 DEF PInv, Prompted, Typing
<1>3. /\ text \in Seq(Byte \ {Nul}) /\ 0 < l /\ l < LineSize /\ LineSize \in Nat
      /\ counted = Cardinality(Beginnings)
  BY <1>1, <1>2, NulByte DEF Splitting
<1>4. /\ l \in Nat /\ \A k \in 1 .. l : text[k] \in Byte /\ text[k] # Nul
      /\ Beginnings \in SUBSET (1 .. l) /\ IsFiniteSet(Beginnings) /\ Cardinality(Beginnings) \in Nat
  BY <1>3, TextTypes
<1>5. /\ at \in 1 .. l + 1 /\ (at > 1 => text[at - 1] \in White)
      /\ \A k \in at .. l : line[k] = text[k]
      /\ line[l + 1] = Nul
      /\ Len(words) = Cardinality(Behind(text, at))
      /\ \A k \in 1 .. Len(words) : words[k] = Word(text, Nth(Beginnings, k))
  BY DEF InText
<1>6. at <= l
  <2>1. at # l + 1  BY <1>1, <1>5
  <2>2. QED  BY <1>4, <1>5, <2>1
<1>7. PICK w : w = WordFrom  OBVIOUS
<1>8. /\ w \in at .. l + 1 /\ at \in Nat \ {0} /\ Behind(text, w) = Behind(text, at)
      /\ \/ w \in Beginnings /\ w <= l /\ line[w] # Nul
         \/ w = l + 1 /\ line[w] = Nul /\ text[l] \in White
  BY <1>1, <1>2, <1>3, <1>6, <1>7, WordBegins
<1>9. line \in [1 .. LineSize -> Byte] /\ words \in Seq(Seq(Byte))
  BY <1>2 DEF Filled
<1> HIDE DEF l
<1>10. CASE line[w] = Nul
  <2>1. at' = w /\ line' = line /\ words' = words  BY <1>7, <1>10 DEF ParseWord
  <2>2. w = l + 1 /\ text[l] \in White  BY <1>8, <1>10
  <2>3. Filled'  BY <1>2, <2>1 DEF Filled
  <2>4. at' \in 1 .. l + 1 /\ at' - 1 = l  BY <1>4, <2>1, <2>2
  <2>5. \A k \in l + 1 .. l : FALSE  BY <1>4
  <2>6. InText'  BY <1>1, <1>5, <1>8, <2>1, <2>2, <2>4, <2>5 DEF InText, Beginnings, l
  <2>7. QED  BY <2>3, <2>6
<1>11. CASE line[w] # Nul
  <2>1. w \in Beginnings /\ w <= l /\ w \in Nat  BY <1>4, <1>8, <1>11
  <2>2. \A k \in w .. l : line[k] = text[k]
    <3>1. \A k \in w .. l : k \in at .. l  BY <1>4, <1>8
    <3>2. QED  BY <1>5, <3>1
  <2>3. PICK e : e = Before(line, White \cup {Nul}, w)  OBVIOUS
  <2>4. /\ e \in w + 1 .. l + 1 /\ e <= LineSize
        /\ e <= l => text[e] \in White
        /\ e = l + 1 => text[l] \notin White
        /\ SubSeq(line, w, e - 1) = Word(text, w) /\ Word(text, w) \in Seq(Byte)
        /\ Behind(text, e + 1) = Behind(text, w) \cup {w}
    BY <1>2, <1>3, <1>5, <2>1, <2>2, <2>3, WordEnds DEF l
  <2>5. /\ words' = Append(words, Word(text, w)) /\ line' = [line EXCEPT ![e] = Nul] /\ at' = e + 1
    <3>1. line[WordFrom] # Nul  BY <1>7, <1>11
    <3>2. /\ words' = Append(words, SubSeq(line, w, e - 1))
          /\ line' = [line EXCEPT ![e] = Nul] /\ at' = e + 1
      BY <1>7, <2>3, <3>1, Zenon DEF ParseWord, behind_word
    <3>3. QED  BY <2>4, <3>2
  <2>6. e \in Nat /\ e \in 1 .. LineSize  BY <1>4, <2>1, <2>4
  <2>7. /\ words' \in Seq(Seq(Byte)) /\ Len(words) \in Nat /\ Len(words') = Len(words) + 1
        /\ \A k \in 1 .. Len(words) : words'[k] = words[k]
        /\ words'[Len(words) + 1] = Word(text, w)
    <3> DEFINE C == Byte
    <3>1. words \in Seq(Seq(C)) /\ Word(text, w) \in Seq(C)  BY <1>9, <2>4
    <3> HIDE DEF C
    <3>2. PICK s : s = words  OBVIOUS
    <3>3. PICK x : x = Word(text, w)  OBVIOUS
    <3>4. s \in Seq(Seq(C)) /\ x \in Seq(C)  BY <3>1, <3>2, <3>3
    <3>5. /\ Append(s, x) \in Seq(Seq(C)) /\ Len(s) \in Nat /\ Len(Append(s, x)) = Len(s) + 1
          /\ \A k \in 1 .. Len(s) : Append(s, x)[k] = s[k]
          /\ Append(s, x)[Len(s) + 1] = x
      BY <3>4, OneMore
    <3>6. words' = Append(s, x)  BY <2>5, <3>2, <3>3
    <3>7. QED  BY <3>2, <3>3, <3>5, <3>6 DEF C
  <2>8. /\ Nth(Beginnings, Len(words) + 1) = w
        /\ Cardinality(Behind(text, e + 1)) = Len(words) + 1
    <3>1. PICK t : t = text  OBVIOUS
    <3>2. t \in Seq(Byte \ {Nul}) /\ w \in Begins(t, Len(t))  BY <1>3, <2>1, <3>1 DEF Beginnings
    <3>3. /\ Nth(Begins(t, Len(t)), Cardinality(Behind(t, w)) + 1) = w
          /\ Cardinality(Behind(t, w) \cup {w}) = Cardinality(Behind(t, w)) + 1
      BY <3>2, NextWord
    <3>4. QED  BY <1>5, <1>8, <2>4, <3>1, <3>3 DEF Beginnings
  <2>9. \A k \in 1 .. Len(words') : words'[k] = Word(text, Nth(Beginnings, k))
    <3>1. SUFFICES ASSUME NEW k \in 1 .. Len(words') PROVE words'[k] = Word(text, Nth(Beginnings, k))
      OBVIOUS
    <3>2. k \in 1 .. Len(words) \/ k = Len(words) + 1  BY <2>7
    <3>3. CASE k \in 1 .. Len(words)  BY <1>5, <2>7, <3>3
    <3>4. CASE k = Len(words) + 1  BY <2>7, <2>8, <3>4
    <3>5. QED  BY <3>2, <3>3, <3>4
  <2>10. line' \in [1 .. LineSize -> Byte]
    <3>1. Nul \in Byte  BY NulByte
    <3>2. QED  BY <1>9, <2>5, <2>6, <3>1
  <2>11. Filled'  BY <2>7, <2>10 DEF Filled
  <2>12. CASE e <= l
    <3>1. at' \in 1 .. l + 1 /\ at' - 1 = e  BY <1>4, <2>4, <2>5, <2>6, <2>12
    <3>2. \A k \in e + 1 .. l : line'[k] = text[k]
      <4>1. \A k \in e + 1 .. l : k # e /\ k \in w .. l /\ k \in 1 .. LineSize
        BY <1>3, <1>4, <2>1, <2>4, <2>6 DEF l
      <4>2. QED  BY <1>9, <2>2, <2>5, <4>1
    <3>3. line'[l + 1] = Nul
      <4>1. l + 1 # e /\ l + 1 \in 1 .. LineSize  BY <1>3, <1>4, <2>6, <2>12 DEF l
      <4>2. QED  BY <1>5, <1>9, <2>5, <4>1
    <3>4. Len(words') = Cardinality(Behind(text, at'))  BY <2>5, <2>7, <2>8
    <3>5. InText'
      BY <1>1, <2>4, <2>5, <2>9, <2>12, <3>1, <3>2, <3>3, <3>4 DEF InText, Beginnings, l
    <3>6. QED  BY <2>11, <3>5
  <2>13. CASE e = l + 1
    <3>1. Behind(text, e + 1) = Beginnings
      <4>1. \A m \in Beginnings : m < e + 1  BY <1>4, <2>13
      <4>2. QED  BY <4>1 DEF Behind, Beginnings
    <3>2. Len(words') = counted  BY <1>3, <2>7, <2>8, <3>1
    <3>3. words' = WordsOf
      <4>1. PICK s : s = words'  OBVIOUS
      <4>2. /\ s \in Seq(Seq(Byte)) /\ Len(s) = Cardinality(Beginnings)
            /\ \A k \in 1 .. Len(s) : s[k] = Word(text, Nth(Beginnings, k))
        BY <1>3, <2>7, <2>9, <3>2, <4>1
      <4>3. QED  BY <1>3, <4>1, <4>2, AllWords
    <3>4. at' \in Nat /\ at' > l + 1  BY <1>4, <2>5, <2>6, <2>13
    <3>5. ~Terminated  BY <2>4, <2>13 DEF Terminated, l
    <3>6. Len(words') >= counted'  BY <1>1, <1>3, <1>4, <3>2
    <3>7. WordsOf' = WordsOf /\ Terminated' = Terminated
      BY <1>1 DEF WordsOf, Terminated, Beginnings
    <3>8. Beyond'  BY <1>1, <3>3, <3>4, <3>5, <3>6, <3>7 DEF Beyond, l
    <3>9. QED  BY <2>11, <3>8
  <2>14. QED  BY <1>4, <2>4, <2>6, <2>12, <2>13
<1>12. QED  BY <1>10, <1>11

(* Behind the end of the text more words are found than were counted. *)
LEMMA ParsesBeyond ==
  ASSUME PInv, ParseWord, Beyond
  PROVE  Filled' /\ Beyond'
<1>1. pc = "split" /\ text' = text /\ counted' = counted  BY DEF ParseWord
<1>2. Splitting /\ Filled  BY <1>1 DEF PInv, Prompted, Typing, ParseWord
<1>3. counted \in Nat
  <2>1. text \in Seq(Byte \ {Nul}) /\ counted = Cardinality(Beginnings)  BY <1>1, <1>2 DEF Splitting
  <2>2. QED  BY <2>1, TextTypes
<1>4. line \in [1 .. LineSize -> Byte] /\ words \in Seq(Seq(Byte))
  BY <1>2 DEF Filled
<1>5. at \in Nat /\ at > Len(text) + 1 /\ ~Terminated /\ Len(words) >= counted  BY DEF Beyond
<1>6. Len(text) \in Nat
  <2>1. text \in Seq(Byte \ {Nul})  BY <1>1, <1>2 DEF Splitting
  <2>2. QED  BY <2>1, TextTypes
<1>7. WordsOf' = WordsOf /\ Terminated' = Terminated
  BY <1>1 DEF WordsOf, Terminated, Beginnings
<1>8. PICK w : w = WordFrom  OBVIOUS
<1>n. PICK q \in at .. LineSize : line[q] = Nul  BY DEF ParseWord, Endless
<1>9. w \in at .. LineSize /\ q \in w .. LineSize
  <2>1. LineSize \in Nat /\ line[q] \notin White  BY <1>n, NulByte
  <2>2. w \in at .. LineSize /\ \A n \in at .. w - 1 : line[n] \in White
    BY <1>5, <1>8, <2>1, PastIs DEF WordFrom
  <2>3. q \notin at .. w - 1  BY <2>1, <2>2
  <2>4. QED  BY <1>5, <1>n, <2>1, <2>2, <2>3
<1>10. CASE line[w] = Nul
  <2>1. at' = w /\ line' = line /\ words' = words  BY <1>8, <1>10 DEF ParseWord
  <2>2. w \in Nat /\ w > Len(text) + 1  BY <1>5, <1>6, <1>9
  <2>3. Filled'  BY <1>2, <2>1 DEF Filled
  <2>4. Len(words) = counted => words = WordsOf  BY DEF Beyond
  <2>5. Beyond'  BY <1>1, <1>5, <1>7, <2>1, <2>2, <2>4 DEF Beyond
  <2>6. QED  BY <2>3, <2>5
<1>11. CASE line[w] # Nul
  <2>1. PICK e : e = Before(line, White \cup {Nul}, w)  OBVIOUS
  <2>2. PICK s : s = line  OBVIOUS
  <2>3. PICK x : x = SubSeq(s, w, e - 1)  OBVIOUS
  <2>4. e \in w .. LineSize
    <3>1. LineSize \in Nat /\ w \in Nat /\ line[q] \in White \cup {Nul}
      BY <1>5, <1>9, <1>n, NulByte
    <3>2. QED  BY <1>9, <2>1, <3>1, BeforeIs
  <2>5. words' = Append(words, x) /\ line' = [line EXCEPT ![e] = Nul] /\ at' = e + 1
    <3>1. line[WordFrom] # Nul  BY <1>8, <1>11
    <3>2. /\ words' = Append(words, SubSeq(line, w, e - 1))
          /\ line' = [line EXCEPT ![e] = Nul] /\ at' = e + 1
      BY <1>8, <2>1, <3>1, Zenon DEF ParseWord, behind_word
    <3>3. QED  BY <2>2, <2>3, <3>2
  <2>6. w \in Nat /\ e \in Nat /\ e \in 1 .. LineSize /\ e + 1 > Len(text) + 1
    BY <1>5, <1>6, <1>9, <2>4
  <2>7. words' \in Seq(Seq(Byte)) /\ Len(words) \in Nat /\ Len(words') = Len(words) + 1
    <3> DEFINE C == Byte
    <3>1. \A k \in w .. e - 1 : s[k] \in C
      <4>1. \A k \in w .. e - 1 : k \in 1 .. LineSize  BY <1>5, <1>6, <1>9, <2>4, <2>6, NulByte
      <4>2. QED  BY <1>4, <2>2, <4>1
    <3>2. PICK z : z = words  OBVIOUS
    <3>3. z \in Seq(Seq(C))  BY <1>4, <3>2
    <3>4. w \in Int /\ e - 1 \in Int  BY <2>6
    <3> HIDE DEF C
    <3>5. x \in Seq(C)  BY <2>3, <3>1, <3>4, SubSeqProperties
    <3>6. Append(z, x) \in Seq(Seq(C)) /\ Len(z) \in Nat /\ Len(Append(z, x)) = Len(z) + 1
      BY <3>3, <3>5, OneMore
    <3>7. QED  BY <2>5, <3>2, <3>6 DEF C
  <2>8. line' \in [1 .. LineSize -> Byte]
    <3>1. Nul \in Byte  BY NulByte
    <3>2. QED  BY <1>4, <2>5, <2>6, <3>1
  <2>9. Filled'  BY <2>7, <2>8 DEF Filled
  <2>10. Len(words') >= counted /\ Len(words') # counted  BY <1>3, <1>5, <2>7
  <2>11. at' \in Nat /\ at' > Len(text) + 1  BY <2>5, <2>6
  <2>12. Beyond'  BY <1>1, <1>5, <1>7, <2>10, <2>11 DEF Beyond
  <2>13. QED  BY <2>9, <2>12
<1>12. QED  BY <1>10, <1>11

LEMMA WordParsed == PInv /\ ParseWord => PInv'
<1> SUFFICES ASSUME PInv, ParseWord PROVE PInv'
  OBVIOUS
<1>1. /\ pc = "split" /\ pc' = pc /\ text' = text /\ counted' = counted /\ source' = source
      /\ UNCHANGED ovars
  BY DEF ParseWord, ovars
<1>2. IInv'  BY <1>1, OptionsIdle DEF PInv
<1>3. Filled' /\ (InText' \/ Beyond')
  <2>1. InText \/ Beyond  BY <1>1 DEF PInv, Splitting
  <2>2. QED  BY <2>1, ParsesText, ParsesBeyond
<1>4. Splitting'  BY <1>1, <1>3 DEF PInv, Splitting, Beginnings
<1>5. Prompted'  BY <1>1, <1>3 DEF PInv, Prompted, Typing
<1>6. SplitRight'  BY <1>1 DEF SplitRight
<1>7. QED  BY <1>2, <1>4, <1>5, <1>6 DEF PInv

(* There is room for the words of a text, and for NULL behind them. *)
LEMMA RoomInText ==
  ASSUME PInv, pc = "split", InText
  PROVE  ~Endless /\ Len(words) <= counted /\ (line[at] = Nul => words = WordsOf)
<1>1. Splitting /\ Filled  BY DEF PInv, Prompted, Typing
<1>2. /\ text \in Seq(Byte \ {Nul}) /\ Len(text) < LineSize /\ LineSize \in Nat
      /\ counted = Cardinality(Beginnings)
  BY <1>1, NulByte DEF Splitting
<1>3. /\ Len(text) \in Nat /\ \A k \in 1 .. Len(text) : text[k] \in Byte /\ text[k] # Nul
      /\ Beginnings \in SUBSET (1 .. Len(text)) /\ IsFiniteSet(Beginnings)
      /\ Cardinality(Beginnings) \in Nat
  BY <1>2, TextTypes
<1>4. /\ at \in 1 .. Len(text) + 1
      /\ \A k \in at .. Len(text) : line[k] = text[k]
      /\ Len(words) = Cardinality(Behind(text, at))
      /\ \A k \in 1 .. Len(words) : words[k] = Word(text, Nth(Beginnings, k))
  BY DEF InText
<1>5. ~Endless
  <2>1. Len(text) + 1 \in at .. LineSize  BY <1>2, <1>3, <1>4
  <2>2. line[Len(text) + 1] = Nul  BY DEF InText
  <2>3. QED  BY <2>1, <2>2 DEF Endless
<1>6. Len(words) <= counted
  <2>1. Behind(text, at) \in SUBSET Beginnings  BY DEF Behind, Beginnings
  <2>2. QED  BY <1>2, <1>3, <1>4, <2>1, FS_Subset
<1>7. ASSUME line[at] = Nul PROVE words = WordsOf
  <2>1. at = Len(text) + 1
    <3>1. ~(at \in at .. Len(text))  BY <1>3, <1>4, <1>7
    <3>2. QED  BY <1>3, <1>4, <3>1
  <2>2. Behind(text, at) = Beginnings
    <3>1. \A m \in Beginnings : m < at  BY <1>3, <2>1
    <3>2. QED  BY <3>1 DEF Behind, Beginnings
  <2>3. PICK s : s = words  OBVIOUS
  <2>4. /\ s \in Seq(Seq(Byte)) /\ Len(s) = Cardinality(Beginnings)
        /\ \A k \in 1 .. Len(s) : s[k] = Word(text, Nth(Beginnings, k))
    BY <1>1, <1>4, <2>2, <2>3 DEF Filled
  <2>5. QED  BY <1>2, <2>3, <2>4, AllWords
<1>8. QED  BY <1>5, <1>6, <1>7

LEMMA Splits == PInv /\ (Split \/ Undefined) => PInv'
<1> SUFFICES ASSUME PInv, Split \/ Undefined PROVE PInv'
  OBVIOUS
<1>1. pc = "split" /\ pc' \in {"words", "undefined"} /\ UNCHANGED ovars /\ UNCHANGED lvars
  BY DEF Split, Undefined, ovars, lvars
<1>2. UNCHANGED <<source, line, text, counted, at, words, typed>>  BY <1>1 DEF lvars
<1>3. IInv'  BY <1>1, OptionsIdle DEF PInv
<1>4. source = "prompt" /\ Filled  BY <1>1 DEF PInv, Prompted, Typing
<1>5. Filled'  BY <1>2, <1>4 DEF Filled
<1>6. Prompted' /\ Splitting'  BY <1>1, <1>2, <1>4, <1>5 DEF Prompted, Splitting
<1>7. WordsOf' = WordsOf /\ Terminated' = Terminated
  BY <1>2 DEF WordsOf, Terminated, Beginnings
<1>8. InText \/ Beyond  BY <1>1 DEF PInv, Splitting
<1>9. counted \in Nat /\ Len(words) \in Nat
  <2>1. text \in Seq(Byte \ {Nul}) /\ counted = Cardinality(Beginnings)  BY <1>1 DEF PInv, Splitting
  <2>2. QED  BY <1>4, <2>1, TextTypes DEF Filled
<1>10. CASE Split
  <2>1. pc' = "words" /\ Len(words) <= counted /\ line[at] = Nul  BY <1>10 DEF Split
  <2>2. words = WordsOf
    <3>1. CASE InText  BY <1>1, <2>1, <3>1, RoomInText
    <3>2. CASE Beyond  BY <1>9, <2>1, <3>2 DEF Beyond
    <3>3. QED  BY <1>8, <3>1, <3>2
  <2>3. SplitRight'  BY <1>2, <1>7, <2>1, <2>2 DEF SplitRight
  <2>4. QED  BY <1>3, <1>6, <2>3 DEF PInv
<1>11. CASE Undefined
  <2>1. pc' = "undefined" /\ (Len(words) > counted \/ Endless)  BY <1>11 DEF Undefined
  <2>2. ~Terminated
    <3>1. CASE InText
      <4>1. ~Endless /\ Len(words) <= counted  BY <1>1, <3>1, RoomInText
      <4>2. QED  BY <1>9, <2>1, <4>1
    <3>2. CASE Beyond  BY <3>2 DEF Beyond
    <3>3. QED  BY <1>8, <3>1, <3>2
  <2>3. SplitRight'  BY <1>7, <2>1, <2>2 DEF SplitRight
  <2>4. QED  BY <1>3, <1>6, <2>3 DEF PInv
<1>12. QED  BY <1>10, <1>11

\* What a command begins with, as OptionsStarts has it.
Begun == /\ kind \in Kinds /\ argv \in Seq(Item) /\ \A k \in 1 .. Len(argv) : argv[k] # NULL
         /\ Started /\ pc = "scan"
LEMMA BegunNext == Begun' => IInv'
<1>1. Begun => IInv  BY OptionsStarts DEF Begun
<1>2. QED  BY <1>1, PTL

(* The rest of a line that was split is what the command is called with. *)
LEMMA Calls == PInv /\ CommandTyped => PInv'
<1> SUFFICES ASSUME PInv, CommandTyped PROVE PInv'
  OBVIOUS
<1>1. /\ pc = "words" /\ words # <<>> /\ kind' \in Kinds
      /\ argv' = Tail(words) /\ args' = argv' /\ nbr' = Len(argv')
      /\ i' = 1 /\ j' = 0 /\ calls' = <<>> /\ shift' = 0 /\ printed' = <<>> /\ ret' = 0
      /\ pc' = "scan" /\ UNCHANGED lvars
  BY DEF CommandTyped
<1>2. UNCHANGED <<source, line, text, counted, at, words, typed>>  BY <1>1 DEF lvars
<1>3. source = "prompt" /\ Filled  BY <1>1 DEF PInv, Prompted, Typing
<1>4. PICK s : s = argv'  OBVIOUS
<1>5. s \in Seq(Seq(Byte))
  <2> DEFINE C == Seq(Byte)
  <2>1. words \in Seq(C)  BY <1>3 DEF Filled
  <2> HIDE DEF C
  <2>2. PICK z : z = words  OBVIOUS
  <2>3. z \in Seq(C) /\ z # <<>>  BY <1>1, <2>1, <2>2
  <2>4. Tail(z) \in Seq(C)  BY <2>3, HeadTailProperties
  <2>5. QED  BY <1>1, <1>4, <2>2, <2>4 DEF C
<1>6. \A k \in 1 .. Len(s) : s[k] \in Seq(Byte)  BY <1>5, ElementOfSeq
<1>7. s \in Seq(Item)
  <2>1. Seq(Byte) \subseteq Item  BY Literals
  <2>2. Len(s) \in Nat /\ s = [k \in 1 .. Len(s) |-> s[k]]  BY <1>5
  <2>3. \A k \in 1 .. Len(s) : s[k] \in Item  BY <1>6, <2>1
  <2>4. QED  BY <2>2, <2>3
<1>8. NULL \notin Seq(Byte)
  <2>1. ASSUME NULL \in Seq(Byte) PROVE FALSE
    <3>1. Len(NULL) = 1 /\ NULL[1] = "NULL"  BY DEF NULL
    <3>2. NULL[1] \in Byte  BY <2>1, <3>1, ElementOfSeq
    <3>3. QED  BY <3>1, <3>2 DEF Byte
  <2>2. QED  BY <2>1
<1>9. Begun'
  <2>1. \A k \in 1 .. Len(s) : s[k] # NULL  BY <1>6, <1>8
  <2>2. QED  BY <1>1, <1>4, <1>7, <2>1 DEF Begun, Started
<1>10. IInv'  BY <1>9, BegunNext
<1>11. Filled'  BY <1>2, <1>3 DEF Filled
<1>12. Prompted' /\ Splitting' /\ SplitRight'
  BY <1>1, <1>2, <1>3, <1>11 DEF Prompted, Typing, Splitting, SplitRight
<1>13. QED  BY <1>10, <1>12 DEF PInv

(* The prompt goes on, or the program ends. *)
LEMMA Returns == PInv /\ (NoCommand \/ EndOfInput \/ Again \/ Over) => PInv'
<1> SUFFICES ASSUME PInv, NoCommand \/ EndOfInput \/ Again \/ Over PROVE PInv'
  OBVIOUS
<1>1. UNCHANGED ovars /\ UNCHANGED lvars /\ (pc' = pc \/ (source = "prompt" /\ pc' \in {"prompt", "over"}))
  <2>1. CASE NoCommand \/ EndOfInput
    <3>1. pc \in {"words", "prompt"} /\ pc' \in {"prompt", "over"} /\ UNCHANGED ovars /\ UNCHANGED lvars
      BY <2>1 DEF NoCommand, EndOfInput
    <3>2. source = "prompt"  BY <3>1 DEF PInv, Prompted, Typing
    <3>3. QED  BY <3>1, <3>2
  <2>2. CASE Again  BY <2>2 DEF Again
  <2>3. CASE Over  BY <2>3 DEF Over, pvars, vars, lvars, ovars
  <2>4. QED  BY <2>1, <2>2, <2>3
<1>2. UNCHANGED <<source, line, text, counted, at, words, typed>>  BY <1>1 DEF lvars
<1>3. IInv'  BY <1>1, OptionsIdle DEF PInv
<1>4. WordsOf' = WordsOf /\ Terminated' = Terminated
  BY <1>2 DEF WordsOf, Terminated, Beginnings
<1>5. Prompted /\ Splitting /\ SplitRight  BY DEF PInv
<1>6. Filled => Filled'  BY <1>2 DEF Filled
<1>7. Prompted'  BY <1>1, <1>2, <1>5, <1>6 DEF Prompted, Typing
<1>8. Splitting'
  <2>1. Beginnings' = Beginnings  BY <1>2 DEF Beginnings
  <2>2. InText => InText'  BY <1>2, <2>1 DEF InText
  <2>3. Beyond => Beyond'  BY <1>2, <1>4 DEF Beyond
  <2>4. QED  BY <1>1, <1>2, <1>5, <2>1, <2>2, <2>3 DEF Splitting
<1>9. SplitRight'  BY <1>1, <1>2, <1>4, <1>5 DEF SplitRight
<1>10. QED  BY <1>3, <1>7, <1>8, <1>9 DEF PInv

(* A step of the command is none of the prompt. *)
LEMMA Works == PInv /\ (Scan \/ Command) /\ UNCHANGED lvars => PInv'
<1> SUFFICES ASSUME PInv, Scan \/ Command, UNCHANGED lvars PROVE PInv'
  OBVIOUS
<1>1. IInv'  BY OptionsStep DEF PInv
<1>2. UNCHANGED <<source, line, text, counted, at, words, typed>>  BY DEF lvars
<1>3. pc' \in {"scan", "cluster", "parsed", "files", "strings", "done", "refused"}
  <2>1. CASE Scan
    <3>1. CASE SkipValue  BY <3>1 DEF SkipValue
    <3>2. CASE Plain  BY <3>2 DEF Plain
    <3>3. CASE Stop  BY <3>3 DEF Stop
    <3>4. CASE LongOption
      BY <3>4, Zenon DEF LongOption, Error, NextArgument
    <3>5. CASE Cluster  BY <3>5 DEF Cluster
    <3>6. CASE UnknownFlag  BY <3>6 DEF UnknownFlag, Error
    <3>7. CASE Flag  BY <3>7 DEF Flag
    <3>8. CASE FlagWithRest  BY <3>8 DEF FlagWithRest, Error
    <3>9. CASE FlagWithNext  BY <3>9 DEF FlagWithNext, Error
    <3>10. CASE ClusterEnds  BY <3>10 DEF ClusterEnds, NextArgument
    <3>11. CASE ScanEnds  BY <3>11 DEF ScanEnds
    <3>12. QED
      BY <2>1, <3>1, <3>2, <3>3, <3>4, <3>5, <3>6, <3>7, <3>8, <3>9, <3>10, <3>11 DEF Scan
  <2>2. CASE Command
    BY <2>2 DEF Command, Digest, Refuse, Error, AskPassword, Accept, DigestStdin, DigestNoStdin,
                DigestSkip, DigestFile, DigestFilesEnd, DigestString, DigestEnds
  <2>3. QED  BY <2>1, <2>2
<1>4. Filled => Filled'  BY <1>2 DEF Filled
<1>5. Prompted' /\ Splitting' /\ SplitRight'
  BY <1>2, <1>3, <1>4 DEF PInv, Prompted, Typing, Splitting, SplitRight
<1>6. QED  BY <1>1, <1>5 DEF PInv

LEMMA PromptStarts == PromptInit => PInv
<1> SUFFICES ASSUME PromptInit PROVE PInv
  OBVIOUS
<1>1. CASE source = "main" /\ Init
  <2>1. kind \in Kinds /\ argv \in Argvs[kind] /\ Started /\ pc = "scan"  BY <1>1 DEF Init
  <2>2. PICK a : a = argv  OBVIOUS
  <2>3. a \in Seq(Text) /\ \A k \in 1 .. Len(a) : a[k] # NULL  BY <2>1, <2>2, ArgvAssumption
  <2>4. a \in Seq(Item)
    <3>1. Text \subseteq Item  BY Literals
    <3>2. \A k \in 1 .. Len(a) : a[k] \in Text  BY <2>3, ElementOfSeq
    <3>3. Len(a) \in Nat /\ a = [k \in 1 .. Len(a) |-> a[k]]  BY <2>3
    <3>4. \A k \in 1 .. Len(a) : a[k] \in Item  BY <3>1, <3>2
    <3>5. QED  BY <3>3, <3>4
  <2>5. IInv  BY <2>1, <2>2, <2>3, <2>4, OptionsStarts
  <2>6. QED  BY <1>1, <2>1, <2>5 DEF PInv, Prompted, Typing, Splitting, SplitRight
<1>2. CASE /\ source = "prompt" /\ line \in Garbage /\ kind = "digest" /\ argv = <<>>
           /\ Started /\ pc = "prompt"
  <2>1. argv \in Seq(Item) /\ \A k \in 1 .. Len(argv) : argv[k] # NULL  BY <1>2
  <2>2. kind \in Kinds  BY <1>2 DEF Kinds
  <2>3. IInv  BY <1>2, <2>1, <2>2, OptionsStarts DEF Scanning, Parsed
  <2>4. Filled
    <3>1. words = <<>> /\ <<>> \in Seq(Seq(Byte))  BY EmptySeq DEF PromptInit
    <3>2. QED  BY <1>2, <3>1, LineAssumption DEF Filled
  <2>5. QED  BY <1>2, <2>3, <2>4 DEF PInv, Prompted, Typing, Splitting, SplitRight
<1>3. QED  BY <1>1, <1>2 DEF PromptInit

LEMMA PromptSteps == PInv /\ [PromptNext]_pvars => PInv'
<1> SUFFICES ASSUME PInv, [PromptNext]_pvars PROVE PInv'
  OBVIOUS
<1>1. CASE PromptNext
  <2>1. CASE ReadLine  BY <2>1, LineRead
  <2>2. CASE ParseWord  BY <2>2, WordParsed
  <2>3. CASE Undefined \/ Split  BY <2>3, Splits
  <2>4. CASE CommandTyped  BY <2>4, Calls
  <2>5. CASE NoCommand \/ EndOfInput \/ Again \/ Over  BY <2>5, Returns
  <2>6. CASE (Scan \/ Command) /\ UNCHANGED lvars  BY <2>6, Works
  <2>7. QED  BY <1>1, <2>1, <2>2, <2>3, <2>4, <2>5, <2>6 DEF PromptNext
<1>2. CASE UNCHANGED pvars
  <2>2. UNCHANGED ovars /\ UNCHANGED <<source, line, text, counted, at, words, typed>> /\ pc' = pc
    BY <1>2 DEF pvars, vars, ovars
  <2>3. IInv'  BY <2>2, OptionsIdle DEF PInv
  <2>4. Prompted' /\ Splitting' /\ SplitRight'
    <3>1. Beginnings' = Beginnings  BY <2>2 DEF Beginnings
    <3>2. WordsOf' = WordsOf /\ Terminated' = Terminated  BY <2>2, <3>1 DEF WordsOf, Terminated
    <3>3. (InText => InText') /\ (Filled => Filled')  BY <2>2, <3>1 DEF InText, Filled
    <3>4. Beyond => Beyond'  BY <2>2, <3>2 DEF Beyond
    <3>5. QED
      BY <2>2, <3>1, <3>2, <3>3, <3>4 DEF PInv, Prompted, Typing, Splitting, SplitRight
  <2>5. QED  BY <2>3, <2>4 DEF PInv
<1>3. QED  BY <1>1, <1>2

THEOREM PromptInvariant == PromptSpec => []PInv
<1>1. PromptInit => PInv  BY PromptStarts
<1>2. PInv /\ [PromptNext]_pvars => PInv'  BY PromptSteps
<1>3. QED  BY <1>1, <1>2, PTL DEF PromptSpec

-----------------------------------------------------------------------------
(* The theorems.                                                           *)

(* A line that ends in white space is split into its words, whatever earlier lines left
   in the buffer, and one that does not is as well, unless its last word ran into what
   is behind it (SplitRight). *)
THEOREM SplitRightHolds == PromptSpec => []SplitRight
<1>1. PInv => SplitRight  BY DEF PInv
<1>2. QED  BY <1>1, PromptInvariant, PTL

(* No argument is the value of two options, and none that is a value is read as an option
   or left for the command, whatever was typed (ValueOnce). *)
THEOREM ValueOnceHolds == PromptSpec => []ValueOnce
<1>1. PInv => ValueOnce
  <2>1. SUFFICES ASSUME Once,
                        NEW m \in 1 .. Len(calls), NEW n \in 1 .. Len(calls), calls[m].from # 0
                 PROVE  /\ calls[n].from = calls[m].from => m = n
                        /\ pc \in {"parsed", "files", "strings", "done"} => args[calls[m].from] = NULL
    BY DEF PInv, IInv, ValueOnce
  <2>2. Taken(calls[m].from)  BY <2>1 DEF Once
  <2>3. pc \in {"parsed", "files", "strings", "done"} => args[calls[m].from] = NULL
    BY <2>2 DEF Taken, Parsed
  <2>4. calls[n].from = calls[m].from => m = n  BY <2>1 DEF Once
  <2>5. QED  BY <2>3, <2>4
<1>2. QED  BY <1>1, PromptInvariant, PTL

(* What the scan leaves to the command is what the conventions of getopt_long leave,
   but for a lone dash (LeftAsGetopt). *)
THEOREM LeftAsGetoptHolds == PromptSpec => []LeftAsGetopt
<1>1. PInv => LeftAsGetopt
  <2>1. SUFFICES ASSUME Ruled, pc = "done"
                 PROVE  Left = {k \in 1 .. Len(argv) :
                                   \/ ~Open(k)
                                   \/ /\ ~IsValue(k) /\ ~(Len(argv[k]) > 0 /\ argv[k][1] = Dash)}
    BY DEF PInv, IInv, LeftAsGetopt
  <2>2. Left = {k \in 1 .. Len(argv) : ~Open(k) \/ ~(IsValue(k) \/ Dashed(argv[k]))}
    BY <2>1 DEF Ruled, Parsed
  <2>3. QED  BY <2>2 DEF Dashed
<1>2. QED  BY <1>1, PromptInvariant, PTL

(* What was printed, when all was. *)
LEMMA AllPrinted ==
  ASSUME Types, NEW read \in SUBSET (1 .. Len(Readable)), Rows(read, Cardinality(SumCalls))
  PROVE  printed = [n \in 1 .. Cardinality(read) |-> Readable[Nth(read, n)]] \o sums
<1> DEFINE c == Cardinality(read)
           f == [n \in 1 .. c |-> Readable[Nth(read, n)]]
<1>1. /\ Readable \in Seq(Item) /\ Len(Readable) \in Nat
      /\ sums \in Seq(Item) /\ Len(sums) = Cardinality(SumCalls) /\ Cardinality(SumCalls) \in Nat
      /\ printed \in Seq(Item)
  BY ReadableTypes, SumTypes DEF Types
<1>2. read \in SUBSET Nat /\ IsFiniteSet(read) /\ c \in Nat
  <2>1. 1 \in Int /\ Len(Readable) \in Int  BY <1>1
  <2>2. IsFiniteSet(1 .. Len(Readable))  BY <2>1, FS_Interval
  <2>3. IsFiniteSet(read)  BY <2>2, FS_Subset
  <2>4. c \in Nat  BY <2>3, FS_CardinalityType
  <2>5. QED  BY <2>3, <2>4
<1>3. \A n \in 1 .. c : Nth(read, n) \in read  BY <1>2, RankExists
<1>4. \A n \in 1 .. c : Readable[Nth(read, n)] \in Item  BY <1>1, <1>3, ElementOfSeq
<1>5. /\ Len(printed) = c + Len(sums)
      /\ \A n \in 1 .. c : printed[n] = Readable[Nth(read, n)]
      /\ \A n \in 1 .. Len(sums) : printed[c + n] = sums[n]
  BY <1>1 DEF Rows
<1> HIDE DEF c
<1>6. f \in Seq(Item) /\ Len(f) = c /\ \A n \in 1 .. c : f[n] = Readable[Nth(read, n)]
  BY <1>2, <1>4
<1> HIDE DEF f
<1>7. PICK g : g = f \o sums  OBVIOUS
<1>8. PICK s : s = sums  OBVIOUS
<1>9. PICK p : p = printed  OBVIOUS
<1>10. /\ g \in Seq(Item) /\ Len(g) = c + Len(s)
       /\ \A n \in 1 .. c + Len(s) : g[n] = IF n <= c THEN f[n] ELSE s[n - c]
  BY <1>1, <1>6, <1>7, <1>8, ConcatProperties
<1>11. Len(s) \in Nat /\ p \in Seq(Item) /\ Len(p) = c + Len(s)  BY <1>1, <1>5, <1>8, <1>9
<1>12. \A n \in 1 .. Len(p) : p[n] = g[n]
  <2>1. SUFFICES ASSUME NEW n \in 1 .. c + Len(s) PROVE p[n] = g[n]
    BY <1>11
  <2>2. CASE n <= c
    <3>1. n \in 1 .. c  BY <1>2, <1>11, <2>2
    <3>2. QED  BY <1>5, <1>6, <1>9, <1>10, <2>2, <3>1
  <2>3. CASE ~(n <= c)
    <3>1. n - c \in 1 .. Len(s) /\ c + (n - c) = n  BY <1>2, <1>11, <2>3
    <3>2. p[c + (n - c)] = s[n - c]  BY <1>5, <1>8, <1>9, <3>1
    <3>3. QED  BY <1>10, <2>3, <3>1, <3>2
  <2>4. QED  BY <2>2, <2>3
<1>13. p = g  BY <1>10, <1>11, <1>12, SeqEqual
<1>14. QED  BY <1>7, <1>9, <1>13 DEF f, c

(* A digest prints one line for everything that it could read and for every string, in
   their order, returns the number of the rest, and its loop does not leave the command
   line (EachOnce). *)
THEOREM EachOnceHolds == PromptSpec => []EachOnce
<1>1. PInv => EachOnce
  <2>1. SUFFICES ASSUME IInv PROVE EachOnce
    BY DEF PInv
  <2>2. Types /\ Counted /\ Printed  BY <2>1 DEF IInv
  <2>3. pc \in {"parsed", "files"} => nbr = Cardinality(Left)  BY <2>2 DEF Counted, Parsed
  <2>4. ASSUME pc = "files", i <= nbr PROVE i + shift <= Len(args)
    <3>1. i + shift <= Len(argv) + 1 /\ i - 1 = Cardinality(Kept(i + shift - 1))
      BY <2>2, <2>4 DEF Printed
    <3>2. i \in Nat \ {0} /\ shift \in Nat /\ Len(args) = Len(argv) /\ Len(argv) \in Nat
      BY <2>2, ArgTypes DEF Types
    <3>3. SUFFICES ASSUME i + shift = Len(argv) + 1 PROVE FALSE
      BY <3>1, <3>2
    <3>4. i + shift - 1 = Len(argv)  BY <3>2, <3>3
    <3>5. Kept(Len(argv)) = Left  BY <2>2, <3>2, KeptOfLeft
    <3>6. nbr = i - 1  BY <2>3, <2>4, <3>1, <3>4, <3>5
    <3>7. QED  BY <2>4, <3>2, <3>6
  <2>5. ASSUME pc = "done", kind = "digest"
        PROVE  /\ ret = Len(Readable) + Len(sums) - Len(printed)
               /\ \E read \in SUBSET DOMAIN Readable :
                     printed = [n \in 1 .. Cardinality(read) |-> Readable[Nth(read, n)]] \o sums
    <3>1. Shown(Len(Readable), Cardinality(SumCalls))  BY <2>2, <2>5 DEF Printed
    <3>2. PICK read \in SUBSET (1 .. Len(Readable)) :
             Rows(read, Cardinality(SumCalls)) /\ ret = Len(Readable) - Cardinality(read)
      BY <3>1 DEF Shown
    <3>3. /\ Readable \in Seq(Item) /\ Len(Readable) \in Nat
          /\ Len(sums) = Cardinality(SumCalls) /\ Cardinality(SumCalls) \in Nat
      BY <2>2, ReadableTypes, SumTypes
    <3>4. Cardinality(read) \in Nat
      <4>1. 1 \in Int /\ Len(Readable) \in Int  BY <3>3
      <4>2. QED  BY <4>1, FS_Interval, FS_Subset, FS_CardinalityType
    <3>5. Len(printed) = Cardinality(read) + Len(sums)  BY <3>2, <3>3 DEF Rows
    <3>6. ret = Len(Readable) + Len(sums) - Len(printed)  BY <3>2, <3>3, <3>4, <3>5
    <3>7. DOMAIN Readable = 1 .. Len(Readable)  BY <3>3
    <3>8. printed = [n \in 1 .. Cardinality(read) |-> Readable[Nth(read, n)]] \o sums
      BY <2>2, <3>2, AllPrinted
    <3>9. QED  BY <3>6, <3>7, <3>8
  <2>6. QED  BY <2>3, <2>4, <2>5 DEF EachOnce
<1>2. QED  BY <1>1, PromptInvariant, PTL

=============================================================================
