---------------------------- MODULE ReaderProofs ----------------------------
(***************************************************************************)
(* Proofs about the two readers of descriptors.  Of read_file, for every   *)
(* set of files, every byte alphabet and every initial capacity of at      *)
(* least two.  And of ft_gnl, for every set of descriptors, every text     *)
(* they may give and every size of the buffer.                             *)
(***************************************************************************)
EXTENDS ReadFile, Gnl, SequenceTheorems, WellFoundedInduction, TLAPS


(* A fresh vector is a vector: its memory is as long as its header says, and *)
(* holds nothing yet (ft_vector_create).                                     *)
LEMMA CreateVector ==
  ASSUME NEW c \in Nat
  PROVE  /\ IsVector(ft_vector_create(c))
         /\ ft_vector_create(c).len = 0
         /\ ft_vector_create(c).capacity = c
BY DEF IsVector, ft_vector_create, Cell

(* realloc to a larger block gives a vector of that capacity that keeps the  *)
(* length and every byte of the smaller one (_vector_realloc).               *)
LEMMA ReallocKeeps ==
  ASSUME NEW v, IsVector(v), NEW c \in Nat
  PROVE  /\ IsVector(_vector_realloc(v, c))
         /\ _vector_realloc(v, c).len = v.len
         /\ _vector_realloc(v, c).capacity = c
         /\ \A i \in 0 .. v.capacity - 1 :
              i < c => _vector_realloc(v, c).data[i] = v.data[i]
<1> DEFINE f == [i \in 0 .. c - 1 |-> IF i < v.capacity THEN v.data[i] ELSE Junk]
<1>1. _vector_realloc(v, c) = [v EXCEPT !.capacity = c, !.data = f]
  BY DEF _vector_realloc
<1>2. f \in [0 .. c - 1 -> Cell]  BY DEF IsVector, Cell
<1>3. \A i \in 0 .. v.capacity - 1 : i < c => f[i] = v.data[i]  BY DEF IsVector
<1> HIDE DEF f
<1>4. QED  BY <1>1, <1>2, <1>3 DEF IsVector

(* NULL is not a vector. *)
LEMMA NullIsNoVector == ~IsVector(NoVector)
<1>1. NoVector.capacity = -1  BY DEF NoVector
<1>2. QED  BY <1>1 DEF IsVector

(* What a read stores inside the block lands where it was asked to, and      *)
(* disturbs neither the header nor the bytes before it (read into *vec+size).*)
LEMMA StoreKeeps ==
  ASSUME file \in Seq(Byte), pos \in Nat, IsVector(vec),
         NEW n \in Nat, pos + n <= Len(file), pos + n <= vec.capacity
  PROVE  /\ IsVector(Store(vec, pos, n))
         /\ Store(vec, pos, n).len = vec.len
         /\ Store(vec, pos, n).capacity = vec.capacity
         /\ \A i \in 0 .. pos - 1 : Store(vec, pos, n).data[i] = vec.data[i]
         /\ \A i \in pos .. pos + n - 1 : Store(vec, pos, n).data[i] = file[i + 1]
<1> DEFINE f == [i \in 0 .. vec.capacity - 1 |->
                   IF pos <= i /\ i < pos + n THEN file[pos + (i - pos) + 1]
                                              ELSE vec.data[i]]
<1>1. Store(vec, pos, n) = [vec EXCEPT !.data = f]  BY DEF Store
<1>2. f \in [0 .. vec.capacity - 1 -> Cell]
  <2>1. ASSUME NEW i \in 0 .. vec.capacity - 1  PROVE f[i] \in Cell
    <3>1. CASE pos <= i /\ i < pos + n
      <4>1. i + 1 \in 1 .. Len(file)  BY <3>1, <2>1 DEF IsVector
      <4>2. file[i + 1] \in Byte  BY <4>1
      <4>3. f[i] = file[i + 1]  BY <3>1, <2>1 DEF IsVector
      <4>4. QED  BY <4>2, <4>3 DEF Cell
    <3>2. CASE ~(pos <= i /\ i < pos + n)  BY <3>2, <2>1 DEF IsVector
    <3>3. QED  BY <3>1, <3>2
  <2>2. QED  BY <2>1
<1>3. /\ \A i \in 0 .. pos - 1 : f[i] = vec.data[i]
      /\ \A i \in pos .. pos + n - 1 : f[i] = file[i + 1]
  BY DEF IsVector
<1> HIDE DEF f
<1>4. /\ Store(vec, pos, n).data = f
      /\ Store(vec, pos, n).len = vec.len
      /\ Store(vec, pos, n).capacity = vec.capacity
      /\ Store(vec, pos, n).dont_shrink = vec.dont_shrink
      /\ IsVector(Store(vec, pos, n))
  BY <1>1, <1>2 DEF IsVector
<1>5. QED  BY <1>3, <1>4

(* read_file starts in a state that satisfies the inductive invariant. *)
LEMMA InitIInv == Init => IInv
BY CapacityAssumption
   DEF Init, IInv, TypeOK, CreateInv, ReadInv, LoopInv, DoneInv

(* Every step of read_file preserves the inductive invariant, an action at a  *)
(* time: Create and Grow rest on the lemmas about the vector, ReadBytes on    *)
(* StoreKeeps.                                                                *)
LEMMA NextIInv == IInv /\ [Next]_vars => IInv'
<1> SUFFICES ASSUME IInv, [Next]_vars PROVE IInv'  OBVIOUS
<1> USE DEF IInv
<1>f. file \in Seq(Byte) /\ Len(file) \in Nat
  BY FilesAssumption DEF TypeOK
<1>1. CASE Create
  <2>1. /\ IsVector(ft_vector_create(capacity))
        /\ ft_vector_create(capacity).len = 0
        /\ ft_vector_create(capacity).capacity = capacity
    BY CreateVector DEF TypeOK
  <2>2. CASE pc' = "read"
    <3>1. Reading'
      BY <1>1, <1>f, <2>1, <2>2, CapacityAssumption, NullIsNoVector
      DEF Create, CreateInv, Reading, Return
    <3>2. QED
      BY <1>1, <2>1, <2>2, <3>1, CapacityAssumption
      DEF Create, TypeOK, CreateInv, ReadInv, LoopInv, DoneInv, Reading, Return
  <2>3. CASE pc' = "done"
    BY <1>1, <2>3 DEF Create, TypeOK, CreateInv, ReadInv, LoopInv, DoneInv, Return
  <2>4. QED  BY <1>1, <2>2, <2>3 DEF Create, Return
<1>2. CASE ReadBytes
  <2>1. PICK n \in 1 .. Request :
           /\ pos + n <= Len(file)
           /\ vec' = Store(vec, size, n)
           /\ pos' = pos + n
           /\ nread' = n
           /\ size' = size + n
    BY <1>2 DEF ReadBytes
  <2>2. Reading /\ size = pos /\ pos < capacity - 1  BY <1>2 DEF ReadBytes, ReadInv
  <2>3. n \in Nat /\ n > 0 /\ pos \in Nat /\ capacity \in Nat /\ pos + n <= capacity - 1
    BY <2>1, <2>2 DEF Request, TypeOK
  <2>4. /\ IsVector(vec')
        /\ vec'.len = vec.len
        /\ vec'.capacity = vec.capacity
        /\ \A i \in 0 .. pos - 1 : vec'.data[i] = vec.data[i]
        /\ \A i \in pos .. pos + n - 1 : vec'.data[i] = file[i + 1]
    <3>1. IsVector(vec) /\ pos + n <= vec.capacity  BY <2>2, <2>3 DEF Reading
    <3>2. /\ IsVector(Store(vec, pos, n))
          /\ Store(vec, pos, n).len = vec.len
          /\ Store(vec, pos, n).capacity = vec.capacity
          /\ \A i \in 0 .. pos - 1 : Store(vec, pos, n).data[i] = vec.data[i]
          /\ \A i \in pos .. pos + n - 1 : Store(vec, pos, n).data[i] = file[i + 1]
      BY <1>f, <2>1, <2>3, <3>1, StoreKeeps
    <3>3. vec' = Store(vec, pos, n)  BY <2>1, <2>2
    <3>4. QED  BY <3>2, <3>3
  <2>5. ASSUME NEW i \in 0 .. pos' - 1 PROVE vec'.data[i] = file[i + 1]
    <3>1. pos' = pos + n  BY <2>1
    <3>2. CASE i < pos
      <4>1. i \in 0 .. pos - 1  BY <2>3, <3>2
      <4>2. vec.data[i] = file[i + 1]  BY <2>2, <4>1 DEF Reading
      <4>3. QED  BY <2>4, <4>1, <4>2
    <3>3. CASE ~(i < pos)
      <4>1. i \in pos .. pos + n - 1  BY <2>3, <3>1, <3>3
      <4>2. QED  BY <2>4, <4>1
    <3>4. QED  BY <3>2, <3>3
  <2>6. Reading'
    BY <1>2, <2>1, <2>2, <2>3, <2>4, <2>5 DEF Reading, ReadBytes
  <2>7. TypeOK'
    BY <1>2, <2>1, <2>2, <2>3, <2>4 DEF TypeOK, ReadBytes
  <2>8. QED
    BY <1>2, <2>1, <2>2, <2>3, <2>6, <2>7
    DEF ReadBytes, CreateInv, ReadInv, LoopInv, DoneInv
<1>3. CASE ReadNothing
  <2>1. Reading /\ size = pos /\ pos < capacity - 1  BY <1>3 DEF ReadNothing, ReadInv
  <2>2. pos = Len(file)  BY <1>3, <2>1 DEF ReadNothing, Request, TypeOK
  <2>3. Reading'  BY <1>3, <2>1 DEF ReadNothing, Reading
  <2>4. QED
    BY <1>3, <2>1, <2>2, <2>3
    DEF ReadNothing, TypeOK, CreateInv, ReadInv, LoopInv, DoneInv
<1>4. CASE ReadFails
  <2>1. Reading /\ size = pos  BY <1>4 DEF ReadFails, ReadInv
  <2>2. Reading'  BY <1>4, <2>1 DEF ReadFails, Reading
  <2>3. QED
    BY <1>4, <2>1, <2>2
    DEF ReadFails, TypeOK, CreateInv, ReadInv, LoopInv, DoneInv
<1>5. CASE Loop
  <2>1. Reading /\ size = pos  BY <1>5 DEF Loop, LoopInv, TypeOK
  <2>2. Reading'  BY <1>5, <2>1 DEF Loop, Reading
  <2>3. QED
    BY <1>5, <2>1, <2>2
    DEF Loop, TypeOK, CreateInv, ReadInv, LoopInv, DoneInv, Reading
<1>6. CASE Grow
  <2>1. Reading /\ size = pos /\ pos = capacity - 1 /\ capacity \in Nat
    BY <1>6 DEF Grow, LoopInv, TypeOK
  <2>2. CASE pc' = "read"
    <3>1. vec' = _vector_realloc(vec, capacity * 2)
      BY <1>6, <2>1, <2>2 DEF Grow, ft_vector_reserve, ReserveAllocates, Reading, Return
    <3>2. /\ IsVector(vec')
          /\ vec'.len = vec.len
          /\ vec'.capacity = capacity * 2
          /\ \A i \in 0 .. vec.capacity - 1 : vec'.data[i] = vec.data[i]
      <4>1. IsVector(vec) /\ vec.capacity = capacity /\ capacity * 2 \in Nat
        BY <2>1 DEF Reading
      <4>2. /\ IsVector(_vector_realloc(vec, capacity * 2))
            /\ _vector_realloc(vec, capacity * 2).len = vec.len
            /\ _vector_realloc(vec, capacity * 2).capacity = capacity * 2
            /\ \A i \in 0 .. vec.capacity - 1 : i < capacity * 2 =>
                 _vector_realloc(vec, capacity * 2).data[i] = vec.data[i]
        BY <4>1, ReallocKeeps
      <4>3. QED  BY <2>1, <3>1, <4>1, <4>2
    <3>3. Reading'
      <4>1. /\ capacity' = capacity * 2 /\ pos' = pos /\ file' = file
            /\ ret' = ret
        BY <1>6, <2>2 DEF Grow, Return
      <4>2. QED  BY <2>1, <3>2, <4>1 DEF Reading, TypeOK
    <3>4. QED
      <4>1. /\ capacity' = capacity * 2 /\ pos' = pos /\ file' = file
            /\ ret' = ret /\ size' = size /\ nread' = nread
        BY <1>6, <2>2 DEF Grow, Return
      <4>2. TypeOK'  BY <2>1, <2>2, <3>2, <4>1 DEF TypeOK
      <4>3. pos' < capacity' - 1  BY <2>1, <4>1 DEF Reading
      <4>4. QED  BY <2>1, <2>2, <3>3, <4>1, <4>2, <4>3
                 DEF CreateInv, ReadInv, LoopInv, DoneInv
  <2>3. CASE pc' = "done"
    BY <1>6, <2>1, <2>3 DEF Grow, TypeOK, CreateInv, ReadInv, LoopInv, DoneInv, Return
  <2>4. QED  BY <1>6, <2>2, <2>3 DEF Grow, Return
<1>7. CASE GiveUp
  BY <1>7 DEF GiveUp, TypeOK, CreateInv, ReadInv, LoopInv, DoneInv, Return
<1>8. CASE Terminate
  <2> DEFINE ended == [vec EXCEPT !.data[size] = NUL]
  <2>1. /\ Reading /\ size = pos /\ pos = Len(file) /\ pos < capacity - 1
        /\ pos \in Nat /\ capacity \in Nat
    BY <1>8 DEF Terminate, LoopInv, TypeOK
  <2>2. /\ IsVector(ended)
        /\ ended.capacity = capacity
        /\ ended.data[pos] = NUL
        /\ \A i \in 0 .. pos - 1 : ended.data[i] = file[i + 1]
    <3> DEFINE d == [vec.data EXCEPT ![pos] = NUL]
    <3>1. /\ IsVector(vec) /\ vec.capacity = capacity
          /\ \A i \in 0 .. pos - 1 : vec.data[i] = file[i + 1]
      BY <2>1 DEF Reading
    <3>2. vec.data \in [0 .. capacity - 1 -> Cell]  BY <3>1 DEF IsVector
    <3>3. NUL \in Cell  BY ByteAssumption DEF Cell
    <3>4. d \in [0 .. capacity - 1 -> Cell]  BY <3>2, <3>3
    <3>5. d[pos] = NUL
      <4>1. pos \in 0 .. capacity - 1  BY <2>1
      <4>2. QED  BY <3>2, <4>1
    <3>6. ASSUME NEW i \in 0 .. pos - 1 PROVE d[i] = file[i + 1]
      <4>1. i \in 0 .. capacity - 1 /\ i # pos  BY <2>1
      <4>2. d[i] = vec.data[i]  BY <3>2, <4>1
      <4>3. QED  BY <3>1, <4>2
    <3>7. ended = [vec EXCEPT !.data = d]  BY <2>1
    <3> HIDE DEF d, ended
    <3>8. /\ ended.data = d /\ ended.len = vec.len /\ ended.capacity = vec.capacity
          /\ ended.dont_shrink = vec.dont_shrink
          /\ ended \in [len : Nat, capacity : Nat, dont_shrink : BOOLEAN, data : {d}]
      BY <3>1, <3>7 DEF IsVector
    <3>9. QED  BY <3>1, <3>4, <3>5, <3>6, <3>8 DEF IsVector
  <2> HIDE DEF ended
  <2> DEFINE headed == ResizeHeader(ended, size + 1)
  <2>3. /\ IsVector(headed)
        /\ headed.len = pos + 1
        /\ headed.capacity = capacity
        /\ headed.data[pos] = NUL
        /\ \A i \in 0 .. pos - 1 : headed.data[i] = file[i + 1]
    BY <2>1, <2>2 DEF ResizeHeader, IsVector
  <2> HIDE DEF headed
  <2>4. vec' \in {_vector_realloc(headed, pos + 1), headed}
    BY <1>8, <2>1 DEF Terminate, ft_vector_resize, ended, headed
  <2>5. /\ IsVector(vec')
        /\ vec'.len = pos + 1
        /\ vec'.len <= vec'.capacity
        /\ vec'.data[pos] = NUL
        /\ \A i \in 0 .. pos - 1 : vec'.data[i] = file[i + 1]
    <3>1. CASE vec' = headed  BY <2>1, <2>3, <3>1
    <3>2. CASE vec' = _vector_realloc(headed, pos + 1)
      <4>1. /\ IsVector(vec')
            /\ vec'.len = headed.len
            /\ vec'.capacity = pos + 1
            /\ \A i \in 0 .. headed.capacity - 1 :
                 i < pos + 1 => vec'.data[i] = headed.data[i]
        <5>1. pos + 1 \in Nat  BY <2>1
        <5>2. /\ IsVector(_vector_realloc(headed, pos + 1))
              /\ _vector_realloc(headed, pos + 1).len = headed.len
              /\ _vector_realloc(headed, pos + 1).capacity = pos + 1
              /\ \A i \in 0 .. headed.capacity - 1 : i < pos + 1 =>
                   _vector_realloc(headed, pos + 1).data[i] = headed.data[i]
          BY <2>3, <5>1, ReallocKeeps
        <5>3. QED  BY <3>2, <5>2
      <4>2. QED  BY <2>1, <2>3, <4>1
    <3>3. QED  BY <2>4, <3>1, <3>2
  <2>6. QED
    BY <1>8, <2>1, <2>5
    DEF Terminate, TypeOK, CreateInv, ReadInv, LoopInv, DoneInv, Return
<1>9. CASE UNCHANGED vars
  BY <1>9 DEF vars, TypeOK, CreateInv, ReadInv, LoopInv, DoneInv, Reading
<1>10. QED
  BY <1>1, <1>2, <1>3, <1>4, <1>5, <1>6, <1>7, <1>8, <1>9
  DEF Next, Read, Returned

(* IInv holds in every state of read_file. *)
THEOREM Invariance == Spec => []IInv
BY InitIInv, NextIInv, PTL DEF Spec

(* Every variable keeps its type: the buffer is NULL or a block as long as its *)
(* header says.                                                                *)
THEOREM TypeCorrect == Spec => []TypeOK
<1>1. IInv => TypeOK  BY DEF IInv
<1>2. QED  BY <1>1, Invariance, PTL

(* No read of read_file asks for more than the block has room for, or for     *)
(* nothing at all, whatever the initial capacity.                             *)
THEOREM BufferBounds == Spec => []InBounds
<1>1. IInv => InBounds
  BY DEF IInv, InBounds, ReadInv, Reading, Request, TypeOK
<1>2. QED  BY <1>1, Invariance, PTL

(* IInv is strong enough: with it a success hands over the stream, whole, and  *)
(* ended by a NUL inside the block.                                            *)
LEMMA PayloadOfIInv == IInv => WholeStream
<1> SUFFICES ASSUME IInv, ret = "success" PROVE WholeStream  BY DEF WholeStream
<1>1. file \in Seq(Byte) /\ Len(file) \in Nat
  BY FilesAssumption DEF IInv, TypeOK
<1>2. pc = "done"
  BY DEF IInv, TypeOK, CreateInv, ReadInv, LoopInv, Reading
<1>3. /\ vec.len = Len(file) + 1
      /\ vec.len <= vec.capacity
      /\ vec.data[Len(file)] = NUL
      /\ \A i \in 0 .. Len(file) - 1 : vec.data[i] = file[i + 1]
  BY <1>2 DEF IInv, DoneInv
<1>4. payload = [i \in 1 .. Len(file) |-> vec.data[i - 1]]
  BY <1>1, <1>3 DEF payload
<1>5. \A i \in 1 .. Len(file) : vec.data[i - 1] = file[i]
  <2> SUFFICES ASSUME NEW i \in 1 .. Len(file) PROVE vec.data[i - 1] = file[i]
    OBVIOUS
  <2>1. i - 1 \in 0 .. Len(file) - 1 /\ (i - 1) + 1 = i  BY <1>1
  <2>2. QED  BY <1>3, <2>1
<1>6. file = [i \in 1 .. Len(file) |-> file[i]]  BY <1>1
<1>7. payload = file  BY <1>4, <1>5, <1>6
<1>8. QED  BY <1>3, <1>7 DEF WholeStream

(* When read_file succeeds its caller holds the stream, the whole stream and   *)
(* a NUL after it, inside the block.                                           *)
THEOREM PayloadIsStream == Spec => []WholeStream
BY PayloadOfIInv, Invariance, PTL

(* read_file leaves NULL behind exactly when it fails. *)
THEOREM NoLeak == Spec => []FreedOnFailure
<1>1. IInv => FreedOnFailure
  BY NullIsNoVector DEF IInv, FreedOnFailure, DoneInv
<1>2. QED  BY <1>1, Invariance, PTL

(* The return value is chosen once: read_file is pending until its last step,  *)
(* and that step either delivers the stream or fails.                          *)
LEMMA ReturnsOnce ==
  ASSUME IInv, [Next]_vars
  PROVE  /\ file' = file
         /\ \/ ret' = ret /\ (ret # "none" => vec' = vec)
            \/ ret = "none" /\ ret' \in {"success", "failure"}
<1>1. CASE Create  BY <1>1 DEF Create, Return, IInv, CreateInv
<1>2. CASE Read
  BY <1>2 DEF Read, ReadBytes, ReadNothing, ReadFails, IInv, ReadInv, Reading
<1>3. CASE Loop  BY <1>3 DEF Loop
<1>4. CASE Grow  BY <1>4 DEF Grow, Return, IInv, LoopInv, Reading, TypeOK
<1>5. CASE GiveUp  BY <1>5 DEF GiveUp, Return, IInv, LoopInv, Reading, TypeOK
<1>6. CASE Terminate  BY <1>6 DEF Terminate, Return, IInv, LoopInv, Reading, TypeOK
<1>7. CASE UNCHANGED vars  BY <1>7 DEF vars
<1>8. QED  BY <1>1, <1>2, <1>3, <1>4, <1>5, <1>6, <1>7 DEF Next, Returned

(* read_file implements ReadAll: every step of it is a step of ReadAll or      *)
(* leaves what ReadAll talks about as it was.                                  *)
THEOREM Refinement == Spec => All!Init /\ [][All!Next]_<<file, outcome, payload>>
<1>1. Init => All!Init
  BY DEF Init, All!Init, outcome, payload
<1>2. IInv /\ WholeStream' /\ [Next]_vars => [All!Next]_<<file, outcome, payload>>
  <2> SUFFICES ASSUME IInv, WholeStream', [Next]_vars
               PROVE  [All!Next]_<<file, outcome, payload>>
    OBVIOUS
  <2>2. file' = file  BY ReturnsOnce
  <2>3. CASE ret' = ret /\ (ret # "none" => vec' = vec)
    BY <2>2, <2>3 DEF outcome, payload
  <2>4. CASE ret = "none" /\ ret' = "success"
    BY <2>2, <2>4 DEF outcome, payload, WholeStream, All!Next, All!Deliver
  <2>5. CASE ret = "none" /\ ret' = "failure"
    BY <2>2, <2>5 DEF outcome, payload, All!Next, All!Fail
  <2>6. QED  BY ReturnsOnce, <2>3, <2>4, <2>5
<1>3. QED  BY <1>1, <1>2, Invariance, PayloadIsStream, PTL DEF Spec

-----------------------------------------------------------------------------
(* The lines of ft_gnl.  First, what is defined by recursion over a sequence. *)

(* A set of numbers has a least one. *)
LEMMA Least ==
  ASSUME NEW S \in SUBSET Nat, S # {}
  PROVE  \E m \in S : \A n \in S : m <= n
<1>1. PICK m \in S : \A n \in S : ~(<<n, m>> \in OpToRel(<, Nat))
  BY WFMin, NatLessThanWellFounded, Zenon
<1>2. \A n \in S : ~(n < m)  BY <1>1, Zenon DEF OpToRel
<1>3. QED  BY <1>2

LEMMA LeastIsMin ==
  ASSUME NEW S \in SUBSET Nat, S # {}
  PROVE  Min(S) \in S /\ \A p \in S : Min(S) <= p
<1>1. \E p \in S : \A q \in S : p <= q  BY Least
<1>2. QED  BY <1>1, Zenon DEF Min

(* What holds of 0 and of the number behind each that it holds of. *)
LEMMA Climbing ==
  ASSUME NEW top \in Nat, NEW S, 0 \in S, \A n \in 0 .. top - 1 : n \in S => n + 1 \in S
  PROVE  \A n \in 0 .. top : n \in S
<1> SUFFICES ASSUME NEW x \in 0 .. top, x \notin S PROVE FALSE
  OBVIOUS
<1> DEFINE Out == {n \in 0 .. top : n \notin S}
<1>1. PICK m \in Out : \A n \in Out : m <= n
  <2>1. Out \in SUBSET Nat /\ x \in Out  OBVIOUS
  <2>2. QED  BY <2>1, Least
<1>2. m \in 1 .. top  BY <1>1
<1>3. m - 1 \in 0 .. top - 1 /\ m - 1 \notin Out  BY <1>1, <1>2
<1>4. m - 1 \in S  BY <1>3
<1>5. (m - 1) + 1 \in S  BY <1>3, <1>4
<1>6. QED  BY <1>1, <1>2, <1>5

Stepping(step, top, T) == \A n \in 1 .. top, t \in T : step[<<n, t>>] \in T

(* A function that is defined from 0 upwards, each value from the one before. *)
LEMMA Recursion ==
  ASSUME NEW T, NEW first \in T, NEW top \in Nat, NEW step,
         Stepping(step, top, T)
  PROVE  \E f \in [0 .. top -> T] : f[0] = first /\ \A n \in 1 .. top : f[n] = step[<<n, f[n - 1]>>]
<1> DEFINE Made(m) == \E f \in [0 .. m -> T] :
                          f[0] = first /\ \A n \in 1 .. m : f[n] = step[<<n, f[n - 1]>>]
           S == {m \in 0 .. top : Made(m)}
<1>1. Made(0)
  <2> DEFINE f == [n \in 0 .. 0 |-> first]
  <2>1. f \in [0 .. 0 -> T] /\ f[0] = first  OBVIOUS
  <2> HIDE DEF f
  <2>2. \A n \in 1 .. 0 : f[n] = step[<<n, f[n - 1]>>]  OBVIOUS
  <2>3. QED  BY <2>1, <2>2
<1>2. ASSUME NEW m \in 0 .. top - 1, Made(m) PROVE Made(m + 1)
  <2>1. PICK f \in [0 .. m -> T] : f[0] = first /\ \A n \in 1 .. m : f[n] = step[<<n, f[n - 1]>>]
    BY <1>2
  <2> DEFINE g == [n \in 0 .. m + 1 |-> IF n = m + 1 THEN step[<<n, f[m]>>] ELSE f[n]]
  <2>2. step[<<m + 1, f[m]>>] \in T  BY <2>1 DEF Stepping
  <2>3. g \in [0 .. m + 1 -> T]  BY <2>1, <2>2
  <2>4. g[0] = first  BY <2>1
  <2>5. ASSUME NEW n \in 1 .. m + 1 PROVE g[n] = step[<<n, g[n - 1]>>]
    <3>1. g[n - 1] = f[n - 1]  OBVIOUS
    <3>2. n = m + 1 => g[n] = step[<<n, f[m]>>] /\ n - 1 = m  OBVIOUS
    <3>3. n # m + 1 => g[n] = f[n] /\ n \in 1 .. m  OBVIOUS
    <3>4. QED  BY <2>1, <3>1, <3>2, <3>3
  <2> HIDE DEF g
  <2>6. QED  BY <2>3, <2>4, <2>5
<1> HIDE DEF Made
<1>3. 0 \in S  BY <1>1
<1>4. \A m \in 0 .. top - 1 : m \in S => m + 1 \in S  BY <1>2
<1>5. \A m \in 0 .. top : m \in S
  <2> HIDE DEF S
  <2>1. QED  BY <1>3, <1>4, Climbing
<1>6. Made(top)
  <2>1. top \in 0 .. top  OBVIOUS
  <2>2. top \in S  BY <1>5, <2>1, Zenon
  <2>3. QED  BY <2>2
<1>7. QED  BY <1>6, Zenon DEF Made

(* The bytes of a text that are kept, as far as the n-th. *)
Keeping(g, s) ==
    /\ g[0] = <<>>
    /\ \A n \in 1 .. Len(s) : g[n] = IF s[n] = Nul THEN g[n - 1] ELSE Append(g[n - 1], s[n])

LEMMA BareKeeps ==
  ASSUME NEW T, NEW s \in Seq(T)
  PROVE  \E g \in [0 .. Len(s) -> Seq(T)] : Keeping(g, s) /\ Bare(s) = g[Len(s)]
<1> DEFINE top == Len(s)
           step == [x \in (1 .. top) \X Seq(T) |-> IF s[x[1]] = Nul THEN x[2] ELSE Append(x[2], s[x[1]])]
           Def(f) == f = [n \in 0 .. Len(s) |->
                             IF n = 0 THEN <<>>
                             ELSE IF s[n] = Nul THEN f[n - 1] ELSE Append(f[n - 1], s[n])]
           G == CHOOSE f : Def(f)
<1>1. top \in Nat /\ \A n \in 1 .. top : s[n] \in T  OBVIOUS
<1>2. \A n \in 1 .. top, t \in Seq(T) : /\ step[<<n, t>>] = IF s[n] = Nul THEN t ELSE Append(t, s[n])
                                        /\ step[<<n, t>>] \in Seq(T)
  BY <1>1
<1> HIDE DEF step
<1>3. PICK g \in [0 .. top -> Seq(T)] : g[0] = <<>> /\ \A n \in 1 .. top : g[n] = step[<<n, g[n - 1]>>]
  <2> DEFINE none == <<>>
             V == Seq(T)
  <2>1. none \in V  OBVIOUS
  <2>2. Stepping(step, top, V)  BY <1>2 DEF Stepping
  <2>3. top \in Nat  BY <1>1
  <2> HIDE DEF top, none, V
  <2>4. \E g \in [0 .. top -> V] : g[0] = none /\ \A n \in 1 .. top : g[n] = step[<<n, g[n - 1]>>]
    BY <2>1, <2>2, <2>3, Recursion
  <2>5. QED  BY <2>4 DEF none, V
<1>4. Keeping(g, s)
  <2>1. \A n \in 1 .. top : g[n - 1] \in Seq(T)
    <3>1. \A n \in 1 .. top : n - 1 \in 0 .. top  BY <1>1
    <3>2. QED  BY <1>3, <3>1
  <2>2. QED  BY <1>2, <1>3, <2>1 DEF Keeping
<1>5. Def(g)
  <2>1. g = [n \in 0 .. Len(s) |-> g[n]]  BY <1>3
  <2>2. \A n \in 0 .. Len(s) : n # 0 => n \in 1 .. Len(s)  BY <1>1
  <2>3. QED  BY <1>4, <2>1, <2>2 DEF Keeping
<1>6. Def(G)  BY <1>5, Zenon
<1>7. Bare(s) = G[Len(s)]  BY Zenon DEF Bare
<1>8. G = [n \in 0 .. Len(s) |-> IF n = 0 THEN <<>>
                                ELSE IF s[n] = Nul THEN G[n - 1] ELSE Append(G[n - 1], s[n])]
  BY <1>6
<1> HIDE DEF G
<1>9. \A n \in 0 .. top : n \in {m \in 0 .. top : G[m] = g[m]}
  <2> DEFINE S == {m \in 0 .. top : G[m] = g[m]}
  <2>1. 0 \in S  BY <1>4, <1>8, <1>1 DEF Keeping
  <2>2. ASSUME NEW n \in 0 .. top - 1, n \in S PROVE n + 1 \in S
    <3>1. n + 1 \in 1 .. top /\ (n + 1) - 1 = n  BY <1>1
    <3>2. G[n + 1] = IF s[n + 1] = Nul THEN G[n] ELSE Append(G[n], s[n + 1])
      <4>1. n + 1 \in 0 .. Len(s) /\ n + 1 # 0  BY <3>1
      <4>2. G[n + 1] = IF n + 1 = 0 THEN <<>>
                       ELSE IF s[n + 1] = Nul THEN G[(n + 1) - 1] ELSE Append(G[(n + 1) - 1], s[n + 1])
        BY <1>8, <4>1, Zenon
      <4>3. QED  BY <3>1, <4>1, <4>2
    <3>3. QED  BY <1>4, <2>2, <3>1, <3>2 DEF Keeping
  <2> HIDE DEF S, top
  <2>3. QED  BY <1>1, <2>1, <2>2, Climbing DEF S
<1>10. G[top] = g[top]  BY <1>1, <1>9
<1>11. QED  BY <1>4, <1>7, <1>10

SameUpTo(top, s, t) == \A n \in 1 .. top : s[n] = t[n]

LEMMA BareType == ASSUME NEW T, NEW s \in Seq(T) PROVE Bare(s) \in Seq(T)
<1>1. PICK g \in [0 .. Len(s) -> Seq(T)] : Bare(s) = g[Len(s)]  BY BareKeeps
<1>2. Len(s) \in 0 .. Len(s)  OBVIOUS
<1>3. QED  BY <1>1, <1>2

(* The first bytes determine what is kept of them. *)
LEMMA KeepsSame ==
  ASSUME NEW s, NEW t, NEW top \in Nat, Len(s) \in Nat, Len(t) \in Nat, top <= Len(s), top <= Len(t),
         SameUpTo(top, s, t),
         NEW g, NEW h, Keeping(g, s), Keeping(h, t)
  PROVE  \A n \in 0 .. top : g[n] = h[n]
<1> DEFINE S == {n \in 0 .. top : g[n] = h[n]}
<1>1. 0 \in S  BY DEF Keeping
<1>2. ASSUME NEW n \in 0 .. top - 1, n \in S PROVE n + 1 \in S
  <2>1. n + 1 \in 1 .. Len(s) /\ n + 1 \in 1 .. Len(t) /\ (n + 1) - 1 = n  OBVIOUS
  <2>2. QED  BY <1>2, <2>1 DEF Keeping, SameUpTo
<1> HIDE DEF S
<1>3. QED  BY <1>1, <1>2, Climbing DEF S

AppendsBehind(T) == \A u, v \in Seq(T), e \in T : Append(u \o v, e) = u \o Append(v, e)
LEMMA AppendBehind ==
  ASSUME NEW T
  PROVE  AppendsBehind(T)
<1> SUFFICES ASSUME NEW u \in Seq(T), NEW v \in Seq(T), NEW e \in T
             PROVE  Append(u \o v, e) = u \o Append(v, e)
  BY DEF AppendsBehind
<1>1. <<e>> \in Seq(T) /\ u \o v \in Seq(T)  BY ConcatProperties
<1>2. (u \o v) \o <<e>> = u \o (v \o <<e>>)  BY <1>1, ConcatAssociative
<1>3. Append(u \o v, e) = (u \o v) \o <<e>> /\ Append(v, e) = v \o <<e>>  BY <1>1, AppendIsConcat
<1>4. QED  BY <1>2, <1>3

(* What is kept of two texts one behind the other. *)
LEMMA BareConcat ==
  ASSUME NEW T, NEW s \in Seq(T), NEW t \in Seq(T)
  PROVE  Bare(s \o t) = Bare(s) \o Bare(t)
<1>1. s \o t \in Seq(T) /\ Len(s \o t) = Len(s) + Len(t)  OBVIOUS
<1>2. PICK g \in [0 .. Len(s) -> Seq(T)] : Keeping(g, s) /\ Bare(s) = g[Len(s)]  BY BareKeeps
<1>3. PICK h \in [0 .. Len(t) -> Seq(T)] : Keeping(h, t) /\ Bare(t) = h[Len(t)]  BY BareKeeps
<1>4. PICK f \in [0 .. Len(s) + Len(t) -> Seq(T)] : Keeping(f, s \o t) /\ Bare(s \o t) = f[Len(s) + Len(t)]
  BY <1>1, BareKeeps
<1>5. f[Len(s)] = g[Len(s)]
  <2>1. \A n \in 1 .. Len(s) : (s \o t)[n] = s[n]  OBVIOUS
  <2>2. \A n \in 0 .. Len(s) : f[n] = g[n]
    <3> DEFINE st == s \o t
    <3>1. Len(s) \in Nat /\ Len(st) \in Nat /\ Len(s) <= Len(st)  BY <1>1
    <3>2. Keeping(f, st) /\ SameUpTo(Len(s), st, s)  BY <1>4, <2>1 DEF SameUpTo
    <3> HIDE DEF st
    <3>3. Keeping(g, s) /\ Len(s) <= Len(s)  BY <1>2, <3>1
    <3>4. Len(s) <= Len(st)  BY <3>1
    <3>5. QED  BY <3>1, <3>2, <3>3, <3>4, KeepsSame
  <2>3. QED  BY <2>2
<1> DEFINE S == {n \in 0 .. Len(t) : f[Len(s) + n] = g[Len(s)] \o h[n]}
<1>6. 0 \in S
  <2>1. g[Len(s)] \in Seq(T) /\ h[0] = <<>>  BY <1>2, <1>3 DEF Keeping
  <2>2. QED  BY <1>5, <2>1
<1>7. ASSUME NEW n \in 0 .. Len(t) - 1, n \in S PROVE n + 1 \in S
  <2>1. /\ n + 1 \in 1 .. Len(t) /\ (n + 1) - 1 = n
        /\ Len(s) + n + 1 \in 1 .. Len(s \o t) /\ (Len(s) + n + 1) - 1 = Len(s) + n
    BY <1>1
  <2>2. (s \o t)[Len(s) + n + 1] = t[n + 1] /\ t[n + 1] \in T  BY <2>1
  <2>3. f[Len(s) + n + 1] = IF t[n + 1] = Nul THEN f[Len(s) + n] ELSE Append(f[Len(s) + n], t[n + 1])
    BY <1>4, <2>1, <2>2 DEF Keeping
  <2>4. h[n + 1] = IF t[n + 1] = Nul THEN h[n] ELSE Append(h[n], t[n + 1])
    BY <1>3, <2>1 DEF Keeping
  <2>5. g[Len(s)] \in Seq(T) /\ h[n] \in Seq(T) /\ f[Len(s) + n] = g[Len(s)] \o h[n]
    <3>1. Len(s) \in 0 .. Len(s) /\ n \in 0 .. Len(t)  OBVIOUS
    <3>2. QED  BY <1>2, <1>3, <1>7, <3>1
  <2>6. Append(g[Len(s)] \o h[n], t[n + 1]) = g[Len(s)] \o Append(h[n], t[n + 1])
    <3>1. AppendsBehind(T)  BY AppendBehind
    <3>2. QED  BY <2>2, <2>5, <3>1, Zenon DEF AppendsBehind
  <2>7. f[Len(s) + n + 1] = g[Len(s)] \o h[n + 1]  BY <2>3, <2>4, <2>5, <2>6
  <2>8. Len(s) + (n + 1) = Len(s) + n + 1 /\ n + 1 \in 0 .. Len(t)  BY <2>1
  <2>9. QED  BY <2>7, <2>8
<1>8. \A n \in 0 .. Len(t) : n \in S
  <2> HIDE DEF S
  <2>1. Len(t) \in Nat  OBVIOUS
  <2>2. QED  BY <1>6, <1>7, <2>1, Climbing
<1>9. f[Len(s) + Len(t)] = g[Len(s)] \o h[Len(t)]
  <2>1. Len(t) \in 0 .. Len(t)  OBVIOUS
  <2>2. QED  BY <1>8, <2>1
<1>10. QED  BY <1>2, <1>3, <1>4, <1>9

(* Of NULs nothing is kept, and of other bytes all. *)
LEMMA BareNuls ==
  ASSUME NEW T, NEW s \in Seq(T), \A n \in 1 .. Len(s) : s[n] = Nul
  PROVE  Bare(s) = <<>>
<1>1. PICK g \in [0 .. Len(s) -> Seq(T)] : Keeping(g, s) /\ Bare(s) = g[Len(s)]  BY BareKeeps
<1> DEFINE S == {n \in 0 .. Len(s) : g[n] = <<>>}
<1>2. Len(s) \in Nat /\ 0 \in S  BY <1>1 DEF Keeping
<1>3. ASSUME NEW n \in 0 .. Len(s) - 1, n \in S PROVE n + 1 \in S
  <2>1. n + 1 \in 1 .. Len(s) /\ (n + 1) - 1 = n  OBVIOUS
  <2>2. QED  BY <1>1, <1>3, <2>1 DEF Keeping
<1>4. \A n \in 0 .. Len(s) : n \in S
  <2> HIDE DEF S
  <2>1. QED  BY <1>2, <1>3, Climbing
<1>5. QED  BY <1>1, <1>2, <1>4

LEMMA BareWhole ==
  ASSUME NEW T, NEW s \in Seq(T), \A n \in 1 .. Len(s) : s[n] # Nul
  PROVE  Bare(s) = s
<1>1. PICK g \in [0 .. Len(s) -> Seq(T)] : Keeping(g, s) /\ Bare(s) = g[Len(s)]  BY BareKeeps
<1> DEFINE S == {n \in 0 .. Len(s) : g[n] = SubSeq(s, 1, n)}
<1>2. Len(s) \in Nat /\ 0 \in S  BY <1>1 DEF Keeping
<1>3. ASSUME NEW n \in 0 .. Len(s) - 1, n \in S PROVE n + 1 \in S
  <2>1. n + 1 \in 1 .. Len(s) /\ n + 1 \in 0 .. Len(s) /\ (n + 1) - 1 = n  OBVIOUS
  <2>2. g[n + 1] = Append(SubSeq(s, 1, n), s[n + 1])  BY <1>1, <1>3, <2>1 DEF Keeping
  <2>3. Append(SubSeq(s, 1, n), s[n + 1]) = SubSeq(s, 1, n + 1)  BY <2>1
  <2>4. n + 1 \in 0 .. Len(s) /\ g[n + 1] = SubSeq(s, 1, n + 1)  BY <2>1, <2>2, <2>3, Zenon
  <2>5. QED  BY <2>4, Zenon
<1>4. \A n \in 0 .. Len(s) : n \in S
  <2> HIDE DEF S
  <2>1. QED  BY <1>2, <1>3, Climbing
<1>5. SubSeq(s, 1, Len(s)) = s  OBVIOUS
<1>6. QED  BY <1>1, <1>2, <1>4, <1>5

(* The lines of a descriptor, one behind the other, when another one comes. *)
LEMMA FlattenIs ==
  ASSUME NEW T, NEW ss \in Seq(Seq(T))
  PROVE  \E g \in [0 .. Len(ss) -> Seq(T)] :
             g[0] = <<>> /\ (\A n \in 1 .. Len(ss) : g[n] = g[n - 1] \o ss[n]) /\ FlattenSeq(ss) = g[Len(ss)]
<1> DEFINE top == Len(ss)
           step == [x \in (1 .. top) \X Seq(T) |-> x[2] \o ss[x[1]]]
           Def(f) == f = [n \in 1 .. Len(ss) |-> IF n = 1 THEN ss[n] ELSE f[n - 1] \o ss[n]]
           G == CHOOSE f : Def(f)
<1>1. top \in Nat /\ \A n \in 1 .. top : ss[n] \in Seq(T)  OBVIOUS
<1>2. \A n \in 1 .. top, t \in Seq(T) : step[<<n, t>>] = t \o ss[n] /\ step[<<n, t>>] \in Seq(T)
  <2> SUFFICES ASSUME NEW n \in 1 .. top, NEW t \in Seq(T)
               PROVE  step[<<n, t>>] = t \o ss[n] /\ step[<<n, t>>] \in Seq(T)
    OBVIOUS
  <2>1. <<n, t>> \in (1 .. top) \X Seq(T)  OBVIOUS
  <2>2. step[<<n, t>>] = t \o ss[n]  BY <2>1
  <2>3. t \o ss[n] \in Seq(T)  BY <1>1, ConcatProperties
  <2>4. QED  BY <2>2, <2>3
<1> HIDE DEF step
<1>3. PICK g \in [0 .. top -> Seq(T)] : g[0] = <<>> /\ \A n \in 1 .. top : g[n] = step[<<n, g[n - 1]>>]
  <2> DEFINE none == <<>>
             V == Seq(T)
  <2>1. none \in V  OBVIOUS
  <2>2. Stepping(step, top, V)  BY <1>2 DEF Stepping
  <2>3. top \in Nat  BY <1>1
  <2> HIDE DEF top, none, V
  <2>4. \E g \in [0 .. top -> V] : g[0] = none /\ \A n \in 1 .. top : g[n] = step[<<n, g[n - 1]>>]
    BY <2>1, <2>2, <2>3, Recursion
  <2>5. QED  BY <2>4 DEF none, V
<1>4. \A n \in 1 .. top : g[n] = g[n - 1] \o ss[n]
  <2>1. \A n \in 1 .. top : g[n - 1] \in Seq(T)
    <3>1. \A n \in 1 .. top : n - 1 \in 0 .. top  BY <1>1
    <3>2. QED  BY <1>3, <3>1
  <2>2. QED  BY <1>2, <1>3, <2>1
<1>5. Def([n \in 1 .. top |-> g[n]])
  <2>1. \A n \in 1 .. top : n = 1 => g[n] = ss[n]
    <3>1. \A n \in 1 .. top : n = 1 => g[n - 1] = <<>>  BY <1>3
    <3>2. \A n \in 1 .. top : <<>> \o ss[n] = ss[n]  BY <1>1, ConcatEmptySeq
    <3>3. QED  BY <1>4, <3>1, <3>2
  <2>2. \A n \in 1 .. top : n # 1 => n - 1 \in 1 .. top  OBVIOUS
  <2>3. QED  BY <1>4, <2>1, <2>2
<1>6. Def(G)  BY <1>5, Zenon
<1>7. Len(ss) # 0 => FlattenSeq(ss) = G[Len(ss)]  BY Zenon DEF FlattenSeq
<1>8. G = [n \in 1 .. Len(ss) |-> IF n = 1 THEN ss[n] ELSE G[n - 1] \o ss[n]]  BY <1>6
<1> HIDE DEF G
<1>9. \A n \in 0 .. top : n \in {m \in 0 .. top : m > 0 => G[m] = g[m]}
  <2> DEFINE S == {m \in 0 .. top : m > 0 => G[m] = g[m]}
  <2>1. 0 \in S  BY <1>1
  <2>2. ASSUME NEW n \in 0 .. top - 1, n \in S PROVE n + 1 \in S
    <3>1. n + 1 \in 1 .. top /\ (n + 1) - 1 = n  BY <1>1
    <3>2. G[n + 1] = IF n + 1 = 1 THEN ss[n + 1] ELSE G[n] \o ss[n + 1]  BY <1>8, <3>1
    <3>3. CASE n = 0
      <4>1. g[n + 1] = <<>> \o ss[n + 1] /\ ss[n + 1] \in Seq(T)  BY <1>1, <1>3, <1>4, <3>1, <3>3
      <4>2. QED  BY <3>1, <3>2, <3>3, <4>1
    <3>4. CASE n > 0
      <4>1. n + 1 # 1 /\ n > 0  BY <3>4
      <4>2. G[n + 1] = G[n] \o ss[n + 1]  BY <3>2, <4>1, Zenon
      <4>3. G[n] = g[n]  BY <2>2, <4>1, Zenon
      <4>4. g[n + 1] = g[n] \o ss[n + 1]
        <5>1. g[n + 1] = g[(n + 1) - 1] \o ss[n + 1]  BY <1>4, <3>1, Zenon
        <5>2. QED  BY <3>1, <5>1, Zenon
      <4>5. n + 1 \in 0 .. top  BY <1>1, <3>1
      <4>6. QED  BY <4>2, <4>3, <4>4, <4>5, Zenon
    <3>5. QED  BY <3>3, <3>4
  <2> HIDE DEF S, top
  <2>3. QED  BY <1>1, <2>1, <2>2, Climbing DEF S
<1>10. FlattenSeq(ss) = g[Len(ss)]
  <2>1. CASE Len(ss) = 0
    <3>1. FlattenSeq(ss) = ss  BY <2>1, Zenon DEF FlattenSeq
    <3>2. QED  BY <1>3, <2>1, <3>1
  <2>2. CASE Len(ss) # 0
    <3>1. Len(ss) \in {m \in 0 .. top : m > 0 => G[m] = g[m]}  BY <1>1, <1>9
    <3>2. QED  BY <1>1, <1>7, <2>2, <3>1
  <2>3. QED  BY <2>1, <2>2
<1>11. QED  BY <1>3, <1>4, <1>10

LEMMA FlattenAppend ==
  ASSUME NEW T, NEW ss \in Seq(Seq(T)), NEW s \in Seq(T)
  PROVE  /\ FlattenSeq(ss) \in Seq(T)
         /\ FlattenSeq(Append(ss, s)) = FlattenSeq(ss) \o s
<1> DEFINE tt == Append(ss, s)
<1>1. tt \in Seq(Seq(T)) /\ Len(tt) = Len(ss) + 1 /\ tt[Len(ss) + 1] = s /\ \A n \in 1 .. Len(ss) : tt[n] = ss[n]
  OBVIOUS
<1> HIDE DEF tt
<1>2. PICK g \in [0 .. Len(ss) -> Seq(T)] :
          g[0] = <<>> /\ (\A n \in 1 .. Len(ss) : g[n] = g[n - 1] \o ss[n]) /\ FlattenSeq(ss) = g[Len(ss)]
  BY FlattenIs
<1>3. PICK h \in [0 .. Len(tt) -> Seq(T)] :
          h[0] = <<>> /\ (\A n \in 1 .. Len(tt) : h[n] = h[n - 1] \o tt[n]) /\ FlattenSeq(tt) = h[Len(tt)]
  BY <1>1, FlattenIs
<1> DEFINE S == {n \in 0 .. Len(ss) : g[n] = h[n]}
<1>4. 0 \in S /\ Len(ss) \in Nat  BY <1>2, <1>3
<1>5. ASSUME NEW n \in 0 .. Len(ss) - 1, n \in S PROVE n + 1 \in S
  <2>1. n + 1 \in 1 .. Len(ss) /\ n + 1 \in 1 .. Len(tt) /\ (n + 1) - 1 = n  BY <1>1
  <2>2. g[n + 1] = g[n] \o ss[n + 1]  BY <1>2, <2>1
  <2>3. h[n + 1] = h[n] \o tt[n + 1]  BY <1>3, <2>1
  <2>4. tt[n + 1] = ss[n + 1] /\ g[n] = h[n] /\ n + 1 \in 0 .. Len(ss)  BY <1>1, <1>5, <2>1
  <2>5. QED  BY <2>2, <2>3, <2>4, Zenon
<1>6. \A n \in 0 .. Len(ss) : n \in S
  <2> HIDE DEF S
  <2>1. QED  BY <1>4, <1>5, Climbing
<1>7. h[Len(tt)] = h[Len(ss)] \o s
  <2>1. Len(tt) \in 1 .. Len(tt) /\ Len(tt) - 1 = Len(ss)  BY <1>1, <1>4
  <2>2. QED  BY <1>1, <1>3, <2>1
<1>8. Len(ss) \in 0 .. Len(ss)  BY <1>4
<1>9. h[Len(ss)] = g[Len(ss)] /\ g[Len(ss)] \in Seq(T)
  <2>1. Len(ss) \in S  BY <1>6, <1>8, Zenon
  <2>2. QED  BY <1>2, <1>8, <2>1
<1>10. FlattenSeq(ss) \in Seq(T)  BY <1>2, <1>9, Zenon
<1>11. FlattenSeq(tt) = FlattenSeq(ss) \o s  BY <1>2, <1>3, <1>7, <1>9, Zenon
<1>12. QED  BY <1>10, <1>11 DEF tt

-----------------------------------------------------------------------------
(* The inductive invariant. *)

Chars == STRING \cup {Nul, "junk"}
GnlTypeOK ==
    /\ stream \in Streams
    /\ taken \in [Descriptors -> Nat] /\ \A d \in Descriptors : taken[d] <= Len(stream[d])
    /\ static \in [Descriptors -> [1 .. BUFFER_SIZE -> Chars]]
    /\ fd \in Descriptors
    /\ line \in Seq(Chars) /\ l_line \in Nat
    /\ gnl \in {"idle", "parse", "update"}
    /\ returned \in [Descriptors -> Seq(Seq(Chars))]
    /\ joined \in [Descriptors -> BOOLEAN] /\ full \in [Descriptors -> BOOLEAN]

\* What is in a buffer is in one piece, and ends in front of its end only where the stream ends
\* when the reads were full.
Packed(d) == \A p, q, r \in 1 .. BUFFER_SIZE :
                 p < q /\ q < r /\ static[d][p] # Nul /\ static[d][r] # Nul => static[d][q] # Nul
Filled(d) == \A p, q \in 1 .. BUFFER_SIZE :
                 full[d] /\ p < q /\ static[d][p] # Nul /\ static[d][q] = Nul => taken[d] = Len(stream[d])

\* The line of the call that is made has not come to its end.
Plain == {Nul, Newline}
Begun(l) == l # <<>> /\ \A p \in 1 .. Len(l) : l[p] \notin Plain
LineBegun == gnl # "idle" /\ joined[fd] => \/ line = Nothing /\ l_line = 0
                                           \/ Begun(line)

\* A line that was returned, and what follows the last one when it has no newline.
Finished(l) == l # <<>> /\ l[1] # Nul /\ \A p \in 1 .. Len(l) - 1 : l[p] \notin Plain
Emptied(s) == \A p \in 1 .. Len(s) : s[p] = Nul
AtEndOf(d, p) == p = Len(returned[d]) /\ taken[d] = Len(stream[d]) /\ Emptied(Held(d))
LinesReturned(d) ==
    \A p \in 1 .. Len(returned[d]) :
        LET l == returned[d][p]
        IN  Finished(l) /\ (full[d] /\ l[Len(l)] # Newline => AtEndOf(d, p))

AllRead(d) == Bare(FlattenSeq(returned[d]) \o Held(d)) = SubSeq(stream[d], 1, taken[d])

GnlIInv == /\ GnlTypeOK /\ LineBegun
           /\ \A d \in Descriptors : Packed(d) /\ Filled(d)
           /\ \A d \in Descriptors : joined[d] => LinesReturned(d) /\ AllRead(d)

-----------------------------------------------------------------------------
(* What is in front of the buffer in what is held. *)
Base == IF line = Nothing THEN <<>> ELSE line

LEMMA HeldIs ==
  ASSUME GnlTypeOK, NEW d \in Descriptors
  PROVE  /\ static[d] \in Seq(Chars) /\ Len(static[d]) = BUFFER_SIZE
         /\ Base \in Seq(Chars) /\ Held(d) \in Seq(Chars)
         /\ d # fd \/ gnl = "idle" => Held(d) = static[d]
         /\ d = fd /\ gnl = "parse" => Held(d) = Base \o static[d]
         /\ d = fd /\ gnl = "update" => Held(d) = Base
<1>1. static[d] \in [1 .. BUFFER_SIZE -> Chars] /\ BUFFER_SIZE \in Nat  BY BufferAssumption DEF GnlTypeOK
<1>2. static[d] \in Seq(Chars) /\ Len(static[d]) = BUFFER_SIZE  BY <1>1
<1>3. Base \in Seq(Chars)
  <2>1. <<>> \in Seq(Chars) /\ line \in Seq(Chars)  BY DEF GnlTypeOK
  <2>2. QED  BY <2>1 DEF Base
<1>4. CASE d # fd \/ gnl = "idle"  BY <1>2, <1>3, <1>4 DEF Held
<1>5. CASE d = fd /\ gnl = "parse"
  <2>1. Held(d) = Base \o static[d]  BY <1>5 DEF Held, Base
  <2>2. Base \o static[d] \in Seq(Chars)  BY <1>2, <1>3, ConcatProperties
  <2>3. QED  BY <1>2, <1>3, <1>5, <2>1, <2>2
<1>6. CASE d = fd /\ gnl = "update"
  <2>1. Held(d) = Base \o <<>>  BY <1>6 DEF Held, Base
  <2>2. Base \o <<>> = Base  BY <1>3, ConcatEmptySeq
  <2>3. QED  BY <1>2, <1>3, <1>6, <2>1, <2>2
<1>7. QED  BY <1>4, <1>5, <1>6 DEF GnlTypeOK

(* The stream is a text. *)
LEMMA StreamIs ==
  ASSUME GnlTypeOK, NEW d \in Descriptors
  PROVE  stream[d] \in Seq(Chars) /\ \A p \in 1 .. Len(stream[d]) : stream[d][p] # Nul
<1>1. stream[d] \in Seq(STRING) /\ \A p \in 1 .. Len(stream[d]) : stream[d][p] # Nul
  BY StreamsAssumption DEF GnlTypeOK
<1>2. Seq(STRING) \subseteq Seq(Chars)  BY SeqMonotonic DEF Chars
<1>3. QED  BY <1>1, <1>2

LEMMA SubSeqIs ==
  ASSUME NEW T, NEW s \in Seq(T), NEW x \in 1 .. Len(s) + 1, NEW y \in x - 1 .. Len(s)
  PROVE  /\ SubSeq(s, x, y) \in Seq(T) /\ Len(SubSeq(s, x, y)) = y - x + 1
         /\ \A p \in 1 .. y - x + 1 : SubSeq(s, x, y)[p] = s[x + p - 1]
BY SubSeqProperties

LEMMA TwoParts ==
  ASSUME NEW T, NEW s \in Seq(T), NEW x \in 0 .. Len(s)
  PROVE  /\ s = SubSeq(s, 1, x) \o SubSeq(s, x + 1, Len(s))
         /\ SubSeq(s, 1, x) \in Seq(T) /\ SubSeq(s, x + 1, Len(s)) \in Seq(T)
<1>1. /\ 1 \in 1 .. Len(s) + 1 /\ x \in 1 - 1 .. Len(s) /\ Len(s) \in x .. Len(s)  OBVIOUS
<1>2. SubSeq(s, 1, x) \in Seq(T) /\ SubSeq(s, x + 1, Len(s)) \in Seq(T)  BY SubSeqProperties
<1>3. SubSeq(s, 1, Len(s)) = s  BY SubSeqFull
<1>4. SubSeq(s, 1, x) \o SubSeq(s, x + 1, Len(s)) = SubSeq(s, 1, Len(s))
  BY <1>1, ConcatAdjacentSubSeq, Zenon
<1>5. QED  BY <1>2, <1>3, <1>4

LEMMA ThreeParts ==
  ASSUME NEW T, NEW s \in Seq(T), NEW x \in 0 .. Len(s), NEW y \in x .. Len(s)
  PROVE  /\ s = SubSeq(s, 1, x) \o (SubSeq(s, x + 1, y) \o SubSeq(s, y + 1, Len(s)))
         /\ SubSeq(s, 1, x) \in Seq(T) /\ SubSeq(s, x + 1, y) \in Seq(T) /\ SubSeq(s, y + 1, Len(s)) \in Seq(T)
         /\ SubSeq(s, x + 1, y) \o SubSeq(s, y + 1, Len(s)) \in Seq(T)
<1>1. SubSeq(s, x + 1, y) \o SubSeq(s, y + 1, Len(s)) = SubSeq(s, x + 1, Len(s))
  <2>1. x + 1 \in 1 .. Len(s) + 1 /\ y \in (x + 1) - 1 .. Len(s) /\ Len(s) \in y .. Len(s)  OBVIOUS
  <2>2. QED  BY <2>1, ConcatAdjacentSubSeq, Zenon
<1>2. SubSeq(s, x + 1, y) \in Seq(T) /\ SubSeq(s, y + 1, Len(s)) \in Seq(T)  BY SubSeqProperties
<1>3. QED  BY <1>1, <1>2, TwoParts

(* A buffer in front of which start bytes are NUL is kept in two parts. *)
LEMMA BareCut ==
  ASSUME NEW b \in [1 .. BUFFER_SIZE -> Chars], NEW from \in 0 .. BUFFER_SIZE, NEW to \in from .. BUFFER_SIZE,
         \A p \in 1 .. from : b[p] = Nul
  PROVE  LET c == [p \in 1 .. BUFFER_SIZE |-> IF p <= to THEN Nul ELSE b[p]]
         IN  Bare(b) = Bare(SubSeq(b, from + 1, to)) \o Bare(c)
<1> DEFINE c == [p \in 1 .. BUFFER_SIZE |-> IF p <= to THEN Nul ELSE b[p]]
           nuls == SubSeq(b, 1, from)
           mid == SubSeq(b, from + 1, to)
           rest == SubSeq(b, to + 1, BUFFER_SIZE)
           gone == SubSeq(c, 1, to)
           same == SubSeq(c, to + 1, BUFFER_SIZE)
<1>1. BUFFER_SIZE \in Nat  BY BufferAssumption
<1>2. b \in Seq(Chars) /\ Len(b) = BUFFER_SIZE  BY <1>1
<1>3. c \in [1 .. BUFFER_SIZE -> Chars]
  <2>1. Nul \in Chars  BY Zenon DEF Chars
  <2>2. QED  BY <2>1
<1>4. c \in Seq(Chars) /\ Len(c) = BUFFER_SIZE  BY <1>1, <1>3
<1>5. /\ nuls \in Seq(Chars) /\ mid \in Seq(Chars) /\ rest \in Seq(Chars) /\ mid \o rest \in Seq(Chars)
      /\ \A p \in 1 .. Len(nuls) : nuls[p] = Nul
      /\ b = nuls \o (mid \o rest)
  <2>1. Len(nuls) = from /\ \A p \in 1 .. from : nuls[p] = b[p]  BY <1>1, <1>2
  <2>2. from \in 0 .. Len(b) /\ to \in from .. Len(b)  BY <1>1, <1>2
  <2> HIDE DEF c, nuls, mid, rest
  <2>3. /\ nuls \in Seq(Chars) /\ mid \in Seq(Chars) /\ rest \in Seq(Chars) /\ mid \o rest \in Seq(Chars)
        /\ b = nuls \o (mid \o rest)
    BY <1>2, <2>2, ThreeParts DEF nuls, mid, rest
  <2>4. QED  BY <2>1, <2>3
<1>6. /\ gone \in Seq(Chars) /\ \A p \in 1 .. Len(gone) : gone[p] = Nul
      /\ c = gone \o rest
  <2>1. gone \in Seq(Chars) /\ Len(gone) = to /\ \A p \in 1 .. to : gone[p] = Nul
    BY <1>1, <1>4
  <2>2. same = rest
    <3>1. same \in Seq(Chars) /\ Len(same) = BUFFER_SIZE - to /\ \A p \in 1 .. BUFFER_SIZE - to : same[p] = c[to + p]
      BY <1>1, <1>4
    <3>2. rest \in Seq(Chars) /\ Len(rest) = BUFFER_SIZE - to /\ \A p \in 1 .. BUFFER_SIZE - to : rest[p] = b[to + p]
      BY <1>1, <1>2
    <3>3. \A p \in 1 .. BUFFER_SIZE - to : c[to + p] = b[to + p]  BY <1>1
    <3> HIDE DEF same, rest
    <3>4. QED  BY <3>1, <3>2, <3>3, SeqEqual
  <2>3. c = gone \o same
    <3>1. to \in 0 .. Len(c)  BY <1>1, <1>4
    <3> HIDE DEF c
    <3>2. QED  BY <1>4, <3>1, TwoParts
  <2>4. QED  BY <2>1, <2>2, <2>3
<1> HIDE DEF nuls, mid, rest, gone, same
<1>9. Bare(nuls) = <<>> /\ Bare(gone) = <<>>  BY <1>5, <1>6, BareNuls
<1>10. Bare(mid) \in Seq(Chars) /\ Bare(rest) \in Seq(Chars)  BY <1>5, BareType
<1> HIDE DEF c
<1>11. Bare(c) = Bare(rest)
  <2>1. Bare(c) = Bare(gone) \o Bare(rest)  BY <1>5, <1>6, BareConcat
  <2>2. QED  BY <1>9, <1>10, <2>1, ConcatEmptySeq
<1>12. Bare(b) = Bare(mid) \o Bare(rest)
  <2>1. mid \o rest \in Seq(Chars) /\ Bare(mid \o rest) = Bare(mid) \o Bare(rest)
    BY <1>5, BareConcat, ConcatProperties
  <2>2. Bare(b) = Bare(nuls) \o Bare(mid \o rest)  BY <1>5, BareConcat
  <2>3. Bare(mid) \o Bare(rest) \in Seq(Chars)  BY <1>10, ConcatProperties
  <2>4. QED  BY <1>9, <2>1, <2>2, <2>3, ConcatEmptySeq
<1>13. QED  BY <1>11, <1>12 DEF c, mid

(* Where parse_buffer begins, and where it ends a line. *)
LEMMA StartIs ==
  ASSUME GnlTypeOK
  PROVE  /\ start \in 0 .. BUFFER_SIZE /\ \A p \in 1 .. start : Bytes[p] = Nul
         /\ start < BUFFER_SIZE => Bytes[start + 1] # Nul
<1> DEFINE left == {k \in 1 .. BUFFER_SIZE : Bytes[k] # Nul}
<1>1. BUFFER_SIZE \in Nat /\ start = IF left = {} THEN BUFFER_SIZE ELSE Min(left) - 1
  BY BufferAssumption DEF start
<1>2. CASE left = {}  BY <1>1, <1>2
<1>3. CASE left # {}
  <2>1. left \in SUBSET Nat  OBVIOUS
  <2> HIDE DEF left
  <2>2. Min(left) \in left /\ \A p \in left : Min(left) <= p  BY <1>3, <2>1, LeastIsMin
  <2>3. start = Min(left) - 1  BY <1>1, <1>3
  <2> HIDE DEF start
  <2>4. start + 1 \in left /\ start \in 0 .. BUFFER_SIZE - 1  BY <1>1, <2>2, <2>3 DEF left
  <2>5. \A p \in 1 .. start : p \notin left
    <3>2. \A p \in left : p \in Nat  BY <2>1
    <3>3. Min(left) \in Nat  BY <2>1, <2>2
    <3>1. \A p \in 1 .. start : p < Min(left)  BY <2>3, <2>4, <3>3
    <3>4. QED  BY <2>2, <3>1, <3>2, <3>3
  <2>6. QED  BY <1>1, <2>4, <2>5 DEF left
<1>4. QED  BY <1>2, <1>3

LEMMA EndIs ==
  ASSUME GnlTypeOK, Ends # {}
  PROVE  /\ Min(Ends) \in start + 1 .. BUFFER_SIZE /\ Bytes[Min(Ends)] \in Plain
         /\ \A p \in start + 1 .. Min(Ends) - 1 : Bytes[p] \notin Plain
<1>1. BUFFER_SIZE \in Nat /\ start \in Nat  BY BufferAssumption, StartIs
<1> HIDE DEF start
<1>2. Ends \in SUBSET Nat /\ Ends = {k \in start + 1 .. BUFFER_SIZE : Bytes[k] \in Plain}
  BY <1>1 DEF Ends, Plain
<1>3. Min(Ends) \in Ends /\ \A p \in Ends : Min(Ends) <= p  BY <1>2, LeastIsMin
<1> DEFINE end == Min(Ends)
<1>4. end \in start + 1 .. BUFFER_SIZE /\ Bytes[end] \in Plain  BY <1>1, <1>2, <1>3
<1> HIDE DEF end
<1>5. ASSUME NEW p \in start + 1 .. end - 1 PROVE Bytes[p] \notin Plain
  <2>1. p \in start + 1 .. BUFFER_SIZE /\ p < end  BY <1>1, <1>4, <1>5
  <2>2. p \in Ends => end <= p  BY <1>3 DEF end
  <2>3. p \notin Ends  BY <1>1, <1>4, <2>1, <2>2
  <2>4. QED  BY <1>2, <2>1, <2>3
<1>6. QED  BY <1>4, <1>5 DEF end

Associates(T) == \A u, v, w \in Seq(T) : (u \o v) \o w = u \o (v \o w)
LEMMA Association == ASSUME NEW T PROVE Associates(T)
<1> SUFFICES ASSUME NEW u \in Seq(T), NEW v \in Seq(T), NEW w \in Seq(T)
             PROVE  (u \o v) \o w = u \o (v \o w)
  BY DEF Associates
<1>1. QED  BY ConcatAssociative

(* What is kept of the lines and of what is held. *)
LEMMA FlatHeld ==
  ASSUME NEW ss \in Seq(Seq(Chars)), NEW held \in Seq(Chars)
  PROVE  /\ Bare(FlattenSeq(ss) \o held) = Bare(FlattenSeq(ss)) \o Bare(held)
         /\ Bare(FlattenSeq(ss)) \in Seq(Chars) /\ Bare(held) \in Seq(Chars)
<1>1. <<>> \in Seq(Chars)  OBVIOUS
<1>2. FlattenSeq(ss) \in Seq(Chars)  BY <1>1, FlattenAppend
<1>3. QED  BY <1>2, BareConcat, BareType

(* With one more line. *)
LEMMA FlatMore ==
  ASSUME NEW ss \in Seq(Seq(Chars)), NEW l \in Seq(Chars), NEW held \in Seq(Chars)
  PROVE  /\ Bare(FlattenSeq(Append(ss, l)) \o held) = Bare(FlattenSeq(ss)) \o (Bare(l) \o Bare(held))
         /\ Bare(FlattenSeq(ss)) \in Seq(Chars) /\ Bare(l) \in Seq(Chars) /\ Bare(held) \in Seq(Chars)
<1> DEFINE flat == FlattenSeq(ss)
           more == FlattenSeq(Append(ss, l))
<1>1. flat \in Seq(Chars) /\ more = flat \o l  BY FlattenAppend
<1> HIDE DEF flat, more
<1>2. Bare(flat) \in Seq(Chars) /\ Bare(l) \in Seq(Chars) /\ Bare(held) \in Seq(Chars)  BY <1>1, BareType
<1>3. Bare(more) = Bare(flat) \o Bare(l)  BY <1>1, BareConcat
<1>4. more \in Seq(Chars)  BY <1>1, ConcatProperties
<1>5. Bare(more \o held) = Bare(more) \o Bare(held)  BY <1>4, BareConcat
<1>6. (Bare(flat) \o Bare(l)) \o Bare(held) = Bare(flat) \o (Bare(l) \o Bare(held))
  <2>1. Associates(Chars)  BY Association
  <2>2. QED  BY <1>2, <2>1, Zenon DEF Associates
<1>7. QED  BY <1>2, <1>3, <1>5, <1>6 DEF flat, more

(* A descriptor of which nothing has changed. *)
Untouched(d) == /\ Held(d)' = Held(d) /\ stream' = stream /\ taken'[d] = taken[d] /\ static'[d] = static[d]
                /\ returned'[d] = returned[d] /\ joined'[d] = joined[d] /\ full'[d] = full[d]
Good(d) == Packed(d) /\ Filled(d) /\ (joined[d] => LinesReturned(d) /\ AllRead(d))
LEMMA UntouchedGood ==
  ASSUME NEW d \in Descriptors, Good(d), Untouched(d)
  PROVE  Good(d)'
<1> USE DEF Untouched
<1>1. Packed(d)'  BY DEF Good, Packed
<1>2. Filled(d)'  BY DEF Good, Filled
<1>3. LinesReturned(d) => LinesReturned(d)'
  <2>1. \A p \in 1 .. Len(returned[d]) : AtEndOf(d, p) => AtEndOf(d, p)'  BY DEF AtEndOf
  <2>2. QED  BY <2>1 DEF LinesReturned
<1>4. AllRead(d) => AllRead(d)'  BY DEF AllRead
<1>5. QED  BY <1>1, <1>2, <1>3, <1>4 DEF Good

LEMMA GoodIs == GnlIInv <=> GnlTypeOK /\ LineBegun /\ \A d \in Descriptors : Good(d)
BY DEF GnlIInv, Good

(* A call begins. *)
LEMMA CallStep == GnlIInv /\ ft_gnl => GnlIInv'
<1> SUFFICES ASSUME GnlIInv, ft_gnl PROVE GnlIInv'  OBVIOUS
<1>1. GnlTypeOK /\ \A d \in Descriptors : Good(d)  BY GoodIs
<1>2. /\ gnl = "idle" /\ gnl' = "parse" /\ fd' \in Descriptors /\ line' = Nothing /\ l_line' = 0
      /\ UNCHANGED <<stream, taken, static, returned, joined, full>>
  BY DEF ft_gnl
<1>3. GnlTypeOK'
  <2>1. Nothing \in Seq(Chars)  BY DEF Nothing, Chars
  <2>2. line' \in Seq(Chars)  BY <1>2, <2>1
  <2>3. QED  BY <1>1, <1>2, <2>2 DEF GnlTypeOK
<1>4. LineBegun'  BY <1>2 DEF LineBegun
<1>5. ASSUME NEW d \in Descriptors PROVE Good(d)'
  <2>1. Held(d) = static[d] /\ static[d] \in Seq(Chars)  BY <1>1, <1>2, HeldIs
  <2>2. Held(d)' = static[d]
    <3>1. CASE d # fd'  BY <1>2, <3>1 DEF Held
    <3>2. CASE d = fd'
      <4>1. Held(d)' = <<>> \o static[d]  BY <1>2, <3>2 DEF Held
      <4>2. QED  BY <2>1, <4>1, ConcatEmptySeq
    <3>3. QED  BY <3>1, <3>2
  <2>3. Untouched(d)  BY <1>2, <2>1, <2>2 DEF Untouched
  <2>4. QED  BY <1>1, <2>3, UntouchedGood
<1>6. QED  BY <1>3, <1>4, <1>5 DEF GnlIInv, Good

-----------------------------------------------------------------------------
(* What line_join makes. *)
LEMMA JoinType ==
  ASSUME GnlTypeOK, NEW part \in Seq(Chars), line_join(part)
  PROVE  /\ line' \in Seq(Chars) /\ joined' \in [Descriptors -> BOOLEAN]
         /\ \A d \in Descriptors \ {fd} : joined'[d] = joined[d]
<1>1. CASE line' = Base \o part /\ UNCHANGED joined
  <2>1. Base \in Seq(Chars)
    <3>1. <<>> \in Seq(Chars) /\ line \in Seq(Chars)  BY DEF GnlTypeOK
    <3>2. QED  BY <3>1 DEF Base
  <2>2. Base \o part \in Seq(Chars)  BY <2>1, ConcatProperties
  <2>3. QED  BY <1>1, <2>2 DEF GnlTypeOK
<1>2. CASE line' = [k \in 1 .. l_line |-> "junk"] \o part /\ UNCHANGED joined
  <2> DEFINE junk == [k \in 1 .. l_line |-> "junk"]
  <2>1. junk \in Seq(Chars)  BY DEF GnlTypeOK, Chars
  <2> HIDE DEF junk
  <2>2. junk \o part \in Seq(Chars)  BY <2>1, ConcatProperties
  <2>3. QED  BY <1>2, <2>2 DEF GnlTypeOK, junk
<1>3. CASE line' = Nothing /\ joined' = [joined EXCEPT ![fd] = FALSE]
  <2>1. Nothing \in Seq(Chars)  BY DEF Nothing, Chars
  <2>2. QED  BY <1>3, <2>1 DEF GnlTypeOK
<1>4. QED  BY <1>1, <1>2, <1>3 DEF line_join, Base

LEMMA BaseIs ==
  ASSUME GnlIInv, gnl # "idle", joined[fd]
  PROVE  /\ Base \in Seq(Chars) /\ (Base = <<>> \/ Begun(Base))
         /\ Base = <<>> <=> line = Nothing
         /\ line = Nothing => l_line = 0
<1>1. line \in Seq(Chars) /\ ((line = Nothing /\ l_line = 0) \/ Begun(line))
  BY DEF GnlIInv, GnlTypeOK, LineBegun
<1>2. Begun(line) => line # Nothing
  <2>1. ASSUME line = Nothing, Begun(line) PROVE FALSE
    <3>1. 1 \in 1 .. Len(line) /\ line[1] = Nul  BY <2>1 DEF Nothing
    <3>2. QED  BY <2>1, <3>1 DEF Begun, Plain
  <2>2. QED  BY <2>1
<1>3. CASE line = Nothing
  <2>1. Base = <<>> /\ <<>> \in Seq(Chars)  BY <1>3 DEF Base
  <2>2. QED  BY <1>1, <1>2, <1>3, <2>1
<1>4. CASE line # Nothing
  <2>1. Base = line /\ Begun(line)  BY <1>1, <1>4 DEF Base
  <2>2. QED  BY <1>1, <1>4, <2>1 DEF Begun
<1>5. QED  BY <1>3, <1>4

LEMMA JoinIs ==
  ASSUME GnlIInv, gnl # "idle", NEW part, line_join(part), joined'[fd]
  PROVE  joined[fd] /\ joined' = joined /\ line' = Base \o part
<1>1. joined' = joined
  <2>1. joined' # [joined EXCEPT ![fd] = FALSE]
    BY DEF GnlIInv, GnlTypeOK
  <2>2. QED  BY <2>1 DEF line_join
<1>2. joined[fd]  BY <1>1
<1>3. line = Nothing => l_line = 0  BY <1>2, BaseIs
<1>4. joined' # [joined EXCEPT ![fd] = FALSE]  BY DEF GnlIInv, GnlTypeOK
<1>5. l_line \in Nat  BY DEF GnlIInv, GnlTypeOK
<1>6. QED  BY <1>1, <1>2, <1>3, <1>4, <1>5 DEF line_join, Base

(* The line that ends in the buffer. *)
LEMMA FinishedIs ==
  ASSUME NEW base \in Seq(Chars), base = <<>> \/ Begun(base),
         NEW b \in [1 .. BUFFER_SIZE -> Chars], NEW from \in 0 .. BUFFER_SIZE, NEW to \in from + 1 .. BUFFER_SIZE,
         b[from + 1] # Nul, \A p \in from + 1 .. to - 1 : b[p] \notin Plain
  PROVE  LET l == base \o SubSeq(b, from + 1, to)
         IN  l \in Seq(Chars) /\ Finished(l) /\ l[Len(l)] = b[to]
<1> DEFINE part == SubSeq(b, from + 1, to)
           l == base \o part
<1>1. BUFFER_SIZE \in Nat /\ b \in Seq(Chars) /\ Len(b) = BUFFER_SIZE  BY BufferAssumption
<1>2. part \in Seq(Chars) /\ Len(part) = to - from /\ \A p \in 1 .. to - from : part[p] = b[from + p]
  BY <1>1
<1> HIDE DEF part
<1>3. /\ l \in Seq(Chars) /\ Len(l) = Len(base) + (to - from)
      /\ \A p \in 1 .. Len(base) : l[p] = base[p]
      /\ \A p \in 1 .. to - from : l[Len(base) + p] = b[from + p]
  <2>1. /\ l \in Seq(Chars) /\ Len(l) = Len(base) + Len(part)
        /\ \A p \in 1 .. Len(base) + Len(part) : l[p] = IF p <= Len(base) THEN base[p] ELSE part[p - Len(base)]
    BY <1>2, ConcatProperties
  <2> HIDE DEF l
  <2>2. Len(base) \in Nat /\ to - from \in Nat  BY <1>1
  <2>3. ASSUME NEW p \in 1 .. to - from PROVE l[Len(base) + p] = b[from + p]
    <3>1. Len(base) + p \in 1 .. Len(base) + Len(part) /\ ~(Len(base) + p <= Len(base)) /\ (Len(base) + p) - Len(base) = p
      BY <1>2, <2>2
    <3>2. l[Len(base) + p] = part[p]  BY <2>1, <3>1
    <3>3. QED  BY <1>2, <3>2
  <2>4. ASSUME NEW p \in 1 .. Len(base) PROVE l[p] = base[p]
    <3>1. p \in 1 .. Len(base) + Len(part) /\ p <= Len(base)  BY <1>2, <2>2
    <3>2. QED  BY <2>1, <3>1
  <2>5. QED  BY <1>2, <2>1, <2>3, <2>4
<1> HIDE DEF l
<1>4. Len(base) \in Nat /\ to - from \in Nat \ {0} /\ from \in Nat  BY <1>1
<1>5. l[Len(l)] = b[to]
  <2>1. to - from \in 1 .. to - from /\ from + (to - from) = to  BY <1>1
  <2>2. QED  BY <1>3, <1>4, <2>1
<1>6. l # <<>>  BY <1>3, <1>4
<1>7. l[1] # Nul
  <2>1. CASE base = <<>>
    <3>1. Len(base) = 0 /\ 1 \in 1 .. to - from  BY <1>4, <2>1
    <3>2. l[Len(base) + 1] = b[from + 1]  BY <1>3, <3>1
    <3>3. QED  BY <3>1, <3>2
  <2>2. CASE Begun(base)
    <3>1. 1 \in 1 .. Len(base)  BY <1>4, <2>2 DEF Begun
    <3>2. QED  BY <1>3, <2>2, <3>1 DEF Begun, Plain
  <2>3. QED  BY <2>1, <2>2
<1>8. ASSUME NEW p \in 1 .. Len(l) - 1 PROVE l[p] \notin Plain
  <2>1. CASE p <= Len(base)
    <3>1. base # <<>> /\ p \in 1 .. Len(base)  BY <1>4, <2>1
    <3>2. QED  BY <1>3, <3>1 DEF Begun
  <2>2. CASE p > Len(base)
    <3> DEFINE q == p - Len(base)
    <3>1. q \in 1 .. to - from /\ from + q \in from + 1 .. to - 1 /\ Len(base) + q = p  BY <1>1, <1>3, <1>4, <2>2
    <3> HIDE DEF q
    <3>2. l[p] = b[from + q]  BY <1>3, <3>1
    <3>3. QED  BY <3>1, <3>2
  <2>3. QED  BY <1>4, <2>1, <2>2
<1>9. QED  BY <1>3, <1>5, <1>6, <1>7, <1>8 DEF Finished, l, part

LEMMA NotEmptied ==
  ASSUME NEW base \in Seq(Chars), NEW b \in [1 .. BUFFER_SIZE -> Chars], NEW p \in 1 .. BUFFER_SIZE, b[p] # Nul
  PROVE  ~Emptied(base \o b)
<1>1. BUFFER_SIZE \in Nat /\ b \in Seq(Chars) /\ Len(b) = BUFFER_SIZE  BY BufferAssumption
<1>2. Len(base) + p \in 1 .. Len(base \o b) /\ (base \o b)[Len(base) + p] = b[p]  BY <1>1
<1>3. QED  BY <1>2 DEF Emptied

LEMMA ClearIs ==
  ASSUME GnlTypeOK, NEW last \in 1 .. BUFFER_SIZE, Clear(last)
  PROVE  /\ static' \in [Descriptors -> [1 .. BUFFER_SIZE -> Chars]]
         /\ static'[fd] = [p \in 1 .. BUFFER_SIZE |-> IF p <= last THEN Nul ELSE static[fd][p]]
         /\ \A d \in Descriptors \ {fd} : static'[d] = static[d]
<1> DEFINE c == [p \in 1 .. BUFFER_SIZE |-> IF p <= last THEN Nul ELSE static[fd][p]]
<1>1. static' = [static EXCEPT ![fd] = c]  BY DEF Clear
<1>2. c \in [1 .. BUFFER_SIZE -> Chars]  BY DEF GnlTypeOK, Chars
<1> HIDE DEF c
<1>3. QED  BY <1>1, <1>2 DEF GnlTypeOK, c

-----------------------------------------------------------------------------
(* The properties of a descriptor that another call has nothing to do with. *)
LEMMA OtherGood ==
  ASSUME GnlIInv, NEW d \in Descriptors \ {fd}, fd' = fd, stream' = stream, taken'[d] = taken[d],
         static'[d] = static[d], returned'[d] = returned[d], joined'[d] = joined[d], full'[d] = full[d]
  PROVE  Good(d)'
<1>1. Held(d) = static[d] /\ Held(d)' = static[d]  BY DEF Held
<1>2. Untouched(d)  BY <1>1 DEF Untouched
<1>3. QED  BY <1>2, GoodIs, UntouchedGood

(* It remains to look at the descriptor of the call. *)
LEMMA SameCall ==
  ASSUME GnlTypeOK', LineBegun', fd' = fd, \A d \in Descriptors \ {fd} : Good(d)',
         Packed(fd)', Filled(fd)', joined'[fd] => LinesReturned(fd)' /\ AllRead(fd)'
  PROVE  GnlIInv'
<1>1. ASSUME NEW d \in Descriptors, d = fd PROVE Good(d)'
  <2>1. d = fd'  BY <1>1
  <2>2. Packed(d)'  BY <2>1 DEF Packed
  <2>3. Filled(d)'  BY <2>1 DEF Filled
  <2>4. Held(d)' = Held(fd)'  BY <2>1 DEF Held
  <2>5. joined'[d] => LinesReturned(d)'  BY <1>1, <2>1, <2>4 DEF LinesReturned, AtEndOf
  <2>6. joined'[d] => AllRead(d)'  BY <1>1, <2>1, <2>4 DEF AllRead
  <2>7. QED  BY <2>2, <2>3, <2>5, <2>6 DEF Good
<1>2. \A d \in Descriptors : Good(d)'  BY <1>1
<1>3. QED  BY <1>2 DEF GnlIInv, Good

(* A piece of the buffer is cleared. *)
LEMMA ClearGood ==
  ASSUME GnlTypeOK, NEW last \in 1 .. BUFFER_SIZE, Clear(last), UNCHANGED <<stream, taken, full, fd>>,
         Packed(fd), Filled(fd)
  PROVE  Packed(fd)' /\ Filled(fd)'
<1>1. fd \in Descriptors /\ static'[fd] = [p \in 1 .. BUFFER_SIZE |-> IF p <= last THEN Nul ELSE static[fd][p]]
  BY ClearIs DEF GnlTypeOK
<1>2. \A p \in 1 .. BUFFER_SIZE : static'[fd][p] # Nul => p > last /\ static[fd][p] # Nul  BY <1>1
<1>3. \A p \in 1 .. BUFFER_SIZE : p > last => static'[fd][p] = static[fd][p]  BY <1>1
<1>4. BUFFER_SIZE \in Nat  BY BufferAssumption
<1>5. ASSUME NEW p \in 1 .. BUFFER_SIZE, NEW q \in 1 .. BUFFER_SIZE, NEW r \in 1 .. BUFFER_SIZE,
             p < q, q < r, static'[fd][p] # Nul, static'[fd][r] # Nul
      PROVE  static'[fd][q] # Nul
  <2>1. p > last /\ q > last /\ static[fd][p] # Nul /\ static[fd][r] # Nul  BY <1>2, <1>4, <1>5
  <2>2. static[fd][q] # Nul  BY <1>5, <2>1 DEF Packed
  <2>3. QED  BY <1>3, <2>1, <2>2
<1>6. ASSUME NEW p \in 1 .. BUFFER_SIZE, NEW q \in 1 .. BUFFER_SIZE,
             full[fd], p < q, static'[fd][p] # Nul, static'[fd][q] = Nul
      PROVE  taken[fd] = Len(stream[fd])
  <2>1. p > last /\ q > last /\ static[fd][p] # Nul  BY <1>2, <1>4, <1>6
  <2>2. static[fd][q] = Nul  BY <1>3, <1>6, <2>1
  <2>3. QED  BY <1>6, <2>1, <2>2 DEF Filled
<1>7. Packed(fd)'  BY <1>5 DEF Packed
<1>8. Filled(fd)'  BY <1>6 DEF Filled
<1>9. QED  BY <1>7, <1>8

(* parse_buffer finds the end of a line. *)
LEMMA LineType == GnlIInv /\ ParseLine => GnlTypeOK' /\ LineBegun'
<1> SUFFICES ASSUME GnlIInv, ParseLine PROVE GnlTypeOK' /\ LineBegun'  OBVIOUS
<1> DEFINE e == Min(Ends)
<1>1. GnlTypeOK  BY DEF GnlIInv
<1>2. /\ Ends # {} /\ line_join(Part(e)) /\ Clear(e) /\ UNCHANGED <<stream, taken, fd, l_line, full>>
      /\ IF line' = Nothing THEN gnl' = "update" /\ UNCHANGED returned ELSE Give(line')
      /\ gnl = "parse"
  BY DEF ParseLine
<1>3. e \in start + 1 .. BUFFER_SIZE /\ start \in 0 .. BUFFER_SIZE  BY <1>1, <1>2, EndIs, StartIs
<1> HIDE DEF e
<1>4. BUFFER_SIZE \in Nat /\ fd \in Descriptors /\ Bytes \in [1 .. BUFFER_SIZE -> Chars]
  BY <1>1, BufferAssumption DEF GnlTypeOK, Bytes
<1> HIDE DEF start
<1>5. e \in 1 .. BUFFER_SIZE  BY <1>3, <1>4
<1>6. Part(e) \in Seq(Chars)
  <2>1. Bytes \in Seq(Chars) /\ Len(Bytes) = BUFFER_SIZE  BY <1>4
  <2>2. SubSeq(Bytes, start + 1, e) \in Seq(Chars)  BY <1>3, <1>4, <2>1
  <2>3. QED  BY <2>2 DEF Part
<1>7. /\ line' \in Seq(Chars) /\ joined' \in [Descriptors -> BOOLEAN]  BY <1>1, <1>2, <1>6, JoinType
<1>8. static' \in [Descriptors -> [1 .. BUFFER_SIZE -> Chars]]  BY <1>1, <1>2, <1>5, ClearIs
<1>9. gnl' \in {"idle", "update"} /\ returned' \in [Descriptors -> Seq(Seq(Chars))]
  <2>1. \A d \in Descriptors : Append(returned[d], line') \in Seq(Seq(Chars))  BY <1>1, <1>7 DEF GnlTypeOK
  <2>2. QED  BY <1>1, <1>2, <1>4, <2>1 DEF GnlTypeOK, Give
<1>10. GnlTypeOK'  BY <1>1, <1>2, <1>7, <1>8, <1>9 DEF GnlTypeOK
<1>11. LineBegun'
  <2>1. SUFFICES ASSUME gnl' # "idle", joined'[fd'] PROVE FALSE
    BY DEF LineBegun
  <2>2. line' = Nothing  BY <1>2, <2>1 DEF Give
  <2>3. joined[fd] /\ line' = Base \o Part(e)  BY <1>2, <2>1, JoinIs
  <2>4. Base \in Seq(Chars) /\ (Base = <<>> \/ Begun(Base))  BY <1>2, <2>3, BaseIs
  <2>5. /\ start < BUFFER_SIZE /\ Bytes[start + 1] # Nul
        /\ \A p \in start + 1 .. e - 1 : Bytes[p] \notin Plain
    BY <1>1, <1>2, <1>3, <1>4, StartIs, EndIs DEF e
  <2>6. Finished(line')  BY <1>3, <1>4, <2>3, <2>4, <2>5, FinishedIs DEF Part
  <2>7. QED  BY <2>2, <2>6 DEF Finished, Nothing
<1>12. QED  BY <1>10, <1>11

LEMMA LineStep == GnlIInv /\ ParseLine => GnlIInv'
<1> SUFFICES ASSUME GnlIInv, ParseLine PROVE GnlIInv'  OBVIOUS
<1> DEFINE e == Min(Ends)
           b == static[fd]
           part == SubSeq(b, start + 1, e)
<1>1. GnlTypeOK /\ Good(fd) /\ GnlTypeOK' /\ LineBegun'  BY LineType, GoodIs DEF GnlTypeOK
<1>2. /\ Ends # {} /\ line_join(part) /\ Clear(e) /\ UNCHANGED <<stream, taken, fd, l_line, full>>
      /\ IF line' = Nothing THEN gnl' = "update" /\ UNCHANGED returned ELSE Give(line')
      /\ gnl = "parse"
  BY DEF ParseLine, Part, Bytes
<1>3. /\ start \in 0 .. BUFFER_SIZE /\ \A p \in 1 .. start : b[p] = Nul
      /\ start < BUFFER_SIZE => b[start + 1] # Nul
  BY <1>1, StartIs DEF Bytes
<1>4. /\ e \in start + 1 .. BUFFER_SIZE /\ b[e] \in Plain
      /\ \A p \in start + 1 .. e - 1 : b[p] \notin Plain
  BY <1>1, <1>2, EndIs DEF Bytes
<1> HIDE DEF e
<1>5. BUFFER_SIZE \in Nat /\ fd \in Descriptors /\ b \in [1 .. BUFFER_SIZE -> Chars]
  BY <1>1, BufferAssumption DEF GnlTypeOK
<1> HIDE DEF start
<1>6. e \in 1 .. BUFFER_SIZE /\ e \in start .. BUFFER_SIZE /\ start < BUFFER_SIZE  BY <1>3, <1>4, <1>5
<1>7. ASSUME NEW d \in Descriptors \ {fd} PROVE Good(d)'
  <2>1. static'[d] = static[d]  BY <1>1, <1>2, <1>6, ClearIs
  <2>2. joined'[d] = joined[d]
    <3>1. b \in Seq(Chars) /\ Len(b) = BUFFER_SIZE  BY <1>5
    <3>2. part \in Seq(Chars)  BY <1>3, <1>4, <1>5, <3>1
    <3> HIDE DEF part, b
    <3>3. QED  BY <1>1, <1>2, <3>2, JoinType
  <2>3. returned'[d] = returned[d]  BY <1>1, <1>2 DEF Give, GnlTypeOK
  <2>4. QED  BY <1>2, <2>1, <2>2, <2>3, OtherGood
<1>8. Packed(fd)' /\ Filled(fd)'  BY <1>1, <1>2, <1>6, ClearGood DEF Good
<1>9. ASSUME joined'[fd] PROVE LinesReturned(fd)' /\ AllRead(fd)'
  <2>1. joined[fd] /\ line' = Base \o part  BY <1>2, <1>9, JoinIs
  <2>2. Base \in Seq(Chars) /\ (Base = <<>> \/ Begun(Base))  BY <1>2, <2>1, BaseIs
  <2>3. line' \in Seq(Chars) /\ Finished(line') /\ line'[Len(line')] = b[e]
    <3> HIDE DEF b
    <3>1. \A p \in start + 1 .. e - 1 : b[p] \notin Plain  BY <1>4
    <3>2. b[start + 1] # Nul /\ e \in start + 1 .. BUFFER_SIZE  BY <1>3, <1>4, <1>6
    <3>3. LET l == Base \o SubSeq(b, start + 1, e)
          IN  l \in Seq(Chars) /\ Finished(l) /\ l[Len(l)] = b[e]
      BY <1>3, <1>5, <2>2, <3>1, <3>2, FinishedIs, Zenon
    <3>4. QED  BY <2>1, <3>3, Zenon
  <2>4. line' # Nothing  BY <2>3 DEF Finished, Nothing
  <2>5. gnl' = "idle" /\ returned'[fd] = Append(returned[fd], line')  BY <1>1, <1>2, <2>4 DEF Give, GnlTypeOK
  <2>6. Held(fd)' = static'[fd] /\ Held(fd) = Base \o b  BY <1>1, <1>2, <1>5, <2>5, HeldIs DEF Held
  <2> DEFINE c == static'[fd]
  <2>7. c = [p \in 1 .. BUFFER_SIZE |-> IF p <= e THEN Nul ELSE b[p]] /\ c \in [1 .. BUFFER_SIZE -> Chars]
    BY <1>1, <1>2, <1>5, <1>6, ClearIs
  <2>8. LinesReturned(fd) /\ AllRead(fd) /\ Packed(fd) /\ Filled(fd)  BY <1>1, <2>1 DEF Good
  <2>9. returned[fd] \in Seq(Seq(Chars)) /\ returned'[fd] \in Seq(Seq(Chars))  BY <1>1, <1>5, <1>2 DEF GnlTypeOK
  <2>10. AllRead(fd)'
    <3>1. b \in Seq(Chars) /\ c \in Seq(Chars) /\ Len(b) = BUFFER_SIZE  BY <1>5, <2>7
    <3>2. part \in Seq(Chars)  BY <1>3, <1>4, <1>5, <3>1
    <3>3. Bare(b) = Bare(part) \o Bare(c)
      <4> HIDE DEF b, c
      <4>1. \A p \in 1 .. start : b[p] = Nul  BY <1>3
      <4>2. Bare(b) = Bare(SubSeq(b, start + 1, e)) \o Bare([p \in 1 .. BUFFER_SIZE |-> IF p <= e THEN Nul ELSE b[p]])
        BY <1>3, <1>5, <1>6, <4>1, BareCut
      <4>3. QED  BY <2>7, <4>2
    <3> HIDE DEF part, b, c
    <3>4. Bare(line') = Bare(Base) \o Bare(part)  BY <2>1, <2>2, <3>2, BareConcat
    <3>5. Bare(Base \o b) = Bare(Base) \o Bare(b)  BY <2>2, <3>1, BareConcat
    <3>6. Bare(Base \o b) = Bare(line') \o Bare(c)
      <4>1. Bare(Base) \in Seq(Chars) /\ Bare(part) \in Seq(Chars) /\ Bare(c) \in Seq(Chars)
        BY <2>2, <3>1, <3>2, BareType
      <4>2. Associates(Chars)  BY Association
      <4>3. (Bare(Base) \o Bare(part)) \o Bare(c) = Bare(Base) \o (Bare(part) \o Bare(c))
        BY <4>1, <4>2, Zenon DEF Associates
      <4>4. QED  BY <3>3, <3>4, <3>5, <4>3
    <3>7. Base \o b \in Seq(Chars)  BY <2>2, <3>1, ConcatProperties
    <3>8. Bare(FlattenSeq(returned[fd]) \o (Base \o b)) = Bare(FlattenSeq(returned[fd])) \o Bare(Base \o b)
      BY <2>9, <3>7, FlatHeld
    <3>9. Bare(FlattenSeq(Append(returned[fd], line')) \o c) = Bare(FlattenSeq(returned[fd])) \o (Bare(line') \o Bare(c))
      BY <2>3, <2>9, <3>1, FlatMore
    <3>10. Bare(FlattenSeq(returned[fd]) \o (Base \o b)) = SubSeq(stream[fd], 1, taken[fd])
      BY <2>6, <2>8 DEF AllRead, b
    <3>11. AllRead(fd)' <=> Bare(FlattenSeq(returned'[fd]) \o c) = SubSeq(stream[fd], 1, taken[fd])
      BY <1>2, <2>6 DEF AllRead, c
    <3>12. QED  BY <2>5, <3>6, <3>8, <3>9, <3>10, <3>11
  <2>11. LinesReturned(fd)'
    <3> DEFINE lines == returned[fd]
               more == returned'[fd]
    <3>1. Len(more) = Len(lines) + 1 /\ more[Len(lines) + 1] = line' /\ Len(lines) \in Nat
          /\ \A p \in 1 .. Len(lines) : more[p] = lines[p]
      BY <2>3, <2>5, <2>9
    <3>2. ~Emptied(Held(fd))  BY <1>3, <1>5, <1>6, <2>2, <2>6, NotEmptied
    <3>3. \A p \in 1 .. Len(lines) : Finished(lines[p]) /\ ~(full[fd] /\ lines[p][Len(lines[p])] # Newline)
      BY <2>8, <3>2 DEF LinesReturned, AtEndOf
    <3>4. ASSUME full[fd], line'[Len(line')] # Newline PROVE taken[fd] = Len(stream[fd]) /\ Emptied(c)
      <4>1. b[e] = Nul /\ b[start + 1] # Nul  BY <1>3, <1>4, <1>6, <2>3, <3>4 DEF Plain
      <4>2. start + 1 \in 1 .. BUFFER_SIZE /\ start + 1 < e
        <5>1. start + 1 # e  BY <4>1
        <5>2. QED  BY <1>3, <1>4, <1>5, <1>6, <5>1
      <4>3. taken[fd] = Len(stream[fd])  BY <1>6, <2>8, <3>4, <4>1, <4>2 DEF Filled
      <4>4. ASSUME NEW p \in 1 .. BUFFER_SIZE PROVE c[p] = Nul
        <5>1. CASE p <= e  BY <2>7, <5>1
        <5>2. CASE p > e
          <6>1. b[p] = Nul  BY <1>6, <2>8, <4>1, <4>2, <5>2 DEF Packed
          <6>2. QED  BY <1>6, <2>7, <5>2, <6>1
        <5>3. QED  BY <1>5, <1>6, <5>1, <5>2
      <4>5. Len(c) = BUFFER_SIZE  BY <1>5, <2>7
      <4>6. QED  BY <4>3, <4>4, <4>5 DEF Emptied
    <3> HIDE DEF lines, more, c
    <3>5. ASSUME NEW p \in 1 .. Len(more)
          PROVE  Finished(more[p]) /\ (full'[fd] /\ more[p][Len(more[p])] # Newline
                     => p = Len(more) /\ taken[fd] = Len(stream[fd]) /\ Emptied(c))
      <4>1. CASE p \in 1 .. Len(lines)  BY <1>2, <3>1, <3>3, <4>1
      <4>2. CASE p = Len(lines) + 1  BY <1>2, <2>3, <3>1, <3>4, <4>2
      <4>3. QED  BY <3>1, <4>1, <4>2
    <3>6. QED  BY <1>2, <2>6, <3>5 DEF LinesReturned, AtEndOf, more, c
  <2>12. QED  BY <2>10, <2>11
<1>10. QED  BY <1>1, <1>2, <1>7, <1>8, <1>9, SameCall

-----------------------------------------------------------------------------
(* parse_buffer finds no end, and the rest of the buffer belongs to the line. *)
LEMMA RestIs ==
  ASSUME GnlIInv, ParseRest
  PROVE  /\ start \in 0 .. BUFFER_SIZE /\ start \in Nat /\ BUFFER_SIZE \in Nat
         /\ static[fd] \in [1 .. BUFFER_SIZE -> Chars] /\ \A p \in 1 .. start : static[fd][p] = Nul
         /\ \A p \in start + 1 .. BUFFER_SIZE : static[fd][p] \notin Plain
         /\ SubSeq(static[fd], start + 1, BUFFER_SIZE) \in Seq(Chars)
<1>1. GnlTypeOK /\ BUFFER_SIZE \in Nat  BY BufferAssumption DEF GnlIInv
<1>2. start \in 0 .. BUFFER_SIZE /\ \A p \in 1 .. start : static[fd][p] = Nul  BY <1>1, StartIs DEF Bytes
<1> HIDE DEF start
<1>3. static[fd] \in [1 .. BUFFER_SIZE -> Chars] /\ static[fd] \in Seq(Chars) /\ Len(static[fd]) = BUFFER_SIZE
  BY <1>1 DEF GnlTypeOK
<1>4. \A p \in start + 1 .. BUFFER_SIZE : static[fd][p] \notin Plain  BY DEF ParseRest, Ends, Bytes, Plain
<1>5. SubSeq(static[fd], start + 1, BUFFER_SIZE) \in Seq(Chars)  BY <1>1, <1>2, <1>3
<1>6. QED  BY <1>1, <1>2, <1>3, <1>4, <1>5

LEMMA RestJoins ==
  ASSUME GnlIInv, ParseRest, joined'[fd], start < BUFFER_SIZE
  PROVE  LET l == Base \o SubSeq(static[fd], start + 1, BUFFER_SIZE)
         IN  joined[fd] /\ line' = l /\ Begun(l) /\ l \in Seq(Chars) /\ l # Nothing
<1> DEFINE b == static[fd]
           l == Base \o SubSeq(b, start + 1, BUFFER_SIZE)
<1>1. gnl = "parse" /\ line_join(SubSeq(b, start + 1, BUFFER_SIZE))  BY DEF ParseRest, Part, Bytes
<1>2. joined[fd] /\ line' = l  BY <1>1, JoinIs
<1>3. Base \in Seq(Chars) /\ (Base = <<>> \/ Begun(Base))  BY <1>1, <1>2, BaseIs
<1>4. /\ start \in 0 .. BUFFER_SIZE /\ start \in Nat /\ BUFFER_SIZE \in Nat /\ b \in [1 .. BUFFER_SIZE -> Chars]
      /\ \A p \in start + 1 .. BUFFER_SIZE : b[p] \notin Plain
  BY RestIs
<1> HIDE DEF start, b
<1>5. start + 1 \in start + 1 .. BUFFER_SIZE /\ BUFFER_SIZE \in start + 1 .. BUFFER_SIZE  BY <1>4
<1>6. b[start + 1] # Nul /\ \A p \in start + 1 .. BUFFER_SIZE - 1 : b[p] \notin Plain
  BY <1>4, <1>5 DEF Plain
<1>7. LET m == Base \o SubSeq(b, start + 1, BUFFER_SIZE)
      IN  m \in Seq(Chars) /\ Finished(m) /\ m[Len(m)] = b[BUFFER_SIZE]
  BY <1>3, <1>4, <1>5, <1>6, FinishedIs, Zenon
<1>8. l \in Seq(Chars) /\ Finished(l) /\ l[Len(l)] \notin Plain
  BY <1>4, <1>5, <1>7
<1> HIDE DEF l
<1>9. Begun(l) /\ l # Nothing
  <2>1. \A p \in 1 .. Len(l) : p = Len(l) \/ p \in 1 .. Len(l) - 1  BY <1>8
  <2>2. QED  BY <1>8, <2>1 DEF Begun, Finished, Nothing
<1>10. QED  BY <1>2, <1>8, <1>9 DEF l, b

LEMMA RestType == GnlIInv /\ ParseRest => GnlTypeOK' /\ LineBegun'
<1> SUFFICES ASSUME GnlIInv, ParseRest PROVE GnlTypeOK' /\ LineBegun'  OBVIOUS
<1> DEFINE part == SubSeq(static[fd], start + 1, BUFFER_SIZE)
<1>1. GnlTypeOK /\ LineBegun /\ gnl = "parse"  BY DEF GnlIInv, ParseRest
<1>2. /\ IF start < BUFFER_SIZE THEN line_join(part) ELSE UNCHANGED <<line, joined>>
      /\ l_line' = l_line + BUFFER_SIZE - start /\ gnl' = "update"
      /\ UNCHANGED <<stream, taken, static, fd, returned, full>>
  BY DEF ParseRest, Part, Bytes
<1>3. start \in 0 .. BUFFER_SIZE /\ BUFFER_SIZE \in Nat /\ part \in Seq(Chars)  BY RestIs
<1> HIDE DEF start, part
<1>4. line' \in Seq(Chars) /\ joined' \in [Descriptors -> BOOLEAN]
  <2>1. CASE start < BUFFER_SIZE  BY <1>1, <1>2, <1>3, <2>1, JoinType
  <2>2. CASE ~(start < BUFFER_SIZE)  BY <1>1, <1>2, <2>2 DEF GnlTypeOK
  <2>3. QED  BY <2>1, <2>2
<1>5. l_line' \in Nat  BY <1>1, <1>2, <1>3 DEF GnlTypeOK
<1>6. GnlTypeOK'  BY <1>1, <1>2, <1>4, <1>5 DEF GnlTypeOK
<1>7. ASSUME joined'[fd] PROVE (line' = Nothing /\ l_line' = 0) \/ Begun(line')
  <2>1. CASE start < BUFFER_SIZE  BY <1>7, <2>1, RestJoins DEF start
  <2>2. CASE ~(start < BUFFER_SIZE)
    <3>1. line' = line /\ joined[fd] /\ start = BUFFER_SIZE  BY <1>2, <1>3, <1>7, <2>2
    <3>2. l_line' = l_line  BY <1>1, <1>2, <1>3, <3>1 DEF GnlTypeOK
    <3>3. QED  BY <1>1, <3>1, <3>2 DEF LineBegun
  <2>3. QED  BY <2>1, <2>2
<1>8. QED  BY <1>2, <1>6, <1>7 DEF LineBegun

LEMMA RestStep == GnlIInv /\ ParseRest => GnlIInv'
<1> SUFFICES ASSUME GnlIInv, ParseRest PROVE GnlIInv'  OBVIOUS
<1> DEFINE b == static[fd]
           part == SubSeq(b, start + 1, BUFFER_SIZE)
           now == IF line' = Nothing THEN <<>> ELSE line'
<1>1. GnlTypeOK /\ Good(fd) /\ GnlTypeOK' /\ LineBegun'  BY RestType, GoodIs DEF GnlTypeOK
<1>2. /\ IF start < BUFFER_SIZE THEN line_join(part) ELSE UNCHANGED <<line, joined>>
      /\ gnl = "parse" /\ gnl' = "update"
      /\ UNCHANGED <<stream, taken, static, fd, returned, full>>
  BY DEF ParseRest, Part, Bytes
<1>3. /\ start \in 0 .. BUFFER_SIZE /\ start \in Nat /\ BUFFER_SIZE \in Nat
      /\ b \in [1 .. BUFFER_SIZE -> Chars] /\ \A p \in 1 .. start : b[p] = Nul
      /\ \A p \in start + 1 .. BUFFER_SIZE : b[p] \notin Plain
      /\ part \in Seq(Chars)
  BY RestIs
<1> HIDE DEF start
<1>4. ASSUME NEW d \in Descriptors \ {fd} PROVE Good(d)'
  <2>1. joined'[d] = joined[d]
    <3> HIDE DEF part
    <3>1. CASE start < BUFFER_SIZE  BY <1>1, <1>2, <1>3, <3>1, JoinType
    <3>2. CASE ~(start < BUFFER_SIZE)  BY <1>2, <3>2
    <3>3. QED  BY <3>1, <3>2
  <2>2. QED  BY <1>2, <2>1, OtherGood
<1>5. Packed(fd)' /\ Filled(fd)'
  <2>1. Packed(fd) /\ Filled(fd)  BY <1>1 DEF Good
  <2>2. Packed(fd)'  BY <1>2, <2>1 DEF Packed
  <2>3. Filled(fd)'  BY <1>2, <2>1 DEF Filled
  <2>4. QED  BY <2>2, <2>3
<1>6. ASSUME joined'[fd]
      PROVE  /\ joined[fd] /\ now \in Seq(Chars) /\ Base \in Seq(Chars)
             /\ Bare(Base \o b) = Bare(now)
             /\ Emptied(Base \o b) => Emptied(now)
  <2>1. b \in Seq(Chars) /\ Len(b) = BUFFER_SIZE  BY <1>3
  <2>2. CASE start < BUFFER_SIZE
    <3>1. joined[fd] /\ line' = Base \o part /\ Begun(line') /\ line' \in Seq(Chars) /\ line' # Nothing
      BY <1>6, <2>2, RestJoins DEF start
    <3>2. Base \in Seq(Chars)  BY <1>2, <3>1, BaseIs
    <3>3. start + 1 \in 1 .. BUFFER_SIZE /\ b[start + 1] # Nul
      <4>1. start + 1 \in start + 1 .. BUFFER_SIZE /\ start + 1 \in 1 .. BUFFER_SIZE  BY <1>3, <2>2
      <4>2. QED  BY <1>3, <4>1 DEF Plain
    <3>4. ~Emptied(Base \o b)  BY <1>3, <3>2, <3>3, NotEmptied
    <3> DEFINE c == [p \in 1 .. BUFFER_SIZE |-> IF p <= BUFFER_SIZE THEN Nul ELSE b[p]]
    <3>5. Bare(b) = Bare(part) \o Bare(c)
      <4>1. BUFFER_SIZE \in start .. BUFFER_SIZE  BY <1>3
      <4> HIDE DEF b
      <4>2. QED  BY <1>3, <4>1, BareCut
    <3>6. Bare(c) = <<>>
      <4>1. c \in Seq(Chars) /\ \A p \in 1 .. Len(c) : c[p] = Nul  BY <1>3 DEF Chars
      <4> HIDE DEF c
      <4>2. QED  BY <4>1, BareNuls
    <3> HIDE DEF c, b, part
    <3>7. Bare(part) \in Seq(Chars)  BY <1>3, BareType
    <3>8. Bare(b) = Bare(part)  BY <3>5, <3>6, <3>7, ConcatEmptySeq
    <3>9. Bare(Base \o b) = Bare(Base) \o Bare(part)  BY <2>1, <3>2, <3>8, BareConcat
    <3>10. Bare(Base \o part) = Bare(Base) \o Bare(part)  BY <1>3, <3>2, BareConcat
    <3>11. QED  BY <3>1, <3>2, <3>4, <3>9, <3>10
  <2>3. CASE ~(start < BUFFER_SIZE)
    <3>1. line' = line /\ joined[fd] /\ start = BUFFER_SIZE  BY <1>2, <1>3, <1>6, <2>3
    <3>2. Base \in Seq(Chars) /\ now = Base  BY <1>2, <3>1, BaseIs DEF Base
    <3>3. \A p \in 1 .. Len(b) : b[p] = Nul  BY <1>3, <2>1, <3>1
    <3> HIDE DEF b
    <3>4. Bare(b) = <<>>  BY <2>1, <3>3, BareNuls
    <3>5. Bare(Base \o b) = Bare(Base) \o <<>>  BY <2>1, <3>2, <3>4, BareConcat
    <3>6. Bare(Base) \in Seq(Chars)  BY <3>2, BareType
    <3>7. Bare(Base \o b) = Bare(Base)  BY <3>5, <3>6, ConcatEmptySeq
    <3>8. \A p \in 1 .. Len(Base) : p \in 1 .. Len(Base \o b) /\ (Base \o b)[p] = Base[p]  BY <2>1, <3>2
    <3>9. QED  BY <3>1, <3>2, <3>7, <3>8 DEF Emptied
  <2>4. QED  BY <2>2, <2>3
<1>7. ASSUME joined'[fd] PROVE LinesReturned(fd)' /\ AllRead(fd)'
  <2>1. /\ joined[fd] /\ now \in Seq(Chars) /\ Base \in Seq(Chars)
        /\ Bare(Base \o b) = Bare(now) /\ (Emptied(Base \o b) => Emptied(now))
    BY <1>6, <1>7
  <2>2. LinesReturned(fd) /\ AllRead(fd)  BY <1>1, <2>1 DEF Good
  <2>3. Held(fd) = Base \o b /\ Held(fd) \in Seq(Chars) /\ fd \in Descriptors
    BY <1>1, <1>2, HeldIs DEF GnlTypeOK
  <2>4. Held(fd)' = now
    <3>1. Held(fd)' = now \o <<>>  BY <1>2 DEF Held
    <3> HIDE DEF now
    <3>2. QED  BY <2>1, <3>1, ConcatEmptySeq
  <2> HIDE DEF now, b
  <2>5. Emptied(Held(fd)) => Emptied(Held(fd)')
    <3>1. Emptied(Held(fd)) => Emptied(now)  BY <2>1, <2>3, Zenon
    <3>2. QED  BY <2>4, <3>1 DEF Emptied
  <2>6. returned[fd] \in Seq(Seq(Chars))  BY <1>1, <2>3 DEF GnlTypeOK
  <2>7. Bare(FlattenSeq(returned[fd]) \o Held(fd)) = Bare(FlattenSeq(returned[fd])) \o Bare(Held(fd))
    BY <2>3, <2>6, FlatHeld
  <2>8. Bare(FlattenSeq(returned[fd]) \o now) = Bare(FlattenSeq(returned[fd])) \o Bare(now)
    BY <2>1, <2>6, FlatHeld
  <2>9. AllRead(fd)'
    <3>1. AllRead(fd)' <=> Bare(FlattenSeq(returned[fd]) \o now) = SubSeq(stream[fd], 1, taken[fd])
      BY <1>2, <2>4 DEF AllRead
    <3>2. Bare(Held(fd)) = Bare(now)  BY <2>1, <2>3, Zenon
    <3>3. Bare(FlattenSeq(returned[fd]) \o Held(fd)) = Bare(FlattenSeq(returned[fd]) \o now)
      BY <2>7, <2>8, <3>2
    <3>4. QED  BY <2>2, <3>1, <3>3 DEF AllRead
  <2>10. LinesReturned(fd)'
    <3>1. \A p \in 1 .. Len(returned[fd]) : AtEndOf(fd, p) => AtEndOf(fd, p)'  BY <1>2, <2>5 DEF AtEndOf, Emptied
    <3>2. QED  BY <1>2, <2>2, <3>1 DEF LinesReturned
  <2>11. QED  BY <2>9, <2>10
<1>8. QED  BY <1>1, <1>2, <1>4, <1>5, <1>7, SameCall

-----------------------------------------------------------------------------
(* A read brings the next bytes of the stream. *)
LEMMA ReadIs ==
  ASSUME NEW st \in Seq(Chars), \A p \in 1 .. Len(st) : st[p] # Nul, NEW t \in Nat, NEW n \in 1 .. BUFFER_SIZE,
         t + n <= Len(st), NEW c, c = [p \in 1 .. BUFFER_SIZE |-> IF p <= n THEN st[t + p] ELSE Nul]
  PROVE  /\ c \in [1 .. BUFFER_SIZE -> Chars] /\ Bare(c) = SubSeq(st, t + 1, t + n)
         /\ SubSeq(st, 1, t + n) = SubSeq(st, 1, t) \o SubSeq(st, t + 1, t + n)
         /\ SubSeq(st, t + 1, t + n) \in Seq(Chars)
<1> DEFINE piece == SubSeq(st, t + 1, t + n)
           front == SubSeq(c, 1, n)
           nuls == SubSeq(c, n + 1, Len(c))
<1>1. BUFFER_SIZE \in Nat /\ n \in Nat  BY BufferAssumption
<1>2. c \in [1 .. BUFFER_SIZE -> Chars]
  <2>1. Nul \in Chars  BY Zenon DEF Chars
  <2>2. \A p \in 1 .. BUFFER_SIZE : p <= n => t + p \in 1 .. Len(st)  BY <1>1
  <2>3. \A p \in 1 .. BUFFER_SIZE : p <= n => st[t + p] \in Chars  BY <2>2
  <2>4. QED  BY <2>1, <2>3
<1>3. c \in Seq(Chars) /\ Len(c) = BUFFER_SIZE  BY <1>1, <1>2
<1>4. piece \in Seq(Chars) /\ Len(piece) = n /\ \A p \in 1 .. n : piece[p] = st[t + p]  BY <1>1
<1>5. front \in Seq(Chars) /\ Len(front) = n /\ \A p \in 1 .. n : front[p] = st[t + p]
  <2>1. \A p \in 1 .. n : p \in 1 .. BUFFER_SIZE /\ p <= n  BY <1>1
  <2>2. front \in Seq(Chars) /\ Len(front) = n /\ \A p \in 1 .. n : front[p] = c[p]  BY <1>1, <1>3
  <2>3. QED  BY <2>1, <2>2
<1>6. nuls \in Seq(Chars) /\ \A p \in 1 .. Len(nuls) : nuls[p] = Nul
  <2>1. nuls \in Seq(Chars) /\ Len(nuls) = BUFFER_SIZE - n /\ \A p \in 1 .. BUFFER_SIZE - n : nuls[p] = c[n + p]
    <3>1. nuls = SubSeq(c, n + 1, BUFFER_SIZE)  BY <1>3
    <3>2. n + 1 \in Nat /\ n + 1 <= BUFFER_SIZE + 1  BY <1>1
    <3> HIDE DEF nuls
    <3>3. n + 1 \in 1 .. Len(c) + 1 /\ BUFFER_SIZE \in (n + 1) - 1 .. Len(c)  BY <1>1, <1>3
    <3>4. /\ nuls \in Seq(Chars) /\ Len(nuls) = BUFFER_SIZE - (n + 1) + 1
          /\ \A p \in 1 .. BUFFER_SIZE - (n + 1) + 1 : nuls[p] = c[(n + 1) + p - 1]
      BY <1>1, <1>3, <3>1, <3>3, SubSeqIs
    <3>5. BUFFER_SIZE - (n + 1) + 1 = BUFFER_SIZE - n /\ \A p \in 1 .. BUFFER_SIZE - n : (n + 1) + p - 1 = n + p
      BY <1>1
    <3>6. QED  BY <3>4, <3>5
  <2>2. \A p \in 1 .. BUFFER_SIZE - n : n + p \in 1 .. BUFFER_SIZE /\ ~(n + p <= n)  BY <1>1
  <2>3. QED  BY <2>1, <2>2
<1>7. c = front \o nuls
  <2>1. n \in 0 .. Len(c)  BY <1>1, <1>3
  <2>2. QED  BY <1>3, <2>1, TwoParts
<1> HIDE DEF piece, front, nuls
<1>8. front = piece
  <2>1. Len(front) = Len(piece) /\ \A p \in 1 .. Len(front) : front[p] = piece[p]  BY <1>4, <1>5
  <2>2. QED  BY <1>4, <1>5, <2>1, SeqEqual, Zenon
<1>9. \A p \in 1 .. n : st[t + p] # Nul
  <2>1. \A p \in 1 .. n : t + p \in 1 .. Len(st)  BY <1>1
  <2>2. QED  BY <2>1
<1>10. \A p \in 1 .. Len(piece) : piece[p] # Nul  BY <1>4, <1>9
<1>11. Bare(piece) = piece /\ Bare(nuls) = <<>>  BY <1>4, <1>6, <1>10, BareNuls, BareWhole
<1>12. Bare(c) = piece
  <2>1. Bare(c) = Bare(piece) \o Bare(nuls)  BY <1>4, <1>6, <1>7, <1>8, BareConcat
  <2>2. QED  BY <1>4, <1>11, <2>1, ConcatEmptySeq
<1>13. SubSeq(st, 1, t + n) = SubSeq(st, 1, t) \o SubSeq(st, t + 1, t + n)
  <2>1. 1 \in 1 .. Len(st) + 1 /\ t \in 1 - 1 .. Len(st) /\ t + n \in t .. Len(st)  BY <1>1
  <2>2. QED  BY <2>1, ConcatAdjacentSubSeq, Zenon
<1>14. QED  BY <1>2, <1>4, <1>12, <1>13 DEF piece

LEMMA ReadStep == GnlIInv /\ update_buffer => GnlIInv'
<1> SUFFICES ASSUME GnlIInv, update_buffer PROVE GnlIInv'  OBVIOUS
<1>1. GnlTypeOK /\ LineBegun /\ Good(fd) /\ fd \in Descriptors /\ BUFFER_SIZE \in Nat
  BY GoodIs, BufferAssumption DEF GnlTypeOK
<1> DEFINE st == stream[fd]
           t == taken[fd]
           c == static'[fd]
<1>2. /\ gnl = "update" /\ gnl' = "parse" /\ UNCHANGED <<stream, fd, line, l_line, returned, joined>>
  BY DEF update_buffer
<1>3. PICK n \in 1 .. BUFFER_SIZE :
          /\ t + n <= Len(st)
          /\ static' = [static EXCEPT ![fd] = [p \in 1 .. BUFFER_SIZE |-> IF p <= n THEN st[t + p] ELSE Nul]]
          /\ taken' = [taken EXCEPT ![fd] = @ + n]
          /\ full' = [full EXCEPT ![fd] = @ /\ (n = BUFFER_SIZE \/ t + n = Len(st))]
  BY DEF update_buffer
<1>4. st \in Seq(Chars) /\ (\A p \in 1 .. Len(st) : st[p] # Nul) /\ t \in Nat  BY <1>1, StreamIs DEF GnlTypeOK
<1>5. c = [p \in 1 .. BUFFER_SIZE |-> IF p <= n THEN st[t + p] ELSE Nul]  BY <1>1, <1>3 DEF GnlTypeOK
<1>6. /\ taken'[fd] = t + n
      /\ full'[fd] = (full[fd] /\ (n = BUFFER_SIZE \/ t + n = Len(st)))
      /\ \A d \in Descriptors \ {fd} : taken'[d] = taken[d] /\ full'[d] = full[d] /\ static'[d] = static[d]
  BY <1>1, <1>3 DEF GnlTypeOK
<1> HIDE DEF st, t, c
<1>7. /\ c \in [1 .. BUFFER_SIZE -> Chars] /\ Bare(c) = SubSeq(st, t + 1, t + n)
      /\ SubSeq(st, 1, t + n) = SubSeq(st, 1, t) \o SubSeq(st, t + 1, t + n)
      /\ SubSeq(st, t + 1, t + n) \in Seq(Chars)
  BY <1>3, <1>4, <1>5, ReadIs
<1>8. GnlTypeOK'
  <2>1. static' \in [Descriptors -> [1 .. BUFFER_SIZE -> Chars]]
    <3>1. static' = [static EXCEPT ![fd] = c]  BY <1>1, <1>3, <1>5
    <3>2. QED  BY <1>1, <1>7, <3>1 DEF GnlTypeOK
  <2>2. taken' \in [Descriptors -> Nat]  BY <1>1, <1>3, <1>4 DEF GnlTypeOK, t
  <2>3. full' \in [Descriptors -> BOOLEAN]  BY <1>1, <1>3 DEF GnlTypeOK
  <2>4. \A d \in Descriptors : taken'[d] <= Len(stream[d])  BY <1>1, <1>3, <1>6 DEF GnlTypeOK, st
  <2>5. QED  BY <1>1, <1>2, <2>1, <2>2, <2>3, <2>4 DEF GnlTypeOK
<1>9. LineBegun'  BY <1>1, <1>2 DEF LineBegun
<1>10. ASSUME NEW d \in Descriptors \ {fd} PROVE Good(d)'  BY <1>2, <1>6, OtherGood
<1>11. \A p \in 1 .. BUFFER_SIZE : c[p] # Nul <=> p <= n
  <2>1. \A p \in 1 .. BUFFER_SIZE : p <= n => t + p \in 1 .. Len(st)  BY <1>3, <1>4
  <2>2. QED  BY <1>4, <1>5, <2>1
<1>12. Packed(fd)'
  <2>1. \A p, q, r \in 1 .. BUFFER_SIZE : p < q /\ q < r /\ c[p] # Nul /\ c[r] # Nul => c[q] # Nul
    BY <1>1, <1>3, <1>11
  <2>2. QED  BY <1>2, <2>1 DEF Packed, c
<1>13. Filled(fd)'
  <2>1. ASSUME NEW p \in 1 .. BUFFER_SIZE, NEW q \in 1 .. BUFFER_SIZE, full'[fd], p < q, c[p] # Nul, c[q] = Nul
        PROVE  taken'[fd] = Len(st)
    <3>1. ~(q <= n)  BY <1>11, <2>1
    <3>2. n # BUFFER_SIZE  BY <1>1, <1>3, <3>1
    <3>3. QED  BY <1>6, <2>1, <3>2
  <2>2. QED  BY <1>2, <2>1 DEF Filled, c, st
<1>14. ASSUME joined'[fd] PROVE LinesReturned(fd)' /\ AllRead(fd)'
  <2>1. LinesReturned(fd) /\ AllRead(fd) /\ joined[fd]  BY <1>1, <1>2, <1>14 DEF Good
  <2>2. Held(fd) = Base /\ Base \in Seq(Chars)  BY <1>1, <1>2, HeldIs
  <2>3. Held(fd)' = Base \o c  BY <1>2 DEF Held, Base, c
  <2>4. LinesReturned(fd)'
    <3>1. \A p \in 1 .. Len(returned[fd]) : ~AtEndOf(fd, p)  BY <1>3, <1>4 DEF AtEndOf, t, st
    <3>2. \A p \in 1 .. Len(returned[fd]) :
             Finished(returned[fd][p]) /\ ~(full[fd] /\ returned[fd][p][Len(returned[fd][p])] # Newline)
      BY <2>1, <3>1 DEF LinesReturned
    <3>3. full'[fd] => full[fd]  BY <1>6
    <3>4. QED  BY <1>2, <3>2, <3>3 DEF LinesReturned
  <2>5. AllRead(fd)'
    <3> DEFINE flat == FlattenSeq(returned[fd])
    <3>1. returned[fd] \in Seq(Seq(Chars))  BY <1>1 DEF GnlTypeOK
    <3>2. c \in Seq(Chars) /\ Base \o c \in Seq(Chars)
      <4>1. c \in Seq(Chars)  BY <1>1, <1>7
      <4>2. QED  BY <2>2, <4>1, ConcatProperties
    <3>3. Bare(flat \o (Base \o c)) = Bare(flat) \o Bare(Base \o c)  BY <3>1, <3>2, FlatHeld
    <3>4. Bare(Base \o c) = Bare(Base) \o Bare(c)  BY <2>2, <3>2, BareConcat
    <3>5. /\ Bare(flat \o Base) = Bare(flat) \o Bare(Base)
          /\ Bare(flat) \in Seq(Chars) /\ Bare(Base) \in Seq(Chars) /\ Bare(c) \in Seq(Chars)
      BY <2>2, <3>1, <3>2, FlatHeld, BareType
    <3>6. Bare(flat \o Base) = SubSeq(st, 1, t)
      <4>1. Bare(flat \o Held(fd)) = SubSeq(st, 1, t)  BY <2>1 DEF AllRead, st, t
      <4>2. QED  BY <2>2, <4>1, Zenon
    <3> HIDE DEF flat
    <3>7. Bare(flat \o (Base \o c)) = SubSeq(st, 1, t + n)
      <4>1. Associates(Chars)  BY Association
      <4>2. (Bare(flat) \o Bare(Base)) \o Bare(c) = Bare(flat) \o (Bare(Base) \o Bare(c))
        BY <3>5, <4>1, Zenon DEF Associates
      <4>3. QED  BY <1>7, <3>3, <3>4, <3>5, <3>6, <4>2
    <3>8. AllRead(fd)' <=> Bare(flat \o (Base \o c)) = SubSeq(st, 1, t + n)
      BY <1>2, <1>6, <2>3 DEF AllRead, flat, st
    <3>9. QED  BY <3>7, <3>8
  <2>6. QED  BY <2>4, <2>5
<1>15. QED  BY <1>2, <1>8, <1>9, <1>10, <1>12, <1>13, <1>14, SameCall

-----------------------------------------------------------------------------
(* There is no more to read, and the line is returned as it is. *)
LEMMA ZerosAre ==
  /\ BUFFER_SIZE \in Nat /\ Zeros \in [1 .. BUFFER_SIZE -> Chars] /\ Zeros \in Seq(Chars)
  /\ Emptied(Zeros) /\ Bare(Zeros) = <<>>
<1>1. BUFFER_SIZE \in Nat  BY BufferAssumption
<1>2. Zeros \in [1 .. BUFFER_SIZE -> Chars] /\ \A p \in 1 .. BUFFER_SIZE : Zeros[p] = Nul  BY DEF Zeros, Chars
<1>3. Zeros \in Seq(Chars) /\ Len(Zeros) = BUFFER_SIZE  BY <1>1, <1>2
<1>4. \A p \in 1 .. Len(Zeros) : Zeros[p] = Nul  BY <1>2, <1>3
<1>5. Bare(Zeros) = <<>>  BY <1>3, <1>4, BareNuls
<1>6. QED  BY <1>1, <1>2, <1>3, <1>4, <1>5 DEF Emptied

LEMMA NoMoreStep == GnlIInv /\ NoMore => GnlIInv'
<1> SUFFICES ASSUME GnlIInv, NoMore PROVE GnlIInv'  OBVIOUS
<1>1. GnlTypeOK /\ LineBegun /\ Good(fd) /\ fd \in Descriptors  BY GoodIs DEF GnlTypeOK
<1>2. /\ gnl = "update" /\ gnl' = "idle" /\ UNCHANGED <<stream, taken, fd, line, l_line, joined>>
      /\ static' = [static EXCEPT ![fd] = Zeros]
      /\ full' = [full EXCEPT ![fd] = @ /\ taken[fd] = Len(stream[fd])]
      /\ returned' = IF line = Nothing THEN returned ELSE [returned EXCEPT ![fd] = Append(@, line)]
  BY DEF NoMore, Give
<1>3. /\ static'[fd] = Zeros /\ full'[fd] = (full[fd] /\ taken[fd] = Len(stream[fd]))
      /\ \A d \in Descriptors \ {fd} : static'[d] = static[d] /\ full'[d] = full[d] /\ returned'[d] = returned[d]
  BY <1>1, <1>2 DEF GnlTypeOK
<1>4. GnlTypeOK'
  <2>1. static' \in [Descriptors -> [1 .. BUFFER_SIZE -> Chars]]  BY <1>1, <1>2, ZerosAre DEF GnlTypeOK
  <2>2. full' \in [Descriptors -> BOOLEAN]  BY <1>1, <1>2 DEF GnlTypeOK
  <2>3. returned' \in [Descriptors -> Seq(Seq(Chars))]
    <3>1. Append(returned[fd], line) \in Seq(Seq(Chars))  BY <1>1 DEF GnlTypeOK
    <3>2. QED  BY <1>1, <1>2, <3>1 DEF GnlTypeOK
  <2>4. QED  BY <1>1, <1>2, <2>1, <2>2, <2>3 DEF GnlTypeOK
<1>5. LineBegun'  BY <1>2 DEF LineBegun
<1>6. ASSUME NEW d \in Descriptors \ {fd} PROVE Good(d)'  BY <1>2, <1>3, OtherGood
<1>7. Packed(fd)' /\ Filled(fd)'
  <2>1. \A p \in 1 .. BUFFER_SIZE : static'[fd][p] = Nul  BY <1>3 DEF Zeros
  <2>2. QED  BY <1>2, <2>1 DEF Packed, Filled
<1>8. Held(fd) = Base /\ Base \in Seq(Chars) /\ returned[fd] \in Seq(Seq(Chars)) /\ line \in Seq(Chars)
  BY <1>1, <1>2, HeldIs DEF GnlTypeOK
<1>9. Held(fd)' = Zeros  BY <1>2, <1>3 DEF Held
<1>10. ASSUME joined'[fd] PROVE LinesReturned(fd)' /\ AllRead(fd)'
  <2>1. LinesReturned(fd) /\ AllRead(fd) /\ joined[fd]  BY <1>1, <1>2, <1>10 DEF Good
  <2>2. (Base = <<>> <=> line = Nothing) /\ (Base = <<>> \/ Begun(Base))  BY <1>2, <2>1, BaseIs
  <2>3. Bare(FlattenSeq(returned[fd])) \o Bare(Base) = SubSeq(stream[fd], 1, taken[fd])
    <3>1. Bare(FlattenSeq(returned[fd]) \o Base) = SubSeq(stream[fd], 1, taken[fd])
      BY <1>8, <2>1, Zenon DEF AllRead
    <3>2. QED  BY <1>8, <3>1, FlatHeld
  <2>4. AllRead(fd)' <=> Bare(FlattenSeq(returned'[fd]) \o Zeros) = SubSeq(stream[fd], 1, taken[fd])
    BY <1>2, <1>9 DEF AllRead
  <2>5. CASE line = Nothing
    <3>1. returned' = returned /\ Base = <<>>  BY <1>2, <2>2, <2>5
    <3>2. Bare(Base) = <<>>
      <4>1. \A p \in 1 .. Len(Base) : Base[p] = Nul  BY <3>1
      <4>2. QED  BY <1>8, <4>1, BareNuls
    <3>3. Bare(FlattenSeq(returned[fd]) \o Zeros) = Bare(FlattenSeq(returned[fd])) \o Bare(Base)
      BY <1>8, <3>2, FlatHeld, ZerosAre
    <3>4. AllRead(fd)'  BY <2>3, <2>4, <3>1, <3>3
    <3>5. \A p \in 1 .. Len(returned[fd]) : AtEndOf(fd, p) => AtEndOf(fd, p)'
      BY <1>2, <1>9, <3>1, ZerosAre DEF AtEndOf, Emptied
    <3>6. full'[fd] => full[fd]  BY <1>3
    <3>7. LinesReturned(fd)'  BY <1>2, <2>1, <3>1, <3>5, <3>6 DEF LinesReturned
    <3>8. QED  BY <3>4, <3>7
  <2>6. CASE line # Nothing
    <3> DEFINE lines == returned[fd]
               more == returned'[fd]
    <3>1. Base = line /\ Begun(line)  BY <2>2, <2>6 DEF Base
    <3>2. more = Append(lines, line)  BY <1>1, <1>2, <2>6 DEF GnlTypeOK
    <3>3. AllRead(fd)'
      <4>1. Bare(FlattenSeq(Append(lines, line)) \o Zeros) = Bare(FlattenSeq(lines)) \o (Bare(line) \o Bare(Zeros))
        BY <1>8, FlatMore, ZerosAre
      <4>2. Bare(line) \o Bare(Zeros) = Bare(line)  BY <1>8, BareType, ConcatEmptySeq, ZerosAre
      <4>3. QED  BY <2>3, <2>4, <3>1, <3>2, <4>1, <4>2
    <3>4. 1 \in 1 .. Len(line) /\ Len(line) \in 1 .. Len(line) /\ line[1] # Nul /\ line[Len(line)] # Newline
      <4>1. 1 \in 1 .. Len(line) /\ Len(line) \in 1 .. Len(line)  BY <1>8, <3>1 DEF Begun
      <4>2. QED  BY <3>1, <4>1 DEF Begun, Plain
    <3>5. Finished(line)  BY <1>8, <3>1, <3>4 DEF Begun, Finished
    <3>6. ~Emptied(Held(fd))
      <4>1. ~Emptied(line)  BY <3>4 DEF Emptied
      <4>2. QED  BY <1>8, <3>1, <4>1, Zenon
    <3>7. \A p \in 1 .. Len(lines) : Finished(lines[p]) /\ ~(full[fd] /\ lines[p][Len(lines[p])] # Newline)
      BY <2>1, <3>6 DEF LinesReturned, AtEndOf
    <3>8. Len(more) = Len(lines) + 1 /\ more[Len(lines) + 1] = line /\ Len(lines) \in Nat
          /\ \A p \in 1 .. Len(lines) : more[p] = lines[p]
      BY <1>8, <3>2
    <3> HIDE DEF lines, more
    <3>9. ASSUME NEW p \in 1 .. Len(more)
          PROVE  Finished(more[p]) /\ (full'[fd] /\ more[p][Len(more[p])] # Newline
                     => p = Len(more) /\ taken[fd] = Len(stream[fd]) /\ Emptied(Zeros))
      <4>1. CASE p \in 1 .. Len(lines)  BY <1>3, <3>7, <3>8, <4>1
      <4>2. CASE p = Len(lines) + 1  BY <1>3, <3>5, <3>8, <4>2, ZerosAre
      <4>3. QED  BY <3>8, <4>1, <4>2
    <3>10. LinesReturned(fd)'  BY <1>2, <1>9, <3>9 DEF LinesReturned, AtEndOf, more
    <3>11. QED  BY <3>3, <3>10
  <2>7. QED  BY <2>5, <2>6
<1>11. QED  BY <1>2, <1>4, <1>5, <1>6, <1>7, <1>10, SameCall

-----------------------------------------------------------------------------
LEMMA GnlBegins == GnlInit => GnlIInv
<1> SUFFICES ASSUME GnlInit PROVE GnlIInv  OBVIOUS
<1>1. /\ stream \in Streams /\ taken = [d \in Descriptors |-> 0] /\ static = [d \in Descriptors |-> Zeros]
      /\ returned = [d \in Descriptors |-> <<>>] /\ line = Nothing /\ l_line = 0 /\ gnl = "idle"
      /\ joined = [d \in Descriptors |-> TRUE] /\ full = [d \in Descriptors |-> TRUE]
      /\ fd = Min(Descriptors)
  BY DEF GnlInit
<1>2. fd \in Descriptors  BY <1>1, DescriptorsAssumption, LeastIsMin
<1>3. Nothing \in Seq(Chars)  BY DEF Nothing, Chars
<1>4. \A d \in Descriptors : stream[d] \in Seq(STRING)  BY <1>1, StreamsAssumption
<1>5. GnlTypeOK
  <2>1. \A d \in Descriptors : 0 <= Len(stream[d])  BY <1>4
  <2>2. returned \in [Descriptors -> Seq(Seq(Chars))]  BY <1>1
  <2>3. static \in [Descriptors -> [1 .. BUFFER_SIZE -> Chars]]  BY <1>1, ZerosAre
  <2>4. QED  BY <1>1, <1>2, <1>3, <2>1, <2>2, <2>3 DEF GnlTypeOK
<1>6. LineBegun  BY <1>1 DEF LineBegun
<1>7. ASSUME NEW d \in Descriptors PROVE Good(d)
  <2>1. static[d] = Zeros /\ returned[d] = <<>> /\ taken[d] = 0 /\ Held(d) = Zeros  BY <1>1 DEF Held
  <2>2. \A p \in 1 .. BUFFER_SIZE : static[d][p] = Nul  BY <2>1 DEF Zeros
  <2>3. Packed(d) /\ Filled(d)  BY <2>2 DEF Packed, Filled
  <2>4. LinesReturned(d)  BY <2>1 DEF LinesReturned
  <2>5. AllRead(d)
    <3>1. FlattenSeq(<<>>) = <<>>
      <4>1. Len(<<>>) = 0  OBVIOUS
      <4>2. QED  BY <4>1, Zenon DEF FlattenSeq
    <3>2. <<>> \o Zeros = Zeros  BY ConcatEmptySeq, ZerosAre
    <3>3. SubSeq(stream[d], 1, 0) = <<>>  BY <1>4
    <3>4. Bare(FlattenSeq(returned[d]) \o Held(d)) = <<>>  BY <2>1, <3>1, <3>2, ZerosAre
    <3>5. QED  BY <2>1, <3>3, <3>4 DEF AllRead
  <2>6. QED  BY <2>3, <2>4, <2>5 DEF Good
<1>8. QED  BY <1>5, <1>6, <1>7, GoodIs

LEMMA GnlSleeps == GnlIInv /\ UNCHANGED gvars => GnlIInv'
<1> SUFFICES ASSUME GnlIInv, UNCHANGED gvars PROVE GnlIInv'  OBVIOUS
<1>1. UNCHANGED <<stream, taken, static, fd, line, l_line, gnl, returned, joined, full>>  BY DEF gvars
<1>2. GnlTypeOK /\ LineBegun /\ \A d \in Descriptors : Good(d)  BY GoodIs
<1>3. GnlTypeOK'  BY <1>1, <1>2 DEF GnlTypeOK
<1>4. LineBegun'  BY <1>1, <1>2 DEF LineBegun
<1>5. ASSUME NEW d \in Descriptors PROVE Good(d)'
  <2>1. Held(d)' = Held(d)  BY <1>1 DEF Held
  <2>2. Untouched(d)  BY <1>1, <2>1 DEF Untouched
  <2>3. QED  BY <1>2, <2>2, UntouchedGood
<1>6. QED  BY <1>3, <1>4, <1>5 DEF GnlIInv, Good

(* What ft_gnl keeps between the bytes it has read, those in the buffer, the line it is at *)
(* and the lines it has returned.                                                          *)
THEOREM GnlInvariance == GnlSpec => []GnlIInv
<1>1. GnlIInv /\ [GnlNext]_gvars => GnlIInv'
  BY CallStep, LineStep, RestStep, ReadStep, NoMoreStep, GnlSleeps DEF GnlNext
<1>2. QED  BY <1>1, GnlBegins, PTL DEF GnlSpec

(* What is kept of a line that was returned. *)
LEMMA FinishedBare ==
  ASSUME NEW l \in Seq(Chars), Finished(l)
  PROVE  LET bare == Bare(l)
         IN  /\ bare \in Seq(Chars) /\ bare # <<>> /\ \A n \in 1 .. Len(bare) - 1 : bare[n] # Newline
             /\ Last(bare) # Newline => l[Len(l)] # Newline
<1> DEFINE top == Len(l)
           front == SubSeq(l, 1, top - 1)
           last == SubSeq(l, top, top)
<1>1. top \in Nat \ {0} /\ \A p \in 1 .. top - 1 : l[p] \notin Plain  BY DEF Finished
<1>2. CASE l[top] # Nul
  <2>1. \A p \in 1 .. top : l[p] # Nul
    <3>1. \A p \in 1 .. top : p = top \/ p \in 1 .. top - 1  BY <1>1
    <3>2. QED  BY <1>1, <1>2, <3>1 DEF Plain
  <2>2. Bare(l) = l  BY <2>1, BareWhole
  <2>3. Last(l) = l[top]  BY DEF Last
  <2>4. QED  BY <1>1, <2>2, <2>3 DEF Finished, Plain
<1>3. CASE l[top] = Nul
  <2>1. top # 1  BY <1>3 DEF Finished
  <2>2. /\ front \in Seq(Chars) /\ Len(front) = top - 1 /\ \A p \in 1 .. top - 1 : front[p] = l[p]
    <3>1. 1 \in 1 .. Len(l) + 1 /\ top - 1 \in 1 - 1 .. Len(l) /\ (top - 1) - 1 + 1 = top - 1  BY <1>1
    <3>2. \A p \in 1 .. top - 1 : 1 + p - 1 = p  BY <1>1
    <3>3. front \in Seq(Chars) /\ Len(front) = top - 1 /\ \A p \in 1 .. top - 1 : front[p] = l[1 + p - 1]
      BY <3>1, SubSeqIs
    <3>4. QED  BY <3>2, <3>3
  <2>3. last \in Seq(Chars) /\ \A p \in 1 .. Len(last) : last[p] = Nul  BY <1>1, <1>3
  <2>4. l = front \o last
    <3>1. top - 1 \in 0 .. Len(l) /\ (top - 1) + 1 = top  BY <1>1
    <3>2. l = SubSeq(l, 1, top - 1) \o SubSeq(l, (top - 1) + 1, Len(l))  BY <3>1, TwoParts
    <3>3. QED  BY <3>1, <3>2
  <2> HIDE DEF front, last, top
  <2>5. \A p \in 1 .. Len(front) : front[p] \notin Plain  BY <1>1, <2>2
  <2>6. Bare(front) = front  BY <2>2, <2>5, BareWhole DEF Plain
  <2>7. Bare(last) = <<>>  BY <2>3, BareNuls
  <2>8. Bare(l) = front
    <3>1. Bare(l) = Bare(front) \o Bare(last)  BY <2>2, <2>3, <2>4, BareConcat
    <3>2. QED  BY <2>2, <2>6, <2>7, <3>1, ConcatEmptySeq
  <2>9. Len(front) # 0 /\ front # <<>>  BY <1>1, <2>1, <2>2
  <2>10. \A p \in 1 .. Len(front) - 1 : front[p] # Newline  BY <1>1, <2>2, <2>5 DEF Plain
  <2>11. l[Len(l)] # Newline  BY <1>3 DEF top, Nul, Newline
  <2>12. QED  BY <2>2, <2>8, <2>9, <2>10, <2>11
<1>4. QED  BY <1>2, <1>3

(* The lines of a descriptor are what was read of it, as long as no allocation for it fails, *)
(* and when its reads are full each ends at a newline, but for the last of the stream.       *)
THEOREM LinesWholeHolds == GnlSpec => []LinesWhole
<1>1. GnlIInv => LinesWhole
  <2> SUFFICES ASSUME GnlIInv, NEW d \in Descriptors, joined[d]
               PROVE  /\ Bare(FlattenSeq(returned[d]) \o Held(d)) = SubSeq(stream[d], 1, taken[d])
                      /\ \A k \in DOMAIN returned[d] :
                            LET bare == Bare(returned[d][k])
                            IN  /\ \A n \in 1 .. Len(bare) - 1 : bare[n] # Newline
                                /\ full[d] /\ Last(bare) # Newline
                                       => k = Len(returned[d]) /\ taken[d] = Len(stream[d])
    BY DEF LinesWhole
  <2>1. LinesReturned(d) /\ AllRead(d) /\ returned[d] \in Seq(Seq(Chars))  BY DEF GnlIInv, GnlTypeOK
  <2>2. ASSUME NEW p \in DOMAIN returned[d]
        PROVE  LET bare == Bare(returned[d][p])
               IN  /\ \A n \in 1 .. Len(bare) - 1 : bare[n] # Newline
                   /\ full[d] /\ Last(bare) # Newline => p = Len(returned[d]) /\ taken[d] = Len(stream[d])
    <3> DEFINE l == returned[d][p]
    <3>1. p \in 1 .. Len(returned[d]) /\ l \in Seq(Chars)  BY <2>1
    <3>2. Finished(l) /\ (full[d] /\ l[Len(l)] # Newline => p = Len(returned[d]) /\ taken[d] = Len(stream[d]))
      BY <2>1, <3>1 DEF LinesReturned, AtEndOf
    <3> HIDE DEF l
    <3>3. /\ \A n \in 1 .. Len(Bare(l)) - 1 : Bare(l)[n] # Newline
          /\ Last(Bare(l)) # Newline => l[Len(l)] # Newline
      BY <3>1, <3>2, FinishedBare, Zenon
    <3>4. QED  BY <3>2, <3>3, Zenon DEF l
  <2>3. QED  BY <2>1, <2>2 DEF AllRead
<1>2. QED  BY <1>1, GnlInvariance, PTL
=============================================================================
