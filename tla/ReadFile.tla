------------------------------ MODULE ReadFile ------------------------------
(***************************************************************************)
(* read_file (srcs/file.c): read a descriptor to its end into a vector     *)
(* that doubles when it is full, append a NUL and return.  It is how every *)
(* command of ft_ssl that takes a payload gets it.                         *)
(*                                                                         *)
(* The descriptor is a file, a pipe or a terminal, so a read may return    *)
(* fewer bytes than asked for, and may fail; malloc and realloc may fail.  *)
(* A read that asks for nothing returns 0, which read_file takes for the   *)
(* end of the file: the interesting case is a payload that ends exactly    *)
(* where the buffer does.                                                  *)
(***************************************************************************)
EXTENDS Vector, Sequences

CONSTANTS Files,            \* the contents a descriptor may deliver
          InitialCapacity,  \* 1024 in the code
          NUL               \* the byte '\0'

ASSUME ByteAssumption == NUL \in Byte
ASSUME FilesAssumption == Files \subseteq Seq(Byte)
\* With one byte of capacity the first read would ask for nothing.
ASSUME CapacityAssumption == InitialCapacity \in Nat /\ InitialCapacity >= 2

VARIABLES
    file,       \* what the descriptor will have delivered when it ends
    pos,        \* how many bytes of it were delivered so far
    vec,        \* *vec of the caller: a vector or NoVector
    size,       \* bytes in the buffer; -1 stands for SIZE_MAX, see Read
    capacity,   \* the local variable, not the field of the header
    nread,      \* what the last read returned
    pc,         \* where read_file is
    ret         \* what it returned: "success" for 0, "failure" for 1

vars == <<file, pos, vec, size, capacity, nread, pc, ret>>

-----------------------------------------------------------------------------
\* The bytes of file from pos on, n of them, copied to the buffer at offset at.
\* What falls outside the block is not kept: InBounds says it never happens.
Store(v, at, n) ==
    [v EXCEPT !.data = [i \in 0 .. v.capacity - 1 |->
                          IF at <= i /\ i < at + n THEN file[pos + (i - at) + 1]
                                                   ELSE v.data[i]]]

\* How many bytes the next read asks for: room is always left for the NUL.
Request == capacity - (size + 1)

Return(r) == pc' = "done" /\ ret' = r

Init == /\ file \in Files
        /\ pos = 0
        /\ vec = NoVector
        /\ size = 0
        /\ capacity = InitialCapacity
        /\ nread = 0
        /\ pc = "create"
        /\ ret = "none"

\* ft_vector_create, which may find no memory.
Create ==
    /\ pc = "create"
    /\ \/ vec' = ft_vector_create(capacity) /\ pc' = "read" /\ UNCHANGED ret
       \/ vec' = NoVector /\ Return("failure")
    /\ UNCHANGED <<file, pos, size, capacity, nread>>

\* read() delivers between one byte and all that was asked for, ...
ReadBytes ==
    /\ pc = "read"
    /\ \E n \in 1 .. Request :
          /\ pos + n <= Len(file)
          /\ vec' = Store(vec, size, n)
          /\ pos' = pos + n
          /\ nread' = n
          /\ size' = size + n
    /\ pc' = "loop"
    /\ UNCHANGED <<file, capacity, ret>>

\* ... returns 0 at the end of the file, or when nothing was asked for, ...
ReadNothing ==
    /\ pc = "read"
    /\ pos = Len(file) \/ Request = 0
    /\ nread' = 0
    /\ pc' = "loop"
    /\ UNCHANGED <<file, pos, vec, size, capacity, ret>>

\* ... or fails.  The code adds the -1 to size all the same, which wraps when
\* size is 0; it then leaves without another use of size.
ReadFails ==
    /\ pc = "read"
    /\ nread' = -1
    /\ size' = size - 1
    /\ pc' = "loop"
    /\ UNCHANGED <<file, pos, vec, capacity, ret>>

\* Fault: the buffer need not grow before the next read, which asks for nothing.
LoopWhenFull ==
    /\ pc = "loop" /\ nread > 0
    /\ pc' = "read"
    /\ UNCHANGED <<file, pos, vec, size, capacity, nread, ret>>

\* The test and the first half of the loop's body: the buffer doubles when only
\* the byte kept for the NUL is left.
Loop ==
    /\ pc = "loop" /\ nread > 0 /\ size # capacity - 1
    /\ pc' = "read"
    /\ UNCHANGED <<file, pos, vec, size, capacity, nread, ret>>

\* Fault: the block is reserved before the local capacity doubles.
GrowLate ==
    /\ pc = "loop" /\ nread > 0 /\ size = capacity - 1
    /\ capacity' = capacity * 2
    /\ vec' = ft_vector_reserve(vec, capacity) /\ pc' = "read"
    /\ UNCHANGED <<file, pos, size, nread, ret>>

Grow ==
    /\ pc = "loop" /\ nread > 0 /\ size = capacity - 1
    /\ capacity' = capacity * 2
    /\ \/ vec' = ft_vector_reserve(vec, capacity') /\ pc' = "read" /\ UNCHANGED ret
       \/ /\ ReserveAllocates(vec, capacity')
          /\ vec' = NoVector /\ Return("failure")
    /\ UNCHANGED <<file, pos, size, nread>>

\* Fault: the vector is not freed when a read fails.
GiveUpKeeps ==
    /\ pc = "loop" /\ nread < 0
    /\ Return("failure")
    /\ UNCHANGED <<file, pos, vec, size, capacity, nread>>

GiveUp ==
    /\ pc = "loop" /\ nread < 0
    /\ vec' = NoVector
    /\ Return("failure")
    /\ UNCHANGED <<file, pos, size, capacity, nread>>

\* Fault: the NUL is not counted in the length.
TerminateShort ==
    /\ pc = "loop" /\ nread = 0
    /\ vec' = ft_vector_resize([vec EXCEPT !.data[size] = NUL], size)
    /\ Return("success")
    /\ UNCHANGED <<file, pos, size, capacity, nread>>

\* The NUL, then ft_vector_resize.  Its failure to shrink the block is ignored,
\* and leaves the block as it was with the new length in its header.
Terminate ==
    /\ pc = "loop" /\ nread = 0
    /\ LET ended == [vec EXCEPT !.data[size] = NUL]
       IN  vec' \in {ft_vector_resize(ended, size + 1), ResizeHeader(ended, size + 1)}
    /\ Return("success")
    /\ UNCHANGED <<file, pos, size, capacity, nread>>

\* read_file has returned and is not called again here.
Returned == pc = "done" /\ UNCHANGED vars

Read == ReadBytes \/ ReadNothing \/ ReadFails
Next == Create \/ Read \/ Loop \/ Grow \/ GiveUp \/ Terminate \/ Returned

\* A single thread that runs until it returns, on a descriptor that answers.
Spec == Init /\ [][Next]_vars /\ WF_vars(Next)

-----------------------------------------------------------------------------
TypeOK == /\ file \in Files
          /\ pos \in Nat
          /\ vec = NoVector \/ IsVector(vec)
          /\ size \in Nat \cup {-1}
          /\ capacity \in Nat
          /\ nread \in Nat \cup {-1}
          /\ pc \in {"create", "read", "loop", "done"}
          /\ ret \in {"none", "success", "failure"}

\* Whenever read() is called the block has room for every byte it was asked for,
\* and one more for the NUL: the local capacity never runs ahead of the header's
\* (ft_vector_reserve does nothing when it thinks there is room already).
InBounds == pc = "read" => /\ size + Request < vec.capacity
                           /\ Request > 0

\* What io_open sees: payload_len is ft_vector_size - 1.
payload == IF ret = "success" THEN [i \in 1 .. vec.len - 1 |-> vec.data[i - 1]] ELSE <<>>

\* On success the caller has the whole stream, byte for byte, and the NUL that
\* ends it lies inside the block at the index payload_len, whatever the sizes of
\* the reads were and even when the last one filled the buffer exactly.
WholeStream == ret = "success" => /\ payload = file
                          /\ vec.len <= vec.capacity
                          /\ vec.data[Len(file)] = NUL

\* The pointer the caller is left with is NULL exactly when read_file failed, so
\* io_free neither leaks the block nor frees it twice.
FreedOnFailure == pc = "done" => (vec = NoVector <=> ret = "failure")

-----------------------------------------------------------------------------
\* The strengthening that makes the properties inductive.

\* Between calls to read the block is as large as the local capacity says and
\* holds, at its beginning, what was delivered so far.
Reading ==
    /\ IsVector(vec)
    /\ vec.len = 0
    /\ vec.capacity = capacity
    /\ capacity >= 2
    /\ pos <= Len(file)
    /\ pos <= capacity - 1
    /\ \A i \in 0 .. pos - 1 : vec.data[i] = file[i + 1]
    /\ ret = "none"

CreateInv == pc = "create" => /\ pos = 0 /\ size = 0 /\ ret = "none"
                              /\ capacity = InitialCapacity
                              /\ vec = NoVector
ReadInv   == pc = "read" => Reading /\ size = pos /\ pos < capacity - 1
LoopInv   == pc = "loop" => /\ Reading
                            /\ nread >= 0 => size = pos
                            /\ nread = 0 => pos = Len(file) /\ pos < capacity - 1
DoneInv   == pc = "done" => \/ ret = "failure" /\ vec = NoVector
                            \/ /\ ret = "success"
                               /\ IsVector(vec)
                               /\ vec.len = Len(file) + 1
                               /\ vec.len <= vec.capacity
                               /\ vec.data[Len(file)] = NUL
                               /\ \A i \in 0 .. Len(file) - 1 : vec.data[i] = file[i + 1]

IInv == TypeOK /\ CreateInv /\ ReadInv /\ LoopInv /\ DoneInv

-----------------------------------------------------------------------------
\* read_file does what ReadAll promises, and it does return.
outcome == [none |-> "pending", success |-> "delivered", failure |-> "failed"][ret]
All == INSTANCE ReadAll
ImplementsReadAll == All!Spec
=============================================================================
