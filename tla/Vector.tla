------------------------------- MODULE Vector -------------------------------
(***************************************************************************)
(* The growable array of libft/ft_vector.c, for elements of one byte       *)
(* (type_size = 1, the only size read_file allocates).                     *)
(*                                                                         *)
(* A vector is its header (len, capacity, dont_shrink) and the memory that *)
(* follows it: data is a function on 0 .. capacity - 1, so an index        *)
(* outside that domain is an access outside the allocated block.           *)
(* The operations are pure: each takes a vector and gives the vector the   *)
(* call leaves behind.  Whether the allocator answers is the caller's      *)
(* choice (malloc and realloc may fail at any call).                       *)
(***************************************************************************)
EXTENDS Integers

CONSTANTS Byte,     \* what a cell may hold once written, NUL included
          Junk      \* what a cell of fresh memory holds before it is written

Cell == Byte \cup {Junk}

\* A vector of any capacity: its memory is as long as its header says.
IsVector(v) ==
    /\ v \in [len : Nat, capacity : Nat, dont_shrink : BOOLEAN, data : {v.data}]
    /\ v.data \in [0 .. v.capacity - 1 -> Cell]

\* The NULL pointer, told from every vector by a capacity none of them has.
NoVector == [capacity |-> -1]

\* A freshly created vector: nothing in it, its memory not initialised.
ft_vector_create(initial_capacity) ==
    [len |-> 0, capacity |-> initial_capacity, dont_shrink |-> FALSE,
     data |-> [i \in 0 .. initial_capacity - 1 |-> Junk]]

\* realloc keeps the bytes both blocks have room for; the rest is new memory.
\* The header travels with the block, only its capacity is rewritten.
_vector_realloc(v, target_capacity) ==
    [v EXCEPT !.capacity = target_capacity,
              !.data = [i \in 0 .. target_capacity - 1 |->
                          IF i < v.capacity THEN v.data[i] ELSE Junk]]

_has_over_capacity(v) == ~v.dont_shrink /\ v.len < v.capacity \div 4

\* The two calls of read_file that may move the block.  They say whether they
\* ask the allocator at all; when they do not they cannot fail.
ReserveAllocates(v, nbr_el) == ~(v.capacity > nbr_el)
ft_vector_reserve(v, nbr_el) ==
    IF ReserveAllocates(v, nbr_el) THEN _vector_realloc(v, nbr_el) ELSE v

ResizeHeader(v, size) == [v EXCEPT !.len = size]
ResizeAllocates(v, size) == _has_over_capacity(ResizeHeader(v, size))
ft_vector_resize(v, size) ==
    IF ResizeAllocates(v, size)
    THEN _vector_realloc(ResizeHeader(v, size), size)
    ELSE ResizeHeader(v, size)
=============================================================================
