----------------------------- MODULE VectorOps ------------------------------
(***************************************************************************)
(* The growable array of libft/ft_vector.c for elements of any size, one   *)
(* operation after another: Vector has its functions as read_file uses     *)
(* them, for single bytes.                                                 *)
(*                                                                         *)
(* The memory behind the header is a function from offsets to bytes.  An   *)
(* element is the sequence of its bytes.  What callers must keep to, and   *)
(* the code crashes on or does not look at, is in the bounds of the        *)
(* quantifiers: positions in the vector, ranges that end in it, and a      *)
(* resize to no more than there is room for.                               *)
(***************************************************************************)
EXTENDS Integers, Sequences

CONSTANTS Elements(_),  \* the elements of a size
          Sizes,        \* the sizes that are tried
          Junk,         \* what fresh memory holds
          Capacities,   \* the initial capacities
          LenMax        \* bound: how long a vector gets

ASSUME ElementsAssumption ==
    \A size \in Sizes : \A e \in Elements(size) : e = [b \in 1 .. size |-> e[b]]
ASSUME SizesAssumption == Sizes \subseteq Nat \ {0} /\ Capacities \subseteq Nat /\ LenMax \in Nat

VARIABLES header,       \* len, capacity, type_size and dont_shrink, or none
          bytes,        \* the memory behind it
          contents      \* history: the elements that should be in it

vvars == <<header, bytes, contents>>

\* In contents, an element of which nothing is claimed.
NoClaim == <<>>

NoVector == [len |-> -1]
Live == header # NoVector
VectorInit == header = NoVector /\ bytes = <<>> /\ contents = <<>>

Fresh(count) == [k \in 0 .. count - 1 |-> Junk]
ft_vector_create ==
    /\ ~Live
    /\ \E type_size \in Sizes, initial_capacity \in Capacities :
          /\ header' = [len |-> 0, capacity |-> initial_capacity, type_size |-> type_size, dont_shrink |-> FALSE]
          /\ bytes' = Fresh(type_size * initial_capacity)
    /\ contents' = <<>>
ft_vector_free ==
    /\ Live
    /\ header' = NoVector /\ bytes' = <<>> /\ contents' = <<>>

-----------------------------------------------------------------------------
\* Memory m with a capacity of h's elements, and memory with count bytes moved: what
\* lies outside of the block is read as anything.
Sized(m, h) == [k \in 0 .. h.capacity * h.type_size - 1 |-> IF k \in DOMAIN m THEN m[k] ELSE Junk]
ft_memmove(m, to, from, count) ==
    [k \in DOMAIN m |-> IF to <= k /\ k < to + count
                        THEN IF k - to + from \in DOMAIN m THEN m[k - to + from] ELSE Junk
                        ELSE m[k]]
ft_memcpy(m, to, data) ==
    [k \in DOMAIN m |-> IF to <= k /\ k < to + Len(data) THEN data[k - to + 1] ELSE m[k]]

\* The elements of a range as their callers hand them over, one behind the other.
Packed(data, size) == [k \in 1 .. Len(data) * size |-> data[(k - 1) \div size + 1][((k - 1) % size) + 1]]

_has_over_capacity(h) == ~h.dont_shrink /\ h.len < h.capacity \div 4

\* The end of an operation that left h and m: the block shrinks to target elements when
\* it is much too large, unless realloc fails, and the vector is kept either way.
Shrink(h, m, target) ==
    \/ header' = h /\ bytes' = m
    \/ /\ _has_over_capacity(h)
       /\ header' = [h EXCEPT !.capacity = target]
       /\ bytes' = Sized(m, header')

-----------------------------------------------------------------------------
\* Fault: the elements behind the position are not moved.
InsertOver(m, h, pos, data) == ft_memcpy(m, pos * h.type_size, Packed(data, h.type_size))

Insert(m, h, pos, data) ==
    LET moved == IF pos < h.len
                 THEN ft_memmove(m, (pos + Len(data)) * h.type_size, pos * h.type_size, (h.len - pos) * h.type_size)
                 ELSE m
    IN  ft_memcpy(moved, pos * h.type_size, Packed(data, h.type_size))

\* push, push_range, insert and insert_range: the block doubles when it is too small, or
\* nothing happens because realloc fails.
ft_vector_insert_range ==
    /\ Live
    /\ \E pos \in 0 .. header.len, n \in 1 .. LenMax - header.len :
       \E data \in [1 .. n -> Elements(header.type_size)] :
          /\ LET grows == header.len + n > header.capacity
                 grown == IF grows THEN [header EXCEPT !.capacity = (header.len + n) * 2] ELSE header
             IN  \/ /\ header' = [grown EXCEPT !.len = header.len + n]
                    /\ bytes' = Insert(Sized(bytes, grown), header, pos, data)
                    /\ contents' = SubSeq(contents, 1, pos) \o data \o SubSeq(contents, pos + 1, Len(contents))
                 \/ grows /\ UNCHANGED <<header, bytes, contents>>

\* erase and erase_range: what is behind the range moves up, as many bytes of it as there
\* were elements behind the first.
Erase(pos, n) ==
    LET left == [header EXCEPT !.len = header.len - n]
        moved == IF pos + 1 # header.len
                 THEN ft_memmove(bytes, pos * header.type_size, (pos + n) * header.type_size, header.len - (pos + 1))
                 ELSE bytes
    IN  Shrink(left, moved, left.len * 2)
\* That is too few for larger elements, of which nothing is claimed then.
Disclaimed(tail, type_size) == IF type_size = 1 THEN tail ELSE [k \in DOMAIN tail |-> NoClaim]
ft_vector_erase_range ==
    /\ Live
    /\ \E pos \in 0 .. header.len - 1 : \E n \in 1 .. header.len - pos :
          /\ Erase(pos, n)
          /\ contents' = SubSeq(contents, 1, pos)
                          \o Disclaimed(SubSeq(contents, pos + n + 1, Len(contents)), header.type_size)

\* pop and pop_range erase from the last element on.
ft_vector_pop_range ==
    /\ Live
    /\ \E n \in 1 .. header.len :
          /\ Erase(header.len - 1, n)
          /\ contents' = SubSeq(contents, 1, Len(contents) - n)

ft_vector_reserve ==
    /\ Live
    /\ \E nbr_el \in Capacities :
          /\ header.capacity <= nbr_el
          /\ header' = [header EXCEPT !.capacity = nbr_el]
          /\ bytes' = Sized(bytes, header')
    /\ UNCHANGED contents

\* What a resize exposes is whatever lies there.
Element(m, h, k) == [b \in 1 .. h.type_size |-> m[(k - 1) * h.type_size + b - 1]]
ft_vector_resize ==
    /\ Live
    /\ \E size \in 0 .. header.capacity :
          /\ size <= LenMax
          /\ LET h == [header EXCEPT !.len = size]
             IN  /\ Shrink(h, bytes, size)
                 /\ contents' = [k \in 1 .. size |-> IF k <= header.len THEN contents[k] ELSE Element(bytes, h, k)]

ft_vector_set_shrink ==
    /\ Live
    /\ header' = [header EXCEPT !.dont_shrink = ~header.dont_shrink]
    /\ UNCHANGED <<bytes, contents>>

VectorNext == \/ ft_vector_create \/ ft_vector_free \/ ft_vector_insert_range \/ ft_vector_erase_range
              \/ ft_vector_pop_range \/ ft_vector_reserve \/ ft_vector_resize \/ ft_vector_set_shrink
VectorSpec == VectorInit /\ [][VectorNext]_vvars

-----------------------------------------------------------------------------
\* The vector holds the elements it was given and not those that were taken away, in
\* order, whatever moves its block and whichever allocation fails, and has room for them.
\* Nothing is claimed of an element of more than one byte from the moment when it lies
\* behind an erased range: erase_range moves too few bytes.  Everything is claimed of those
\* in front of the range, and of those that come in later.
SequenceKept ==
    Live => /\ header.len <= header.capacity
            /\ DOMAIN bytes = 0 .. header.capacity * header.type_size - 1
            /\ Len(contents) = header.len
            /\ \A k \in 1 .. header.len : contents[k] \in {Element(bytes, header, k), NoClaim}
=============================================================================
