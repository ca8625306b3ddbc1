------------------------------ MODULE MCLibft --------------------------------
(* Parts of libft for TLC, one of them in a behaviour: a vector with elements   *)
(* of one or two bytes, a tree of numbers of which some are too far apart for   *)
(* an int of four bits, two lists, a message in a small buffer, a sort of up to *)
(* five elements, or calls of ft_gnl for two descriptors.                       *)
EXTENDS VectorOps, Sprintf, Sort, Gnl, FiniteSets, TLC

CONSTANTS Node, NULL, Data, IntWidth, ListNode, Contents
VARIABLES subject,
          ptr, data, op, arg, tree_at, best, low, pc, result, members, mixed,
          head, content, list_next, used, held, list_op, cur, src, list, chosen, seq, how, leaked

Tree == INSTANCE SbTree WITH at <- tree_at
Linked == INSTANCE Lists WITH Node <- ListNode, next <- list_next, op <- list_op
treevars == <<ptr, data, op, arg, tree_at, best, low, pc, result, members, mixed>>
listvars == <<head, content, list_next, used, held, list_op, cur, src, list, chosen, seq, how, leaked>>

\* A part that is not the subject.
None == "none"
NoTree == /\ ptr = None /\ data = None /\ op = None /\ arg = None /\ tree_at = None
          /\ best = None /\ low = None /\ pc = None /\ result = None
          /\ members = {} /\ mixed = FALSE
NoLists == /\ head = None /\ content = None /\ list_next = None /\ used = {} /\ held = 0
           /\ list_op = None /\ cur = None /\ src = None /\ list = None /\ chosen = {}
           /\ seq = None /\ how = None /\ leaked = FALSE
NoLines == /\ stream = None /\ taken = None /\ static = None /\ fd = None /\ line = None
           /\ l_line = 0 /\ gnl = None /\ returned = None /\ joined = [d \in Descriptors |-> FALSE] /\ full = None
VectorAside == header = NoVector /\ bytes = <<>> /\ contents = <<>>
NoMessage == /\ pieces = <<>> /\ size = 1 /\ format = <<>> /\ args = <<>> /\ at = 1 /\ next = 1
             /\ buffer = <<>> /\ phase = None
NoSort == /\ by = None /\ given = <<>> /\ range = <<>> /\ rev = FALSE /\ sorted_len = 0 /\ i = 0
          /\ merges = <<>> /\ tmp1 = <<>> /\ tmp2 = <<>> /\ j = 0 /\ k = 0 /\ stage = None /\ ret = 0

LibftInit ==
    \/ subject = "vector" /\ VectorInit /\ NoTree /\ NoLists /\ NoLines /\ NoMessage /\ NoSort
    \/ subject = "tree" /\ Tree!Init /\ VectorAside /\ NoLists /\ NoLines /\ NoMessage /\ NoSort
    \/ subject = "lists" /\ Linked!ListsInit /\ VectorAside /\ NoTree /\ NoLines /\ NoMessage /\ NoSort
    \/ subject = "lines" /\ GnlInit /\ VectorAside /\ NoTree /\ NoLists /\ NoMessage /\ NoSort
    \/ subject = "message" /\ SprintfInit /\ VectorAside /\ NoTree /\ NoLists /\ NoLines /\ NoSort
    \/ /\ subject = "sort" /\ (InsertionInit \/ MergeInit)
       /\ VectorAside /\ NoTree /\ NoLists /\ NoLines /\ NoMessage
LibftNext ==
    /\ \/ subject = "vector" /\ VectorNext /\ UNCHANGED <<treevars, listvars, gvars, svars, sortvars>>
       \/ subject = "tree" /\ Tree!Next /\ UNCHANGED <<vvars, listvars, gvars, svars, sortvars>>
       \/ subject = "lists" /\ Linked!ListsNext /\ UNCHANGED <<vvars, treevars, gvars, svars, sortvars>>
       \/ subject = "lines" /\ GnlNext /\ UNCHANGED <<vvars, treevars, listvars, svars, sortvars>>
       \/ subject = "message" /\ SprintfNext /\ UNCHANGED <<vvars, treevars, listvars, gvars, sortvars>>
       \/ subject = "sort" /\ SortNext /\ UNCHANGED <<vvars, treevars, listvars, gvars, svars>>
    /\ UNCHANGED subject
LibftSpec == LibftInit /\ [][LibftNext]_<<subject, vvars, treevars, listvars, gvars, svars, sortvars>>

-----------------------------------------------------------------------------
MCElements(el_size) == {[b \in 1 .. el_size |-> value] : value \in 1 .. 2}

MCKeys == UNION {[1 .. n -> 1 .. 3] : n \in 0 .. 5}

MCStreams == {<<s, t>> : s \in UNION {[1 .. n -> {"a", "NL"}] : n \in {0, 1, 3, 5}},
                         t \in {<<"a">>, <<"a", "NL">>}}

\* A % stands alone only where no letter behind it makes it a way to print.
TextsOf == [c |-> <<<<"A">>, <<"B">>>>, d |-> <<<<"7">>, <<"-", "4", "2">>>>,
            lx |-> <<<<"f", "f">>, <<"0">>>>, s |-> <<<<>>, <<"a", "b", "c">>>>,
            p |-> <<<<"0", "x", "1", "2">>, <<"(", "n", "i", "l", ")">>>>]
Legible(pcs) == \A n \in 1 .. Len(pcs) - 1 : pcs[n] = "%" => pcs[n + 1] \in {"l", " "}
Printing(pcs) == SelectSeq(pcs, LAMBDA piece : piece \in Ways)
MCMessages ==
    UNION {{[pieces |-> pcs, size |-> room,
             args |-> [n \in DOMAIN Printing(pcs) |-> TextsOf[Printing(pcs)[n]][1 + ((n + variant) % 2)]]] :
                room \in 1 .. 7, variant \in 0 .. 1} :
           pcs \in {p \in UNION {[1 .. n -> DOMAIN TextsOf \cup {"percent", "%", "l", " "}] : n \in 0 .. 3} : Legible(p)}}

Symmetry == Permutations(ListNode)

\* Bound: little is claimed of a tree of data that an int cannot compare.
Claimed == mixed => Cardinality({n \in Node : data[n] # NULL}) <= 3

\* The tree of ft_sbtree.c is a set, as SbTree says it.
TreeIsSet == Tree!TreeIsSet
\* The lists are what their operations make of sequences, as Lists says it.
ListsAreSequences == subject = "lists" => Linked!ListsAreSequences
=============================================================================
