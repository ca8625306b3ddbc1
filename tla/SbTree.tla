------------------------------- MODULE SbTree --------------------------------
(***************************************************************************)
(* The binary search tree of libft/ft_sbtree.c, one operation after        *)
(* another, with the comparison it takes when it is given none.            *)
(*                                                                         *)
(* The functions walk with the address of a pointer: at is such a place,   *)
(* the root's or the left or right of a node, and ptr says what the        *)
(* pointers hold.  A recursive call is a step that moves at; what a bound  *)
(* falls back on when the calls below it return NULL is in best.           *)
(***************************************************************************)
EXTENDS Integers, FiniteSets

CONSTANTS Node,     \* what calloc may return, as many as fit in memory
          NULL,
          Data,     \* the numbers that are stored, as pointers; 0 would be NULL
          IntWidth  \* how many bits of a difference of pointers an int keeps

Left(n) == <<n, "left">>
Right(n) == <<n, "right">>
Root == <<NULL, "root">>
Places == {Root} \cup (Node \X {"left", "right"})

VARIABLES ptr,      \* what each pointer holds
          data,     \* what each node holds, NULL when it is free
          op, arg,  \* the call that was made last
          at, best, \* where it is, and what it falls back on
          low,      \* the place of the smallest node on the right, in a removal
          pc,       \* "idle", "walk", "smallest", "greatest", "pop", "successor", "free", "answered"
          result,   \* what it returned: a status, a datum or NULL
          members,  \* history: what should be in the tree
          mixed     \* history: data were in the tree that an int cannot compare

vars == <<ptr, data, op, arg, at, best, low, pc, result, members, mixed>>

Init == /\ ptr = [place \in Places |-> NULL]
        /\ data = [n \in Node |-> NULL]
        /\ op = "none" /\ arg = NULL /\ at = Root /\ best = NULL /\ low = Root
        /\ pc = "idle" /\ result = NULL
        /\ members = {} /\ mixed = FALSE

\* default_cmp returns a difference of pointers as an int.
default_cmp(a, b) == ((a - b + 2 ^ (IntWidth - 1)) % (2 ^ IntWidth)) - 2 ^ (IntWidth - 1)
Comparable(set) == \A a, b \in set : a - b < 2 ^ (IntWidth - 1)

Here == ptr[at]
diff == default_cmp(data[Here], arg)

Return(value) == pc' = "answered" /\ result' = value

-----------------------------------------------------------------------------
Searches == {"insert", "remove", "find", "lower_bound", "upper_bound"}
Call == /\ pc = "idle"
        /\ op' \in Searches /\ arg' \in Data
        /\ at' = Root /\ best' = NULL /\ pc' = "walk"
        /\ mixed' = (mixed \/ (op' = "insert" /\ ~Comparable(members \cup {arg'})))
        /\ UNCHANGED <<ptr, data, low, result, members>>

\* The smallest and the greatest of a tree that is not empty.
CallEnd == /\ pc = "idle" /\ ptr[Root] # NULL
           /\ op' \in {"min", "max"} /\ arg' = NULL
           /\ at' = Root /\ best' = NULL
           /\ pc' = IF op' = "min" THEN "smallest" ELSE "greatest"
           /\ UNCHANGED <<ptr, data, low, result, members, mixed>>

\* What a bound has met on its way that is on its side of arg.
Bound == \/ op = "lower_bound" /\ diff < 0
         \/ op = "upper_bound" /\ diff > 0
Descend == /\ pc = "walk" /\ Here # NULL /\ diff # 0
           /\ at' = IF diff < 0 THEN Right(Here) ELSE Left(Here)
           /\ best' = IF Bound THEN Here ELSE best
           /\ UNCHANGED <<ptr, data, op, arg, low, pc, result, members, mixed>>

\* The node that calloc gives.  Bound: the one named like the datum while it is free, or else
\* the first, since which of them it is makes no difference to the tree.
calloc(datum) == LET free == {n \in Node : data[n] = NULL}
                 IN  IF datum \in free THEN {datum} ELSE {n \in free : \A m \in free : n <= m}
\* calloc fails, or gives a node with nothing below it.
InsertNode == /\ pc = "walk" /\ op = "insert" /\ Here = NULL
              /\ \/ \E n \in calloc(arg) : /\ data' = [data EXCEPT ![n] = arg]
                                           /\ ptr' = [ptr EXCEPT ![at] = n]
                                           /\ Return(0)
                 \/ UNCHANGED <<ptr, data>> /\ Return(-1)
              /\ UNCHANGED <<op, arg, at, best, low, members, mixed>>
Doubloon == /\ pc = "walk" /\ op = "insert" /\ Here # NULL /\ diff = 0
            /\ Return(1)
            /\ UNCHANGED <<ptr, data, op, arg, at, best, low, members, mixed>>

-----------------------------------------------------------------------------
Datum(n) == IF n = NULL THEN NULL ELSE data[n]

Find == /\ pc = "walk" /\ op = "find"
        /\ Here # NULL => diff = 0
        /\ Return(Datum(Here))
        /\ UNCHANGED <<ptr, data, op, arg, at, best, low, members, mixed>>

\* Without arg in the tree the walk has met the bound on its way.
BoundMet == /\ pc = "walk" /\ op \in {"lower_bound", "upper_bound"} /\ Here = NULL
            /\ Return(Datum(best))
            /\ UNCHANGED <<ptr, data, op, arg, at, best, low, members, mixed>>
\* At arg itself both functions take the greatest node of the branch beside it.
Branch == IF op = "lower_bound" THEN Left(Here) ELSE Right(Here)
BoundBeside == /\ pc = "walk" /\ op \in {"lower_bound", "upper_bound"} /\ Here # NULL /\ diff = 0
               /\ IF ptr[Branch] = NULL THEN Return(Datum(best)) /\ UNCHANGED at
                                        ELSE at' = Branch /\ pc' = "greatest" /\ UNCHANGED result
               /\ UNCHANGED <<ptr, data, op, arg, best, low, members, mixed>>

max_node == /\ pc = "greatest"
            /\ IF ptr[Right(Here)] # NULL THEN at' = Right(Here) /\ UNCHANGED <<pc, result>>
                                          ELSE Return(data[Here]) /\ UNCHANGED at
            /\ UNCHANGED <<ptr, data, op, arg, best, low, members, mixed>>
min_node == /\ pc = "smallest"
            /\ IF ptr[Left(Here)] # NULL THEN at' = Left(Here) /\ UNCHANGED <<pc, result>>
                                         ELSE Return(data[Here]) /\ UNCHANGED at
            /\ UNCHANGED <<ptr, data, op, arg, best, low, members, mixed>>

-----------------------------------------------------------------------------
NotFound == /\ pc = "walk" /\ op = "remove" /\ Here = NULL
            /\ Return(1)
            /\ UNCHANGED <<ptr, data, op, arg, at, best, low, members, mixed>>
\* best keeps the node that pop_node returns.
Remove == /\ pc = "walk" /\ op = "remove" /\ Here # NULL /\ diff = 0
          /\ best' = Here /\ pc' = "pop"
          /\ UNCHANGED <<ptr, data, op, arg, at, low, result, members, mixed>>

HasBoth(n) == ptr[Left(n)] # NULL /\ ptr[Right(n)] # NULL
\* A node with one branch at most is replaced by it.
PopLink == /\ pc = "pop" /\ ~HasBoth(Here)
           /\ ptr' = [ptr EXCEPT ![at] = IF ptr[Left(Here)] # NULL THEN ptr[Left(Here)] ELSE ptr[Right(Here)]]
           /\ pc' = "free"
           /\ UNCHANGED <<data, op, arg, at, best, low, result, members, mixed>>
\* Any other changes places with the smallest node on its right, and is popped there.
PopBoth == /\ pc = "pop" /\ HasBoth(Here)
           /\ low' = Right(Here) /\ pc' = "successor"
           /\ UNCHANGED <<ptr, data, op, arg, at, best, result, members, mixed>>
min_ptr == /\ pc = "successor" /\ ptr[Left(ptr[low])] # NULL
           /\ low' = Left(ptr[low])
           /\ UNCHANGED <<ptr, data, op, arg, at, best, pc, result, members, mixed>>
Successor == pc = "successor" /\ ptr[Left(ptr[low])] = NULL

PopAdjacent ==
    /\ Successor /\ low = Right(Here)
    /\ LET n == Here u == ptr[low]
       IN  /\ ptr' = [ptr EXCEPT ![Left(n)] = ptr[Left(u)], ![Left(u)] = ptr[Left(n)],
                                 ![Right(n)] = ptr[Right(u)], ![Right(u)] = n, ![at] = u]
           /\ at' = Right(u)
    /\ pc' = "pop"
    /\ UNCHANGED <<data, op, arg, best, low, result, members, mixed>>
\* Fault: the node that is moved up forgets the branch below it.
PopDistantLoses ==
    /\ Successor /\ low # Right(Here)
    /\ LET n == Here u == ptr[low]
       IN  ptr' = [ptr EXCEPT ![Left(u)] = ptr[Left(n)], ![Left(n)] = ptr[Left(u)],
                              ![Right(u)] = ptr[Right(n)], ![Right(n)] = NULL,
                              ![at] = u, ![low] = n]
    /\ at' = low /\ pc' = "pop"
    /\ UNCHANGED <<data, op, arg, best, low, result, members, mixed>>

PopDistant ==
    /\ Successor /\ low # Right(Here)
    /\ LET n == Here u == ptr[low]
       IN  ptr' = [ptr EXCEPT ![Left(u)] = ptr[Left(n)], ![Left(n)] = ptr[Left(u)],
                              ![Right(u)] = ptr[Right(n)], ![Right(n)] = ptr[Right(u)],
                              ![at] = u, ![low] = n]
    /\ at' = low /\ pc' = "pop"
    /\ UNCHANGED <<data, op, arg, best, low, result, members, mixed>>

Free == /\ pc = "free"
        /\ data' = [data EXCEPT ![best] = NULL]
        /\ ptr' = [ptr EXCEPT ![Left(best)] = NULL, ![Right(best)] = NULL]
        /\ Return(0)
        /\ UNCHANGED <<op, arg, at, best, low, members, mixed>>

\* The caller has its answer.
Answered == /\ pc = "answered" /\ pc' = "idle"
            /\ members' = CASE op = "insert" /\ result = 0 -> members \cup {arg}
                            [] op = "remove" /\ result = 0 -> members \ {arg}
                            [] OTHER -> members
            /\ mixed' = (mixed /\ ptr[Root] # NULL)
            /\ op' = "none" /\ arg' = NULL /\ result' = NULL
            /\ at' = Root /\ low' = Root /\ best' = NULL
            /\ UNCHANGED <<ptr, data>>

Next == \/ Call \/ CallEnd \/ Descend \/ InsertNode \/ Doubloon
        \/ Find \/ BoundMet \/ BoundBeside \/ max_node \/ min_node
        \/ NotFound \/ Remove \/ PopLink \/ PopBoth \/ min_ptr \/ PopAdjacent \/ PopDistant \/ Free
        \/ Answered
Spec == Init /\ [][Next]_vars

-----------------------------------------------------------------------------
\* The nodes below a place, down to a depth that no tree exceeds.
Under[depth \in 0 .. Cardinality(Node), place \in Places] ==
    IF depth = 0 \/ ptr[place] = NULL THEN {}
    ELSE {ptr[place]} \cup Under[depth - 1, Left(ptr[place])] \cup Under[depth - 1, Right(ptr[place])]
Below(place) == Under[Cardinality(Node), place]
Used == {n \in Node : data[n] # NULL}

\* Every node in use is at one place of the tree, and no free one is in it.
WellFormed == /\ Below(Root) = Used
              /\ \A n \in Node : Cardinality({place \in Places : ptr[place] = n}) = IF n \in Used THEN 1 ELSE 0
Sorted == \A n \in Used : /\ \A m \in Below(Left(n)) : data[m] < data[n]
                          /\ \A m \in Below(Right(n)) : data[m] > data[n]

Less == {m \in members : m < arg}
Greater == {m \in members : m > arg}
IsLeast(value, set) == IF set = {} THEN value = NULL ELSE value \in set /\ \A m \in set : value <= m
IsGreatest(value, set) == IF set = {} THEN value = NULL ELSE value \in set /\ \A m \in set : m <= value
\* The upper bound should be the smallest of what is greater (ft_sbtree.c:188); for a datum
\* of the tree itself it is the greatest of the branch on its right (ft_sbtree.c:204).
Disputed == arg \in members /\ Cardinality(Greater) > 1
Answer == CASE op = "insert" -> result = -1 \/ (result = 1 <=> arg \in members)
            [] op = "remove" -> result = 0 <=> arg \in members
            [] op = "find" -> result = IF arg \in members THEN arg ELSE NULL
            [] op = "lower_bound" -> IsGreatest(result, Less)
            [] op = "upper_bound" -> Disputed \/ IsLeast(result, Greater)
            [] op = "min" -> IsLeast(result, members)
            [] op = "max" -> IsGreatest(result, members)

\* The tree is the set of what was inserted and not removed: between two calls its nodes
\* are those that are allocated, in order, and every call answers for that set.  Nothing is
\* claimed of the upper bound of a member with two greater ones, where code and comment
\* differ, nor of order and answers with data so far apart that an int cannot compare them,
\* but that no node is lost.
TreeIsSet ==
    /\ pc = "idle" => /\ WellFormed
                      /\ ~mixed => Sorted /\ {data[n] : n \in Used} = members
    /\ pc = "answered" /\ ~mixed /\ Comparable(members \cup ({arg} \ {NULL})) => Answer
=============================================================================
