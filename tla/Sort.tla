-------------------------------- MODULE Sort ---------------------------------
(***************************************************************************)
(* The two sorts of libft: _ft_insertion_sort, and _ft_merge_sort, which   *)
(* merges in place with a copy of both halves and stops where there is no  *)
(* memory for one.                                                         *)
(*                                                                         *)
(* An element is its key, which cmp looks at, and the place it came from.  *)
(***************************************************************************)
EXTENDS Integers, Sequences

CONSTANT Keys   \* sequences of what cmp compares, to sort

ASSUME KeysAssumption == Keys \subseteq Seq(Int)

VARIABLES by,       \* which of the two sorts
          given,    \* the keys as they were
          range, rev,
          sorted_len,   \* of the insertion sort: the part that is sorted
          i,            \* the element that is inserted, or the next of the first half
          merges,       \* of the merge sort: what is left to merge, in order
          tmp1, tmp2, j, k,
          stage, ret

mergevars == <<merges, tmp1, tmp2, j, k>>
sortvars == <<by, given, range, rev, sorted_len, i, merges, tmp1, tmp2, j, k, stage, ret>>

el(keys) == [n \in 1 .. Len(keys) |-> [key |-> keys[n], from |-> n]]
cmp(a, b) == a.key - b.key
Before(a, b) == IF rev THEN cmp(a, b) * (-1) < 0 ELSE cmp(a, b) < 0

\* The merges of _ft_merge_sort for a number of elements, each behind those of its halves:
\* how much is in front of it, and how long the halves are.
Half(n) == (n \div 2) + (n % 2)
Behind(list, n) == [m \in DOMAIN list |-> [list[m] EXCEPT !.front = @ + n]]
Merges[n \in Nat] == IF n <= 1 THEN <<>>
                     ELSE Merges[Half(n)] \o Behind(Merges[n \div 2], Half(n))
                            \o <<[front |-> 0, len1 |-> Half(n), len2 |-> n \div 2]>>

Given == /\ given \in Keys /\ range = el(given) /\ rev \in BOOLEAN
         /\ tmp1 = <<>> /\ tmp2 = <<>> /\ i = 1 /\ j = 1 /\ k = 1 /\ sorted_len = 1 /\ ret = 0
InsertionInit == by = "insertion" /\ Given /\ merges = <<>> /\ stage = "outer"
MergeInit == by = "merge" /\ Given /\ merges = Merges[Len(range)] /\ stage = "divide"

-----------------------------------------------------------------------------
InsertNext == /\ stage = "outer" /\ sorted_len < Len(range)
              /\ i' = sorted_len + 1 /\ stage' = "inner"
              /\ UNCHANGED <<by, given, range, rev, sorted_len, mergevars, ret>>

\* The inner loop ends at the first element as well.
Inserted(at) == IF at = 1 THEN sorted_len' = sorted_len + 1 /\ stage' = "outer"
                          ELSE UNCHANGED <<sorted_len, stage>>
Swap == /\ stage = "inner" /\ Before(range[i], range[i - 1])
        /\ range' = [range EXCEPT ![i] = range[i - 1], ![i - 1] = range[i]]
        /\ i' = i - 1
        /\ Inserted(i - 1)
        /\ UNCHANGED <<by, given, rev, mergevars, ret>>
Stay == /\ stage = "inner" /\ ~Before(range[i], range[i - 1])
        /\ Inserted(1)
        /\ UNCHANGED <<by, given, range, rev, i, mergevars, ret>>
InsertionEnds == /\ stage = "outer" /\ sorted_len >= Len(range)
                 /\ stage' = "done"
                 /\ UNCHANGED <<by, given, range, rev, sorted_len, i, mergevars, ret>>
InsertionSort == InsertNext \/ Swap \/ Stay \/ InsertionEnds

-----------------------------------------------------------------------------
merge == Head(merges)
\* _ft_merge: the copies of both halves.
Copy == /\ stage = "divide" /\ merges # <<>>
        /\ tmp1' = SubSeq(range, merge.front + 1, merge.front + merge.len1)
        /\ tmp2' = SubSeq(range, merge.front + merge.len1 + 1, merge.front + merge.len1 + merge.len2)
        /\ i' = 1 /\ j' = 1 /\ k' = merge.front + 1 /\ stage' = "merge"
        /\ UNCHANGED <<by, given, range, rev, sorted_len, merges, ret>>
\* Either malloc() may fail; then every caller returns 1.
NoMemory == /\ stage = "divide" /\ merges # <<>>
            /\ ret' = 1 /\ stage' = "done"
            /\ UNCHANGED <<by, given, range, rev, sorted_len, i, mergevars>>

Both == stage = "merge" /\ i <= Len(tmp1) /\ j <= Len(tmp2)
FromFirst == /\ Both /\ Before(tmp1[i], tmp2[j])
             /\ range' = [range EXCEPT ![k] = tmp1[i]] /\ i' = i + 1 /\ k' = k + 1
             /\ UNCHANGED <<by, given, rev, sorted_len, merges, tmp1, tmp2, j, stage, ret>>
FromSecond == /\ Both /\ ~Before(tmp1[i], tmp2[j])
              /\ range' = [range EXCEPT ![k] = tmp2[j]] /\ j' = j + 1 /\ k' = k + 1
              /\ UNCHANGED <<by, given, rev, sorted_len, merges, tmp1, tmp2, i, stage, ret>>
\* Fault: what remains of the first half is not copied back.
RemainingSecond(n) == range[n]
\* What remains of one of the halves.
Remaining(n) == IF i <= Len(tmp1) THEN tmp1[i + n - k] ELSE tmp2[j + n - k]
Rest == /\ stage = "merge" /\ ~Both
        /\ range' = [n \in 1 .. Len(range) |->
                        IF n >= k /\ n <= merge.front + merge.len1 + merge.len2 THEN Remaining(n) ELSE range[n]]
        /\ merges' = Tail(merges) /\ tmp1' = <<>> /\ tmp2' = <<>> /\ i' = 1 /\ j' = 1 /\ k' = 1
        /\ stage' = "divide"
        /\ UNCHANGED <<by, given, rev, sorted_len, ret>>
MergeEnds == /\ stage = "divide" /\ merges = <<>>
             /\ stage' = "done"
             /\ UNCHANGED <<by, given, range, rev, sorted_len, i, mergevars, ret>>
MergeSort == Copy \/ NoMemory \/ FromFirst \/ FromSecond \/ Rest \/ MergeEnds

SortDone == stage = "done" /\ UNCHANGED sortvars
SortNext == InsertionSort \/ MergeSort \/ SortDone
InsertionSpec == InsertionInit /\ [][InsertionSort]_sortvars

-----------------------------------------------------------------------------
\* What was sorted has the same elements, in the order that was asked for; equal ones are
\* left in theirs by the insertion sort, and reversed by the merge sort.  Without memory the
\* elements are still all there.
InOrder(a, b) == \/ Before(a, b)
                 \/ a.key = b.key /\ IF by = "insertion" THEN a.from < b.from ELSE a.from > b.from
SortedWell ==
    stage = "done" =>
        /\ {range[n] : n \in 1 .. Len(range)} = {el(given)[n] : n \in 1 .. Len(given)}
        /\ ret = 0 => \A n \in 1 .. Len(range) - 1 : InOrder(range[n], range[n + 1])
=============================================================================
