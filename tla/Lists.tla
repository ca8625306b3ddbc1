-------------------------------- MODULE Lists --------------------------------
(***************************************************************************)
(* The linked lists of libft: two lists over one pool of nodes, and every  *)
(* operation that changes one, as the assignments to pointers it makes.    *)
(* Calls of the caller's own functions see the content of a node: comp     *)
(* subtracts two, f of ft_lstdelif is a set of contents, and f of          *)
(* ft_lstmap makes a new content or has no memory for it.                  *)
(***************************************************************************)
EXTENDS Integers, Sequences, FiniteSets, SequencesExt

CONSTANTS Node, NULL,
          Contents  \* numbers

NoContent == 0      \* the pointer NULL
Names == {"one", "two"}

VARIABLES head, content, next,
          used,     \* the nodes that are allocated
          held,     \* how many contents are
          op,       \* the operation that runs: "none", "delif" or "map"
          cur, src, \* where it is
          list, chosen,     \* of ft_lstdelif
          seq,      \* history: what each list should be,
          how,      \* whether only ft_lstinsert_comp made it, and in which order,
          leaked    \* and whether ft_lstmap has had no memory for a node

lvars == <<head, content, next, used, held, op, cur, src, list, chosen, seq, how, leaked>>
running == <<op, cur, src, list, chosen>>

ListsInit == /\ head = [l \in Names |-> NULL]
             /\ content = [n \in Node |-> NoContent] /\ next = [n \in Node |-> NULL]
             /\ used = {} /\ held = 0
             /\ op = "none" /\ cur = NULL /\ src = NULL /\ list = "one" /\ chosen = {}
             /\ seq = [l \in Names |-> <<>>] /\ how = [l \in Names |-> "empty"] /\ leaked = FALSE

\* The nodes from one on, in order; one more than there are if they go in a circle.
Nodes(first) ==
    LET nth[k \in 1 .. Cardinality(Node) + 2] ==
            IF k = 1 THEN first ELSE IF nth[k - 1] = NULL THEN NULL ELSE next[nth[k - 1]]
    IN  SelectSeq([k \in 1 .. Cardinality(Node) + 1 |-> nth[k]], LAMBDA n : n # NULL)
Chain(l) == Nodes(head[l])
ft_lstsize(l) == Len(Chain(l))
ft_lstlast(first) == Last(Nodes(first))
ft_lstat(l, index) == Chain(l)[index + 1]
HeldBy(nodes) == Cardinality({n \in nodes : content[n] # NoContent})

\* ft_lstnew: a node with a content that its caller has allocated.
ft_lstnew(n, c) ==
    /\ n \in Node \ used
    /\ used' = used \cup {n} /\ content' = [content EXCEPT ![n] = c]
    /\ held' = IF c = NoContent THEN held ELSE held + 1
\* ft_lstdelone of some nodes: what they hold is no longer looked at.
ft_lstdelone(nodes) ==
    /\ used' = used \ nodes /\ content' = [n \in Node |-> IF n \in nodes THEN NoContent ELSE content[n]]
    /\ held' = held - HeldBy(nodes)
Pointers(changed) == next' = changed @@ next
Forget(nodes, changed) == next' = [n \in Node |-> IF n \in nodes THEN NULL ELSE (changed @@ next)[n]]

Keeps == seq' = seq /\ UNCHANGED how
Becomes(l, sequence) == /\ seq' = [seq EXCEPT ![l] = sequence]
                        /\ how' = [how EXCEPT ![l] = IF sequence = <<>> THEN "empty" ELSE "any"]
Idle == op = "none" /\ UNCHANGED <<running, leaked>>

-----------------------------------------------------------------------------
ft_lstadd_front(l, n) == Pointers(n :> head[l]) /\ head' = [head EXCEPT ![l] = n]
AddFront(l, n, c) ==
    /\ Idle /\ ft_lstnew(n, c)
    /\ ft_lstadd_front(l, n)
    /\ Becomes(l, <<c>> \o seq[l])

\* ft_lst_str_append as well, when it has memory for the copy and the node.
ft_lstadd_back(l, n, c) ==
    /\ Idle /\ ft_lstnew(n, c)
    /\ IF head[l] = NULL
       THEN head' = [head EXCEPT ![l] = n] /\ Pointers(n :> NULL)
       ELSE Pointers(ft_lstlast(head[l]) :> n @@ n :> NULL) /\ UNCHANGED head
    /\ Becomes(l, Append(seq[l], c))

ft_lstinsert(l, index, n, c) ==
    /\ Idle /\ index < ft_lstsize(l) /\ ft_lstnew(n, c)
    /\ Pointers(n :> next[ft_lstat(l, index)] @@ ft_lstat(l, index) :> n)
    /\ Becomes(l, InsertAt(seq[l], index + 2, c))
    /\ UNCHANGED head

\* Fault: what was behind the node is not behind the list that comes in between.
MergePointersCut(node, from) == Pointers(node :> from)
\* Of ft_lstmerge, where there is something to insert.
MergePointers(node, from) == Pointers(ft_lstlast(from) :> next[node] @@ node :> from)
ft_lstmerge(l, index, other) ==
    /\ Idle /\ index < ft_lstsize(l) /\ other # l
    /\ head[other] # NULL
    /\ MergePointers(ft_lstat(l, index), head[other])
    /\ head' = [head EXCEPT ![other] = NULL]
    /\ seq' = [seq EXCEPT ![other] = <<>>,
                          ![l] = SubSeq(seq[l], 1, index + 1) \o seq[other] \o SubSeq(seq[l], index + 2, Len(seq[l]))]
    /\ how' = [how EXCEPT ![other] = "empty", ![l] = "any"]
    /\ UNCHANGED <<used, content, held>>

\* The place of a content: in front of the first that it is not behind.
NotBehind(c, d, reverse) == (c - d) * (IF reverse THEN -1 ELSE 1) <= 0
Place(nodes, c, reverse) ==
    LET places == {k \in DOMAIN nodes : NotBehind(c, content[nodes[k]], reverse)}
    IN  IF places = {} THEN Len(nodes) + 1 ELSE CHOOSE k \in places : \A m \in places : k <= m
Order(reverse) == IF reverse THEN "down" ELSE "up"
ft_lstinsert_comp(l, n, c, reverse) ==
    /\ Idle /\ \A m \in DOMAIN seq[l] : seq[l][m] # NoContent
    /\ ft_lstnew(n, c)
    /\ LET k == Place(Chain(l), c, reverse)
       IN  /\ IF k = 1 THEN ft_lstadd_front(l, n)
              ELSE /\ Pointers(n :> next[Chain(l)[k - 1]] @@ Chain(l)[k - 1] :> n)
                   /\ UNCHANGED head
           /\ seq' = [seq EXCEPT ![l] = InsertAt(@, k, c)]
    /\ how' = [how EXCEPT ![l] = IF @ \in {"empty", Order(reverse)} THEN Order(reverse) ELSE "any"]

ft_lstpop_front(l) ==
    /\ Idle /\ head[l] # NULL
    /\ head' = [head EXCEPT ![l] = next[head[l]]]
    /\ ft_lstdelone({head[l]}) /\ Forget({head[l]}, <<>>)
    /\ seq' = [seq EXCEPT ![l] = Tail(@)] /\ how' = [how EXCEPT ![l] = IF Len(seq[l]) = 1 THEN "empty" ELSE @]

ClearAll(l) == ft_lstdelone(ToSet(Chain(l))) /\ Forget(ToSet(Chain(l)), <<>>)
\* ft_lst_str_append and ft_strstolst as well, when they have no memory for a copy or a node.
ft_lstclear(l) ==
    /\ Idle /\ head[l] # NULL
    /\ ClearAll(l) /\ head' = [head EXCEPT ![l] = NULL]
    /\ Becomes(l, <<>>)

-----------------------------------------------------------------------------
\* What ft_lstdelif promises to leave, "any element of the list where f(el) is 1" removed
\* (libft/ft_lstdelif.c:15).  When it removes the head it does not look at the node behind it:
\* with both of them chosen nothing is promised here of what is left.
Kept(s, set) == SelectSeq(s, LAMBDA c : c \notin set)
Disputed(s, set) == Len(s) > 1 /\ {s[1], s[2]} \subseteq set
ContentsOf(l) == [k \in DOMAIN Chain(l) |-> content[Chain(l)[k]]]
ft_lstdelif(l, set) ==
    /\ op = "none" /\ head[l] # NULL
    /\ op' = "delif" /\ list' = l /\ chosen' = set
    /\ IF content[head[l]] \in set
       THEN /\ ft_lstdelone({head[l]}) /\ Forget({head[l]}, <<>>)
            /\ head' = [head EXCEPT ![l] = next[head[l]]] /\ cur' = next[head[l]]
       ELSE cur' = head[l] /\ UNCHANGED <<head, used, content, held, next>>
    /\ UNCHANGED <<src, seq, how, leaked>>
More == cur # NULL /\ next[cur] # NULL
DelNext ==
    /\ op = "delif" /\ More
    /\ IF content[next[cur]] \in chosen
       THEN /\ ft_lstdelone({next[cur]})
            /\ Forget({next[cur]}, cur :> next[next[cur]])
            /\ UNCHANGED cur
       ELSE cur' = next[cur] /\ UNCHANGED <<used, content, held, next>>
    /\ UNCHANGED <<head, op, src, list, chosen, seq, how, leaked>>
DelEnds ==
    /\ op = "delif" /\ ~More
    /\ op' = "none" /\ cur' = NULL /\ chosen' = {}
    /\ LET left == IF Disputed(seq[list], chosen) THEN ContentsOf(list) ELSE Kept(seq[list], chosen)
       IN  /\ seq' = [seq EXCEPT ![list] = left]
           /\ how' = [how EXCEPT ![list] = IF left = <<>> THEN "empty"
                                           ELSE IF Disputed(seq[list], chosen) THEN "any" ELSE @]
    /\ UNCHANGED <<head, content, next, used, held, src, list, leaked>>

\* ft_lstmap of the first list, into the second; what f makes of a content is that itself.
Results(c) == {c, NoContent}
MapFails == op' = "none" /\ cur' = NULL /\ src' = NULL
ft_lstmap(n, c) ==
    /\ op = "none" /\ head["one"] # NULL /\ head["two"] = NULL
    /\ c \in Results(content[head["one"]]) \ {NoContent}
    /\ ft_lstnew(n, c) /\ Pointers(n :> NULL)
    /\ head' = [head EXCEPT !["two"] = n]
    /\ op' = "map" /\ cur' = n /\ src' = next[head["one"]]
    /\ UNCHANGED <<list, chosen, seq, how, leaked>>
MapNext(n, c) ==
    /\ op = "map" /\ src # NULL /\ c \in Results(content[src]) /\ content[cur] # NoContent
    /\ ft_lstnew(n, c) /\ Pointers(cur :> n @@ n :> NULL)
    /\ cur' = n /\ src' = next[src]
    /\ UNCHANGED <<head, op, list, chosen, seq, how, leaked>>
\* The content before is missing, which is noticed only now; the new one is freed as well.
MapStops ==
    /\ op = "map" /\ src # NULL /\ content[cur] = NoContent
    /\ ClearAll("two") /\ head' = [head EXCEPT !["two"] = NULL]
    /\ MapFails
    /\ UNCHANGED <<list, chosen, seq, how, leaked>>
\* No memory for a node: a content that f has made for it is lost.
\* Bound: one content is.
Lost(c) == (c # NoContent => ~leaked) /\ leaked' = (leaked \/ c # NoContent)
HeldAnd(nodes, c) == held - HeldBy(nodes) + (IF c = NoContent THEN 0 ELSE 1)
MapNoMemory ==
    /\ op = "map" /\ src # NULL
    /\ \E c \in Results(content[src]) : Lost(c) /\ held' = HeldAnd(ToSet(Chain("two")), c)
    /\ used' = used \ ToSet(Chain("two"))
    /\ content' = [n \in Node |-> IF n \in ToSet(Chain("two")) THEN NoContent ELSE content[n]]
    /\ Forget(ToSet(Chain("two")), <<>>) /\ head' = [head EXCEPT !["two"] = NULL]
    /\ MapFails
    /\ UNCHANGED <<list, chosen, seq, how>>
MapNoHead ==
    /\ op = "none" /\ head["one"] # NULL /\ head["two"] = NULL
    /\ \E c \in Results(content[head["one"]]) : Lost(c) /\ held' = HeldAnd({}, c)
    /\ UNCHANGED <<head, content, next, used, running, seq, how>>
MapEnds ==
    /\ op = "map" /\ src = NULL
    /\ MapFails
    /\ seq' = [seq EXCEPT !["two"] = [k \in DOMAIN seq["one"] |->
                   IF k = Len(seq["one"]) THEN content[cur] ELSE seq["one"][k]]]
    /\ how' = [how EXCEPT !["two"] = "any"]
    /\ UNCHANGED <<head, content, next, used, held, list, chosen, leaked>>

Addition == \E l \in Names, n \in Node, c \in Contents :
          \/ AddFront(l, n, c)
          \/ ft_lstadd_back(l, n, c)
          \/ \E index \in 0 .. Cardinality(Node) : ft_lstinsert(l, index, n, c)
          \/ \E reverse \in BOOLEAN : ft_lstinsert_comp(l, n, c, reverse)
Removal == \E l \in Names :
             \/ ft_lstpop_front(l)
             \/ ft_lstclear(l)
             \/ \E set \in SUBSET Contents : ft_lstdelif(l, set)
Merge == \E l, other \in Names, index \in 0 .. Cardinality(Node) : ft_lstmerge(l, index, other)
Map == \/ \E n \in Node, c \in Contents \cup {NoContent} : ft_lstmap(n, c) \/ MapNext(n, c)
       \/ MapStops \/ MapNoHead \/ MapNoMemory \/ MapEnds
ListsNext == Addition \/ Removal \/ Merge \/ DelNext \/ DelEnds \/ Map
ListsSpec == ListsInit /\ [][ListsNext]_lvars

-----------------------------------------------------------------------------
Sorted(s, reverse) == \A k \in 1 .. Len(s) - 1 : NotBehind(s[k], s[k + 1], reverse)

\* The lists are the sequences that the operations make of them, share no node, and every
\* node and content that is allocated is in one, unless ft_lstmap had no memory for a node;
\* a list that ft_lstinsert_comp alone has made is in order.  A list that ft_lstmap has made
\* lacks no content but perhaps its last.  What ft_lstdelif leaves of a list is claimed where
\* not both of its first two elements are to go.
ListsAreSequences ==
    /\ \A l \in Names : op = "none" => ContentsOf(l) = seq[l]
    /\ \A l \in Names : Cardinality(ToSet(Chain(l))) = Len(Chain(l))
    /\ ToSet(Chain("one")) \cap ToSet(Chain("two")) = {}
    /\ used = ToSet(Chain("one")) \cup ToSet(Chain("two"))
    /\ ~leaked => held = HeldBy(used)
    /\ \A l \in Names : /\ how[l] = "up" => Sorted(seq[l], FALSE)
                        /\ how[l] = "down" => Sorted(seq[l], TRUE)
=============================================================================
