------------------------------ MODULE WaitList ------------------------------
(* The doubly linked lists of include/onyx/list.h, as sequences whose       *)
(* elements are distinct: a node is on at most one list, once.              *)
EXTENDS Integers, Sequences

Members(s) == {s[i] : i \in DOMAIN s}

Distinct(s) == \A i, j \in DOMAIN s : s[i] = s[j] => i = j

list_add_tail(s, t) == Append(s, t)

\* Where node t is on the list.
Position(s, t) == CHOOSE i \in DOMAIN s : s[i] = t

\* list_remove: the neighbours of node t are linked to each other.
list_remove(s, t) ==
    [i \in 1 .. (Len(s) - 1) |-> IF i < Position(s, t) THEN s[i] ELSE s[i + 1]]
=============================================================================
