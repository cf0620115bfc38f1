------------------------------ MODULE Ordered ------------------------------
(***************************************************************************)
(* What a list comprehension keeps of a list, in the list's order.         *)
(***************************************************************************)
EXTENDS Integers, FiniteSets, Sequences

\* The places in S from the smallest on.
Ascending(S) ==
    {order \in [1..Cardinality(S) -> S] :
        \A j, k \in 1..Cardinality(S) : j < k => order[j] < order[k]}

\* The elements of list at the places in S.
InOrder(list, S) ==
    LET order == CHOOSE o \in Ascending(S) : TRUE
    IN  [k \in 1..Cardinality(S) |-> list[order[k]]]
=============================================================================
