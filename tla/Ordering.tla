------------------------------ MODULE Ordering ------------------------------
(***************************************************************************)
(* Sorting by keys, as sorted(..., key=...) does it.                       *)
(***************************************************************************)
EXTENDS Integers, Sequences, FiniteSets

\* Sequences a and b of numbers, of one length, in lexicographic order.
Precedes(a, b) == \E k \in DOMAIN a : a[k] < b[k] /\ \A j \in 1..(k - 1) : a[j] = b[j]

\* The members of the set S in the order of their keys, no two of which are the
\* same: where the sort of a list has to be stable, a key ends with the position.
SortedBy(S, key) ==
    LET rank == [i \in S |-> Cardinality({j \in S : Precedes(key[j], key[i])})]
    IN  [k \in 1..Cardinality(S) |-> CHOOSE i \in S : rank[i] = k - 1]

\* Numbers from the least on: the positions in a list of what a filter leaves.
Ascending(S) == SortedBy(S, [i \in S |-> <<i>>])

=============================================================================
