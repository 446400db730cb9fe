------------------------------ MODULE Orderings ------------------------------
(***************************************************************************)
(* Lists in a given order: the members of a finite set from the first to   *)
(* the last, and the entries of a list at some positions.  An order is a   *)
(* set of pairs.  A member's place is the number of members up to it:      *)
(* stated through Cardinality rather than by recursion over a list, places *)
(* can be reasoned about with the theorems on finite cardinalities.        *)
(***************************************************************************)
EXTENDS Integers, FiniteSets

\* R puts any two members of S in one order.
LinearOn(R, S) ==
    /\ \A i \in S : <<i, i>> \in R
    /\ \A i, j \in S : <<i, j>> \in R \/ <<j, i>> \in R
    /\ \A i, j \in S : <<i, j>> \in R /\ <<j, i>> \in R => i = j
    /\ \A i, j, k \in S : <<i, j>> \in R /\ <<j, k>> \in R => <<i, k>> \in R

RankIn(S, R, i) == Cardinality({j \in S : <<j, i>> \in R})
Nth(S, R, k) == CHOOSE i \in S : RankIn(S, R, i) = k

\* The members of S in the order R.
Arranged(S, R) == [k \in 1..Cardinality(S) |-> Nth(S, R, k)]

\* Numbers from the smallest on.
Ascending == {p \in Nat \X Nat : p[1] <= p[2]}

\* The entries of a list at the positions in a set, in the order they have in the list.
Selected(list, positions) ==
    [k \in 1..Cardinality(positions) |-> list[Nth(positions, Ascending, k)]]
=============================================================================
