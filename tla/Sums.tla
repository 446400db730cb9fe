-------------------------------- MODULE Sums --------------------------------
(***************************************************************************)
(* Totals of satoshi-valued functions.                                     *)
(*                                                                         *)
(* A total is a count of satoshis: every satoshi of every entry is one     *)
(* element of Units(f), and Total(f) is the number of those elements.      *)
(* Stated through Cardinality rather than through a recursive fold, a      *)
(* total can be reasoned about with the theorems on finite cardinalities   *)
(* (see SumsProofs), and is still evaluated by enumeration.                *)
(***************************************************************************)
EXTENDS Integers, FiniteSets

\* The satoshis of entry x of f, each of them a distinct element.
UnitsAt(f, x) == {x} \X (1..f[x])

\* All satoshis of f.
Units(f) == UNION {UnitsAt(f, x) : x \in DOMAIN f}

\* The sum of f[x] over the finite domain of a function into Nat.
Total(f) == Cardinality(Units(f))
=============================================================================
