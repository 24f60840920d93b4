-------------------------------- MODULE Lists --------------------------------
(***************************************************************************)
(* Sequences some of whose elements are taken out.                         *)
(***************************************************************************)
EXTENDS Naturals, Sequences, FiniteSets

\* The k-th of a finite set of numbers.
Place(S, i) == Cardinality({j \in S : j <= i})
Nth(S, k) == CHOOSE i \in S : Place(S, i) = k

\* What is at the indices of S, in the order it has.
Thin(seq, S) == [k \in 1..Cardinality(S) |-> seq[Nth(S, k)]]
=============================================================================
