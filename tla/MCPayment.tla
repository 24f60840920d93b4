----------------------------- MODULE MCPayment ------------------------------
(***************************************************************************)
(* Payment on small instances: one payment that fills its bank, one or two *)
(* concurrent handlers, and the subsets of handlers whose interleavings    *)
(* each run is about.                                                      *)
(***************************************************************************)
EXTENDS Payment, TLC

CONSTANTS p1, p2, b1, w1, w2

OneEach == [t \in Payments |-> 1]
Limit1 == [b \in Banks |-> 1]

NeverSlow == {}

Symmetry == Permutations(Workers)
=============================================================================
