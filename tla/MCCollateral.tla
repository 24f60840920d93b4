---------------------------- MODULE MCCollateral ----------------------------
(***************************************************************************)
(* Collateral on small instances: amounts and limits small enough that two *)
(* payments fill a bank and a third does not fit.                          *)
(***************************************************************************)
EXTENDS Collateral, TLC

CONSTANTS p1, p2, p3, b1, b2, w1, w2

\* p1 leaves room in b1, p2 fills what p1 left, p3 fits only beside one of them.
MCAmount == (p1 :> 1 @@ p2 :> 2 @@ p3 :> 1)
OnPayments(f) == [t \in Payments |-> f[t]]
SmallAmounts == OnPayments(MCAmount)
Limit3 == [b \in Banks |-> 3]
Limit2 == [b \in Banks |-> 2]

\* A key holder may outlive the key's ten seconds only after its transaction,
\* which Prisma ends after five.
NeverSlow == {}

Symmetry == Permutations(Workers)
=============================================================================
