----------------------------- MODULE Commission -----------------------------
(***************************************************************************)
(* How an amount is shared between the platform, the provider and the net  *)
(* of the payment (CommissionService.calculate).  Amounts are whole kurus, *)
(* rates are parts of Whole.                                               *)
(***************************************************************************)
EXTENDS Integers

\* A rate has four decimals.
Whole == 10000

Distance(a, b) == IF a < b THEN b - a ELSE a - b

\* toFixed(2) of the double nearest to n/d kurus: the nearest kurus, either
\* neighbour when n/d lies half way between two, for the double is then on a side
\* that its own rounding has chosen.
Nearest(n, d) == {q \in {n \div d, n \div d + 1} : 2 * Distance(q * d, n) <= d}

\* Each of the three is computed from the exact amount and then rounded by itself.
Shares(amount, platformRate, pspRate) ==
  [platform : Nearest(amount * platformRate, Whole),
   psp : Nearest(amount * pspRate, Whole),
   net : Nearest(amount * (Whole - platformRate - pspRate), Whole)]

\* How far the three shares are from the amount they share.
Gap(amount, s) == Distance(amount, s.platform + s.psp + s.net)
=============================================================================
