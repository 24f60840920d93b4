----------------------------- MODULE Lifecycle ------------------------------
(***************************************************************************)
(* What the platform promises about a payment: it is created, perhaps      *)
(* confirmed by the customer, decided once and for all, and what it had    *)
(* locked is given back once, after the decision.  Payment.tla implements  *)
(* it as long as no cron job works from an outdated list and no two        *)
(* releases of one payment overlap.                                        *)
(***************************************************************************)
CONSTANT Payments

VARIABLES
  status,   \* status[t], "NONE" before t is created
  returned  \* returned[t]: how often what t had locked was given back

vars == <<status, returned>>

Init ==
  /\ status = [t \in Payments |-> "NONE"]
  /\ returned = [t \in Payments |-> 0]

Moves(t, from, to) == status[t] = from /\ status' = [status EXCEPT ![t] = to]

Create(t) == Moves(t, "NONE", "PENDING") /\ UNCHANGED returned

Confirm(t) == Moves(t, "PENDING", "WAITING") /\ UNCHANGED returned

\* An administrator or the expiry decides a PENDING payment, the bank owner or
\* the timeout one that waits for the owner.
Decide(t) ==
  /\ \/ \E to \in {"APPROVED", "REJECTED", "EXPIRED"} : Moves(t, "PENDING", to)
     \/ \E to \in {"APPROVED", "REJECTED"} : Moves(t, "WAITING", to)
  /\ UNCHANGED returned

GiveBack(t) ==
  /\ status[t] \in {"APPROVED", "REJECTED", "EXPIRED"} /\ returned[t] = 0
  /\ returned' = [returned EXCEPT ![t] = 1]
  /\ UNCHANGED status

Next == \E t \in Payments : Create(t) \/ Confirm(t) \/ Decide(t) \/ GiveBack(t)

Spec == Init /\ [][Next]_vars
=============================================================================
