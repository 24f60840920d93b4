------------------------------- MODULE Ledger -------------------------------
(***************************************************************************)
(* What the collateral service promises, with no process, no Redis and no  *)
(* database transaction in sight: a payment reserves its amount in one     *)
(* bank at most once, never beyond the bank's limit, and what it reserved  *)
(* is given back at most once.  Collateral.tla is shown to implement it.   *)
(***************************************************************************)
EXTENDS Integers

CONSTANTS Banks, Payments, Amount, Limit

VARIABLES
  used,     \* used[b]: how much of bank b's limit is reserved
  account,  \* account[t]: "free", "held" or "returned"
  place     \* place[t]: the bank payment t reserved in, once it has

vars == <<used, account, place>>

Init ==
  /\ used = [b \in Banks |-> 0]
  /\ account = [t \in Payments |-> "free"]

Reserve(t, b) ==
  /\ account[t] = "free"
  /\ used[b] + Amount[t] <= Limit[b]
  /\ account' = [account EXCEPT ![t] = "held"]
  /\ place' = [place EXCEPT ![t] = b]
  /\ used' = [used EXCEPT ![b] = @ + Amount[t]]

GiveBack(t) ==
  /\ account[t] = "held"
  /\ account' = [account EXCEPT ![t] = "returned"]
  /\ used' = [used EXCEPT ![place[t]] = @ - Amount[t]]
  /\ UNCHANGED place

Next ==
  \/ \E t \in Payments, b \in Banks : Reserve(t, b)
  \/ \E t \in Payments : GiveBack(t)

Spec == Init /\ [][Next]_vars
=============================================================================
