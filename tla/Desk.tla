-------------------------------- MODULE Desk --------------------------------
(***************************************************************************)
(* The desk of the administrators: the statistics of the dashboard, which  *)
(* are five reads one after the other, and the approval of a batch, one    *)
(* payment after the other. Everyone else goes on deciding meanwhile.      *)
(***************************************************************************)
EXTENDS Integers, Sequences, FiniteSets

CONSTANTS
  Payments,
  Today,       \* those created today, once they are
  Admins,
  Batches,     \* the lists of payments an administrator may send
  Refusals,    \* bound: rejected calls to the database or to Redis
  Others       \* bound: moves of payments by others

ASSUME DeskAssumption ==
  /\ Today \subseteq Payments /\ Batches \subseteq Seq(Payments)
  /\ IsFiniteSet(Payments)
  /\ Refusals \in Nat /\ Others \in Nat

VARIABLES
  status,    \* of a payment, "NONE" before there is a row
  reads,     \* how many of its reads the dashboard has made, 0 when none is asked
  counted,   \* the payments each read counted
  pending,   \* of an administrator: the payments of the last list of pending ones
  batch,     \* of an administrator: the list sent
  doing,     \* of an administrator: "idle" or what the loop does next
  answers,   \* of an administrator: the answers so far
  refusals, others,
  approvals  \* history: of a payment, the entries of batches that made it APPROVED

statsVars == <<reads, counted>>
batchVars == <<pending, batch, doing, answers, approvals>>
deskVars == <<status, statsVars, batchVars, refusals, others>>

Statuses == {"NONE", "PENDING", "WAITING", "APPROVED", "REJECTED", "EXPIRED"}
ReadsOf == <<"approved", "weekly", "pending", "total", "commission">>

DeskTypeOK ==
  /\ status \in [Payments -> Statuses]
  /\ reads \in 0..5
  /\ counted \in [{ReadsOf[i] : i \in 1..5} -> SUBSET Payments]
  /\ pending \in [Admins -> SUBSET Payments]
  /\ batch \in [Admins -> Batches \cup {<<>>}]
  /\ doing \in [Admins -> {"idle", "find", "load", "update", "after"}]
  /\ answers \in [Admins -> Seq({"approved", "error"})]
  /\ \A a \in Admins :
       /\ Len(answers[a]) <= Len(batch[a])
       /\ doing[a] # "idle" => Len(answers[a]) < Len(batch[a])
  /\ refusals \in 0..Refusals /\ others \in 0..Others
  /\ approvals \in [Payments -> SUBSET (Admins \X Nat)]

DeskInit ==
  /\ status \in [Payments -> {"NONE", "PENDING"}]
  /\ \A p \in Payments \ Today : status[p] = "PENDING"
  /\ reads = 0 /\ counted = [k \in {ReadsOf[i] : i \in 1..5} |-> {}]
  /\ pending = [a \in Admins |-> {}]
  /\ batch = [a \in Admins |-> <<>>] /\ doing = [a \in Admins |-> "idle"]
  /\ answers = [a \in Admins |-> <<>>]
  /\ refusals = 0 /\ others = 0
  /\ approvals = [p \in Payments |-> {}]

-----------------------------------------------------------------------------
(* Mutants: bugs this code could have had, each caught by a property below. *)
TotalFirst == <<"total", "weekly", "pending", "approved", "commission">>
UncheckedUpdate(p) == TRUE

-----------------------------------------------------------------------------
(* getDashboardStats *)

\* In the order of the code.
ReadOrder == <<"approved", "weekly", "pending", "total", "commission">>

\* What a read counts now; no payment here is older than a week or past its time.
Count(read) ==
  CASE read = "weekly" -> {p \in Payments : status[p] = "APPROVED"}
    [] read = "pending" -> {p \in Payments : status[p] = "PENDING"}
    [] read = "total" -> {p \in Today : status[p] # "NONE"}
    [] OTHER -> {p \in Today : status[p] = "APPROVED"}

StatsRead ==
  /\ reads < 5
  /\ reads' = reads + 1
  /\ counted' = [counted EXCEPT ![ReadOrder[reads + 1]] = Count(ReadOrder[reads + 1])]
  /\ UNCHANGED <<status, batchVars, refusals, others>>

\* The answer goes out and another administrator asks.
StatsAnswered ==
  /\ reads = 5
  /\ reads' = 0 /\ counted' = [k \in DOMAIN counted |-> {}]
  /\ UNCHANGED <<status, batchVars, refusals, others>>

\* successRate, in tenths of a percent.
SuccessRate ==
  LET total == Cardinality(counted["total"])
      approved == Cardinality(counted["approved"])
  IN IF total > 0 THEN (approved * 1000 + total \div 2) \div total ELSE 0

-----------------------------------------------------------------------------
(* batchApprove, and approvePayment within it *)
Entry(a) == Len(answers[a]) + 1
Mine(a) == batch[a][Entry(a)]

\* getPendingPayments: one read, grouped by bank for the eye; no payment here is past
\* its time.
PendingListed(a) ==
  /\ doing[a] = "idle" /\ batch[a] = <<>>
  /\ pending' = [pending EXCEPT ![a] = {p \in Payments : status[p] = "PENDING"}]
  /\ UNCHANGED <<status, statsVars, batch, doing, answers, approvals, refusals, others>>

\* The panel sends some of what it found in the list, whatever has become of it.
BatchSent(a, list) ==
  /\ doing[a] = "idle" /\ batch[a] = <<>> /\ list # <<>>
  /\ \A i \in DOMAIN list : list[i] \in pending[a]
  /\ batch' = [batch EXCEPT ![a] = list]
  /\ doing' = [doing EXCEPT ![a] = "find"]
  /\ UNCHANGED <<status, statsVars, pending, answers, approvals, refusals, others>>

\* The entry is answered and the loop goes on; an exception is caught per entry.
Answered(a, answer) ==
  /\ answers' = [answers EXCEPT ![a] = Append(@, answer)]
  /\ doing' = [doing EXCEPT ![a] = IF Entry(a) = Len(batch[a]) THEN "idle" ELSE "find"]

Goes(a, stage) == doing' = [doing EXCEPT ![a] = stage] /\ UNCHANGED answers

\* A call of the entry is rejected.
EntryRefused(a) ==
  /\ doing[a] # "idle" /\ refusals < Refusals
  /\ refusals' = refusals + 1
  /\ Answered(a, "error")
  /\ UNCHANGED <<status, statsVars, pending, batch, approvals, others>>

\* findFirst of a pending one, then approvePayment reads and checks it again.
EntryRead(a) ==
  /\ doing[a] \in {"find", "load"}
  /\ IF status[Mine(a)] = "PENDING"
     THEN Goes(a, IF doing[a] = "find" THEN "load" ELSE "update")
     ELSE Answered(a, "error")
  /\ UNCHANGED <<status, statsVars, pending, batch, approvals, refusals, others>>

\* updateMany finds the row only while it is pending.
Updatable(p) == status[p] = "PENDING"

EntryUpdates(a) ==
  /\ doing[a] = "update"
  /\ IF Updatable(Mine(a))
     THEN /\ status' = [status EXCEPT ![Mine(a)] = "APPROVED"]
          /\ approvals' = [approvals EXCEPT ![Mine(a)] = @ \cup {<<a, Entry(a)>>}]
          /\ Goes(a, "after")
     ELSE Answered(a, "error") /\ UNCHANGED <<status, approvals>>
  /\ UNCHANGED <<statsVars, pending, batch, refusals, others>>

\* The release never throws; the cache and the event may, which is EntryRefused.
EntryEnds(a) ==
  /\ doing[a] = "after"
  /\ Answered(a, "approved")
  /\ UNCHANGED <<status, statsVars, pending, batch, approvals, refusals, others>>

-----------------------------------------------------------------------------
(* The rest of the program, as Payment.tla has it: an expiry may overwrite *)
(* what was decided since its list was read.                               *)
OtherMoves(p) ==
  /\ others < Others /\ others' = others + 1
  /\ status' = [status EXCEPT ![p] =
       CASE status[p] = "NONE" -> "PENDING"
         [] status[p] = "PENDING" -> "WAITING"
         [] status[p] = "WAITING" -> "APPROVED"
         [] OTHER -> "EXPIRED"]
  /\ UNCHANGED <<statsVars, batchVars, refusals>>

OtherDecides(p) ==
  /\ others < Others /\ others' = others + 1
  /\ status[p] \in {"PENDING", "WAITING"}
  /\ status' \in {[status EXCEPT ![p] = s] : s \in {"APPROVED", "REJECTED", "EXPIRED"}}
  /\ UNCHANGED <<statsVars, batchVars, refusals>>

StatsStep == StatsRead \/ StatsAnswered
EntryStep(a) == EntryRead(a) \/ EntryUpdates(a) \/ EntryEnds(a)
OthersStep == \E p \in Payments : OtherMoves(p) \/ OtherDecides(p)
BatchStep == \E a \in Admins :
  EntryStep(a) \/ EntryRefused(a) \/ PendingListed(a) \/ \E list \in Batches : BatchSent(a, list)

DeskNext == StatsStep \/ BatchStep \/ OthersStep
DeskSpec == DeskInit /\ [][DeskNext]_deskVars

-----------------------------------------------------------------------------
(* Properties. *)

\* The five reads see five moments, yet the dashboard adds up: what it counts as
\* approved today and as pending are different payments, those of them created
\* today are among all of today's, and the success rate stays within 100%
\* (getDashboardStats).
StatsAddUp ==
  reads = 5 =>
    /\ counted["approved"] \cap counted["pending"] = {}
    /\ counted["approved"] \cup (counted["pending"] \cap Today) \subseteq counted["total"]
    /\ SuccessRate <= 1000

\* An entry answered "approved" is the one that approved its payment, no other
\* entry of this or of another batch did, nor a retry of the same list
\* (batchApprove, updatePaymentStatus).
ApprovedIsOwn ==
  \A a \in Admins : \A i \in DOMAIN answers[a] :
    answers[a][i] = "approved" => approvals[batch[a][i]] = {<<a, i>>}
=============================================================================
