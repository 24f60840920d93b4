----------------------------- MODULE FraudRules -----------------------------
(***************************************************************************)
(* What the five rules of the fraud engine say of a payment, given what    *)
(* each has read, and what the engine makes of their severities.  A        *)
(* verdict is a severity, 0 when the rule has passed.                      *)
(***************************************************************************)
EXTENDS Integers, FiniteSets, FiniteSetsExt

CONSTANTS
  PerHour, PerDay,         \* TRANSACTIONS_PER_HOUR and TRANSACTIONS_PER_DAY
  AmountHour, AmountDay,   \* AMOUNT_PER_HOUR and AMOUNT_PER_DAY, in kurus
  MinHistory               \* MIN_HISTORY_COUNT

Rules == {"address", "customer", "velocity", "duplicate", "amount"}
Severities == 0..10

\* What rules on marked customers, on speed, on repetition and on amounts can say.
Sayable == [address |-> {0, 10}, customer |-> {0, 9}, velocity |-> {0, 8, 9},
            duplicate |-> {0, 8}, amount |-> {0} \cup 5..9]

AllPassed == [x \in Rules |-> 0]

Total(someRows) == MapThenSumSet(LAMBDA row : row.amount, someRows)

-----------------------------------------------------------------------------
(* Mutants: bugs this code could have had, each caught by a property of      *)
(* Intake.                                                                   *)

\* one severe verdict is enough to block
HastyShouldBlock(v) == \E x \in Rules : v[x] >= 9

\* the score alone decides
ScoreShouldBlock(v) == 10 * v.address >= 95 * 40

-----------------------------------------------------------------------------
(* The rules                                                                 *)

AddressVerdict(listed) == IF listed THEN 10 ELSE 0

\* A mark set through the administration says HIGH, whatever the reason.
CustomerVerdict(marked) == IF marked THEN 9 ELSE 0

\* The four reads of the velocity rule, in order; the first limit that is met ends it.
VelocityVerdict(read, matching, amount) ==
  CASE read = "hourCount" /\ Cardinality(matching) >= PerHour -> 9
    [] read = "dayCount" /\ Cardinality(matching) >= PerDay -> 8
    [] read = "hourAmount" /\ Total(matching) + amount > AmountHour -> 9
    [] read = "dayAmount" /\ Total(matching) + amount > AmountDay -> 8
    [] OTHER -> 0

DuplicateVerdict(matching, amount) ==
  IF \E row \in matching : row.amount = amount THEN 8 ELSE 0

\* How many times the average of the history the amount is, compared by products.
Times(k, matching, amount) == amount * Cardinality(matching) >= k * Total(matching)

AmountVerdict(matching, amount) ==
  IF \/ Cardinality(matching) < MinHistory
     \/ amount * Cardinality(matching) <= 5 * Total(matching) THEN 0
  ELSE IF Times(10, matching, amount) THEN 9
  ELSE IF Times(8, matching, amount) THEN 8
  ELSE IF Times(6, matching, amount) THEN 7 ELSE 6

-----------------------------------------------------------------------------
(* The engine                                                                *)

\* The mean of the severities weighted 10, 9, 8, 7 and 6, on a scale of 100,
\* rounded half up.
RiskScore(v) ==
  Min({100, (10 * (10 * v.address + 9 * v.customer + 8 * v.velocity
                   + 7 * v.duplicate + 6 * v.amount) + 20) \div 40})

RiskLevel(score) ==
  IF score >= 95 THEN "CRITICAL"
  ELSE IF score >= 80 THEN "HIGH"
  ELSE IF score >= 60 THEN "MEDIUM" ELSE "LOW"

ShouldBlock(v) == (\E x \in Rules : v[x] = 10) \/ RiskScore(v) >= 95

RequiresManualReview(v) == (\E x \in Rules : v[x] >= 8) \/ RiskScore(v) >= 80
=============================================================================
