------------------------------- MODULE Intake -------------------------------
(***************************************************************************)
(* How a payment comes in: the SDK of a merchant sends createPayment, gives *)
(* up waiting and sends it again; the backend admits the request, runs the *)
(* fraud rules side by side, decides, and inserts the row with its shares; *)
(* administrators blacklist addresses and mark customers meanwhile.        *)
(*                                                                         *)
(* A request is an order and the number of the attempt that sent it.       *)
(***************************************************************************)
EXTENDS FraudRules, Commission

CONSTANTS
  Orders,                  \* the createPayment calls of the merchants
  Identifiers, Addresses,  \* of customers: e-mails and telephones; IP addresses
  Baskets,                 \* what the orders may be: who, from where and how much
  Pasts,                   \* the rows a behaviour may start with
  MaxRetries,              \* retryConfig.maxRetries
  MinAmount, MaxAmount,    \* MIN_PAYMENT_AMOUNT, MAX_PAYMENT_AMOUNT, in kurus
  PlatformRate, PspRate,   \* commission rates, parts of Whole
  Short, Hour, Day,        \* the windows of the rules, in ticks
  MaxNow,                  \* bound: ticks
  Acts,                    \* bound: acts of administrators
  Mishaps,                \* bound: rejected reads of the rules and deaths of the server
  AtOnce                   \* bound: requests in the server at once

Who == Identifiers \cup Addresses
Tries == 0..MaxRetries
Posts == Orders \X Tries

\* Customers have an e-mail or a telephone, and the address they call from.
Order == [of : SUBSET Who, from : Addresses, amount : Nat]

\* A row as the rules and the shares need it; "before" marks those of earlier calls.
Row == [req : Posts \cup ({"before"} \X Nat), of : SUBSET Who, amount : Nat,
        at : 0..MaxNow, unflagged : BOOLEAN, platform : Nat, psp : Nat, net : Nat]

\* The payments of an e-mail, telephone or address that were not flagged, in the hour
\* that begins at t, exceed PerHour by less than the requests in the server at once.
Unflagged(someRows, w, t) ==
  {row \in someRows : row.unflagged /\ w \in row.of /\ row.at \in t..(t + Hour)}
WithinOverrun(someRows) ==
  \A w \in Who, t \in 0..MaxNow :
    Cardinality(Unflagged(someRows, w, t)) <= PerHour + AtOnce - 1

ASSUME IntakeAssumption ==
  /\ MaxRetries \in Nat /\ MaxNow \in Nat /\ Acts \in Nat /\ Mishaps \in Nat
  /\ AtOnce \in Nat \ {0}
  /\ Short \in Nat /\ Hour \in Nat /\ Day \in Nat
  /\ Short <= Hour /\ Hour <= Day
  /\ PerHour \in Nat \ {0} /\ PerDay \in Nat /\ AmountHour \in Nat /\ AmountDay \in Nat
  /\ MinHistory \in Nat \ {0}
  /\ MinAmount \in Nat /\ MaxAmount \in Nat
  /\ PlatformRate \in 0..Whole /\ PspRate \in 0..Whole
  /\ PlatformRate + PspRate <= Whole
  /\ Identifiers \cap Addresses = {}
  /\ "before" \notin Orders
  /\ Baskets \subseteq [Orders -> Order]
  /\ \A b \in Baskets, o \in Orders : b[o].of \cap Addresses = {b[o].from}
  /\ Pasts \subseteq SUBSET Row
  /\ \A past \in Pasts :
       /\ \A row \in past : row.req[1] = "before" /\ Gap(row.amount, row) <= 1
       /\ IsFiniteSet(past) /\ WithinOverrun(past)

VARIABLES
  order,     \* what the calls ask for
  call,      \* of a call: "idle", "waiting", "pause", "paid", "refused", "failed"
  attempt,   \* of a call: retryCount of fetchWithRetry
  point,     \* of a request: where it stands
  since,     \* of a request: when its rules began
  reading,   \* of a request: the reads its rules have still to make
  verdict,   \* of a request: the severities its rules have come to
  rows,      \* the transactions of the platform
  listed,    \* security:ip_blacklist
  marked,    \* customers with a customer:risk key
  now, acts, mishaps,
  given,     \* history: the requests the SDK gave up waiting for
  unread,    \* history: the requests whose velocity rule could not read
  clean      \* history: the requests from an address listed ever since they came

callVars == <<call, attempt, given>>
ruleVars == <<since, reading, verdict, unread>>
adminVars == <<listed, marked, acts>>
intakeVars == <<order, call, attempt, point, since, reading, verdict, rows, listed, marked,
                now, acts, mishaps, given, unread, clean>>

Calls == {"idle", "waiting", "pause", "paid", "refused", "failed"}
Answers == {"ok", "refused", "blocked", "error"}
InServer == {"rules", "accepted", "inserted"}
Stages == {"none", "sent", "over"} \cup InServer \cup Answers
FirstReads == {"address", "hourCount"}
VelocityReads == {"hourCount", "dayCount", "hourAmount", "dayAmount"}
Reads == FirstReads \cup VelocityReads

IntakeInit ==
  /\ order \in Baskets
  /\ rows \in Pasts
  /\ listed \in SUBSET Addresses /\ marked = {}
  /\ call = [o \in Orders |-> "idle"] /\ attempt = [o \in Orders |-> 0]
  /\ point = [r \in Posts |-> "none"] /\ since = [r \in Posts |-> 0]
  /\ reading = [r \in Posts |-> {}]
  /\ verdict = [r \in Posts |-> AllPassed]
  /\ now = 0 /\ acts = Acts /\ mishaps = Mishaps
  /\ given = {} /\ unread = {} /\ clean = {}

-----------------------------------------------------------------------------
(* Mutants: bugs this code could have had, each caught by a property below.  *)

\* answers of 500 sent again, as isRetryable would have it
EagerOutcome(o, answer) ==
  CASE answer = "ok" -> "paid"
    [] answer = "error" /\ attempt[o] < MaxRetries -> "pause"
    [] OTHER -> "refused"

\* the velocity rule matched like the duplicate rule, without the address
LaxSameCustomer(r, row) == row.of \cap order[r[1]].of \cap Identifiers # {}

-----------------------------------------------------------------------------
(* The SDK                                                                   *)

Current(o) == <<o, attempt[o]>>

Sends(o, n) ==
  /\ call' = [call EXCEPT ![o] = "waiting"]
  /\ attempt' = [attempt EXCEPT ![o] = n]
  /\ point' = [point EXCEPT ![<<o, n>>] = "sent"]
  /\ UNCHANGED <<order, ruleVars, rows, adminVars, now, mishaps, given, clean>>

CreatePayment(o) == call[o] = "idle" /\ Sends(o, 0)

NextTry(o) == attempt[o] + 1

Resend(o) == call[o] = "pause" /\ Sends(o, NextTry(o))

\* fetch throws: the timer has aborted it or the network has failed, whatever has
\* become of the request.
Throws(o) ==
  /\ call[o] = "waiting"
  /\ call' = [call EXCEPT ![o] = IF attempt[o] < MaxRetries THEN "pause" ELSE "failed"]
  /\ given' = given \cup {Current(o)}
  /\ point' = IF point[Current(o)] \in Answers THEN [point EXCEPT ![Current(o)] = "over"]
              ELSE point
  /\ UNCHANGED <<order, attempt, ruleVars, rows, adminVars, now, mishaps, clean>>

\* Any answer ends the call, an error of the server as well.
Outcome(o, answer) ==
  CASE answer = "ok" -> "paid"
    [] answer = "error" -> "failed"
    [] OTHER -> "refused"

TakesAnswer(o) ==
  /\ call[o] = "waiting"
  /\ point[Current(o)] \in Answers
  /\ call' = [call EXCEPT ![o] = Outcome(o, point[Current(o)])]
  /\ point' = [point EXCEPT ![Current(o)] = "over"]
  /\ UNCHANGED <<order, attempt, ruleVars, rows, adminVars, now, mishaps, given, clean>>

-----------------------------------------------------------------------------
(* The backend                                                               *)

\* The answer to a request nobody waits for any more is not told apart.
Reply(r, answer) ==
  point' = [point EXCEPT ![r] = IF r \in given THEN "over" ELSE answer]

FromListed(r) == order[r[1]].from \in listed

\* The guard, the DTO, validateAmount and validatePlatform; a request that passes them
\* starts its rules.  Nothing in the code writes is_active: it is found as it is.
Admit(r) ==
  /\ point[r] = "sent"
  /\ Cardinality({q \in Posts : point[q] \in InServer}) < AtOnce
  /\ \/ /\ order[r[1]].amount \in MinAmount..MaxAmount
        /\ point' = [point EXCEPT ![r] = "rules"]
        /\ since' = [since EXCEPT ![r] = now]
        /\ reading' = [reading EXCEPT ![r] = FirstReads]
        /\ clean' = IF FromListed(r) THEN clean \cup {r} ELSE clean
     \/ \E active \in BOOLEAN :
          /\ ~active \/ order[r[1]].amount \notin MinAmount..MaxAmount
          /\ Reply(r, "refused")
          /\ UNCHANGED <<since, reading, clean>>
  /\ UNCHANGED <<order, callVars, verdict, unread, rows, adminVars, now, mishaps>>

\* The rows of an e-mail, a telephone or an address of the order, since a window began.
SameCustomer(r, row) == row.of \cap order[r[1]].of # {}
Matching(r, window) ==
  {row \in rows : SameCustomer(r, row) /\ row.at + window >= since[r]}

\* Rows of the e-mail or the telephone alone.
Own(r) == {row \in rows : row.of \cap order[r[1]].of \cap Identifiers # {}}

\* The read of the velocity rule that follows one that met no limit.
Following(x) ==
  CASE x = "hourCount" -> {"dayCount"}
    [] x = "dayCount" -> {"hourAmount"}
    [] x = "hourAmount" -> {"dayAmount"}
    [] OTHER -> {}

WindowOf(x) == IF x \in {"hourCount", "hourAmount"} THEN Hour ELSE Day

ReadAddress(r) ==
  /\ "address" \in reading[r]
  /\ reading' = [reading EXCEPT ![r] = @ \ {"address"}]
  /\ verdict' = [verdict EXCEPT ![r]["address"] = AddressVerdict(FromListed(r))]
  /\ UNCHANGED <<order, callVars, point, since, unread, rows, adminVars, now, mishaps, clean>>

ReadVelocity(r, x) ==
  /\ x \in reading[r]
  /\ LET severity == VelocityVerdict(x, Matching(r, WindowOf(x)), order[r[1]].amount)
     IN /\ verdict' = [verdict EXCEPT ![r]["velocity"] = severity]
        /\ reading' = [reading EXCEPT
             ![r] = (@ \ {x}) \cup (IF severity = 0 THEN Following(x) ELSE {})]
  /\ UNCHANGED <<order, callVars, point, since, unread, rows, adminVars, now, mishaps, clean>>

\* A rule that cannot read passes (executeRule).
ReadFails(r, x) ==
  /\ x \in reading[r]
  /\ mishaps > 0
  /\ mishaps' = mishaps - 1
  /\ reading' = [reading EXCEPT ![r] = @ \ {x}]
  /\ unread' = IF x \in VelocityReads THEN unread \cup {r} ELSE unread
  /\ clean' = IF x = "address" THEN clean \ {r} ELSE clean
  /\ UNCHANGED <<order, callVars, point, since, verdict, rows, adminVars, now>>

\* What the three rules say that feed the score alone, each passing when it cannot
\* read; when they read makes no difference to anything else, so they do with the
\* decision.  Which of the customer's payments are live, that is pending or approved,
\* is for Payment to say.
RestOf(r, live) ==
  {[customer |-> c, duplicate |-> d, amount |-> a] :
     c \in {0, CustomerVerdict(order[r[1]].of \cap marked # {})},
     d \in {0, DuplicateVerdict(live \cap Matching(r, Short), order[r[1]].amount)},
     a \in {0, AmountVerdict(live, order[r[1]].amount)}}

\* The creator looks at nothing but whether the engine blocks.
CheckFraudDetection(v) == IF ShouldBlock(v) THEN "blocked" ELSE "accepted"

\* The engine has all five answers.
Decide(r) ==
  /\ point[r] = "rules" /\ reading[r] = {}
  /\ \E live \in SUBSET Own(r) : \E rest \in RestOf(r, live) :
       LET v == [verdict[r] EXCEPT !["customer"] = rest.customer,
                   !["duplicate"] = rest.duplicate, !["amount"] = rest.amount]
       IN point' = [point EXCEPT ![r] = CheckFraudDetection(v)]
  /\ since' = [since EXCEPT ![r] = 0]
  /\ UNCHANGED <<order, callVars, reading, verdict, unread, rows, adminVars, now, mishaps, clean>>

SharesOf(amount) == Shares(amount, PlatformRate, PspRate)

\* A bank is chosen and the row created.  What the rules said is forgotten.
Insert(r) ==
  /\ point[r] = "accepted"
  /\ point' = [point EXCEPT ![r] = "inserted"]
  /\ \E s \in SharesOf(order[r[1]].amount) :
       rows' = rows \cup
         {[req |-> r, of |-> order[r[1]].of, amount |-> order[r[1]].amount, at |-> now,
           unflagged |-> verdict[r].velocity = 0 /\ r \notin unread,
           platform |-> s.platform, psp |-> s.psp, net |-> s.net]}
  /\ verdict' = [verdict EXCEPT ![r] = AllPassed]
  /\ unread' = unread \ {r}
  /\ UNCHANGED <<order, callVars, since, reading, adminVars, now, mishaps, clean>>

\* The collateral is locked, the payment cached and its event logged.
Finish(r) ==
  /\ point[r] = "inserted"
  /\ Reply(r, "ok")
  /\ UNCHANGED <<order, callVars, ruleVars, rows, adminVars, now, mishaps, clean>>

\* The platform cannot be read, no bank has room, or something after the row fails:
\* the row stays.
Fails(r) ==
  /\ point[r] \in {"sent", "accepted", "inserted"}
  /\ Reply(r, "error")
  /\ UNCHANGED <<order, callVars, ruleVars, rows, adminVars, now, mishaps, clean>>

ServerDies ==
  /\ mishaps > 0
  /\ \E r \in Posts : point[r] \in InServer
  /\ mishaps' = mishaps - 1
  /\ point' = [r \in Posts |-> IF point[r] \in InServer THEN "over" ELSE point[r]]
  /\ reading' = [r \in Posts |-> {}]
  /\ UNCHANGED <<order, callVars, since, verdict, unread, rows, adminVars, now, clean>>

-----------------------------------------------------------------------------
(* The administration and the clock                                          *)

Blacklist(a) ==
  /\ acts > 0 /\ acts' = acts - 1
  /\ listed' = listed \cup {a}
  /\ UNCHANGED <<order, callVars, point, ruleVars, rows, marked, now, mishaps, clean>>

Unlist(a) ==
  /\ acts > 0 /\ acts' = acts - 1
  /\ listed' = listed \ {a}
  /\ clean' = {r \in clean : order[r[1]].from # a}
  /\ UNCHANGED <<order, callVars, point, ruleVars, rows, marked, now, mishaps>>

\* There is no way back but the 30 days of the key: removeCustomerHighRisk calls a
\* method its class does not have before it has removed anything.
MarkHighRisk(i) ==
  /\ acts > 0 /\ acts' = acts - 1
  /\ marked' = marked \cup {i}
  /\ UNCHANGED <<order, callVars, point, ruleVars, rows, listed, now, mishaps, clean>>

MarkLapses(i) ==
  /\ i \in marked
  /\ marked' = marked \ {i}
  /\ UNCHANGED <<order, callVars, point, ruleVars, rows, listed, acts, now, mishaps, clean>>

TimePasses ==
  /\ now < MaxNow
  /\ now' = now + 1
  /\ UNCHANGED <<order, callVars, point, ruleVars, rows, adminVars, mishaps, clean>>

-----------------------------------------------------------------------------
Client(o) == CreatePayment(o) \/ Resend(o) \/ Throws(o) \/ TakesAnswer(o)
Server(r) ==
  \/ Admit(r) \/ ReadAddress(r)
  \/ \E x \in VelocityReads : ReadVelocity(r, x)
  \/ \E x \in Reads : ReadFails(r, x)
  \/ Decide(r) \/ Insert(r) \/ Finish(r) \/ Fails(r)

IntakeNext ==
  \/ \E o \in Orders : Client(o)
  \/ \E r \in Posts : Server(r)
  \/ ServerDies
  \/ \E a \in Addresses : Blacklist(a) \/ Unlist(a)
  \/ \E i \in Identifiers : MarkHighRisk(i) \/ MarkLapses(i)
  \/ TimePasses

IntakeSpec == IntakeInit /\ [][IntakeNext]_intakeVars

-----------------------------------------------------------------------------
(* Properties                                                                *)

\* The variables have their types; the severities are those the rules can say.
IntakeTypeOK ==
  /\ order \in Baskets
  /\ call \in [Orders -> Calls] /\ attempt \in [Orders -> Tries]
  /\ point \in [Posts -> Stages] /\ since \in [Posts -> 0..MaxNow]
  /\ reading \in [Posts -> SUBSET Reads]
  /\ verdict \in [Posts -> [Rules -> Severities]]
  /\ \A r \in Posts, x \in Rules : verdict[r][x] \in Sayable[x]
  /\ rows \subseteq Row
  /\ listed \subseteq Addresses /\ marked \subseteq Identifiers
  /\ now \in 0..MaxNow /\ acts \in 0..Acts /\ mishaps \in 0..Mishaps
  /\ given \subseteq Posts /\ unread \subseteq Posts /\ clean \subseteq Posts

\* A request from an address that has been on the blacklist since it came, and whose
\* list could be read, leaves no row: no score, no race with the other rules and no
\* retry gets it through.
ListedIsRefused == \A r \in clean : \A row \in rows : row.req # r

\* Nothing but the blacklist blocks: marks, speed, repetition and amounts together do
\* not, for they weigh too little to reach 95 (RISK_THRESHOLDS).
OnlyListedIsBlocked ==
  \A r \in Posts : point[r] = "blocked" => verdict[r].address = 10

\* Posts that run their rules side by side do not see each other's rows, so the
\* payments of one customer or address in an hour that the velocity rule has passed may
\* exceed its limit, by no more than the requests that were in the server at once.
OverrunBounded == WithinOverrun(rows)

\* The SDK pays twice for one order only when it gave up waiting for the first: an
\* answer, an error of the server too, is never followed by another attempt.
TwiceOnlyWhenLost ==
  \A one, other \in rows :
    one.req[1] = other.req[1] /\ one.req[1] \in Orders /\ one.req[2] < other.req[2]
      => one.req \in given

\* The three shares of a payment, each rounded by itself, are at most one kurus off the
\* amount they share.
SharesAddUp == \A row \in rows : Gap(row.amount, row) <= 1
=============================================================================
