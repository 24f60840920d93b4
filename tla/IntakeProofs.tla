---------------------------- MODULE IntakeProofs ----------------------------
(***************************************************************************)
(* Theorems about the intake of payments, for any orders, customers, past  *)
(* rows, limits and rates, any number of attempts and of requests at once. *)
(***************************************************************************)
EXTENDS Intake, FiniteSetTheorems, TLAPS

(***************************************************************************)
(* The rules and the engine                                                *)
(***************************************************************************)

\* A verdict that rules can come to.
Said(v) == v \in [Rules -> Severities] /\ \A x \in Rules : v[x] \in Sayable[x]

\* The cap of the score is a case distinction.
LEMMA MinOfTwo ==
  ASSUME NEW a \in Int, NEW b \in Int
  PROVE  Min({a, b}) = IF a <= b THEN a ELSE b
  BY DEF Min

\* What each rule can say, spelled out.
LEMMA SaidSeverities ==
  ASSUME NEW v, Said(v)
  PROVE  /\ v.address \in {0, 10} /\ v.customer \in {0, 9} /\ v.velocity \in {0, 8, 9}
         /\ v.duplicate \in {0, 8} /\ v.amount \in {0} \cup 5..9
  BY DEF Said, Rules, Sayable

\* The largest severities other than the blacklist's weigh at most 93 together with it.
LEMMA WeightedBelow ==
  ASSUME NEW a \in 0..10, NEW b \in 0..9, NEW c \in 0..9, NEW d \in 0..8, NEW e \in 0..9
  PROVE  (10 * (10 * a + 9 * b + 8 * c + 7 * d + 6 * e) + 20) \div 40 \in 0..93
<1> DEFINE t == 10 * (10 * a + 9 * b + 8 * c + 7 * d + 6 * e) + 20
<1>1. t \in 0..3750
  OBVIOUS
<1> HIDE DEF t
<1>2. t \div 40 \in 0..93
  BY <1>1
<1> QED
  BY <1>2 DEF t

\* The weights of the rules leave no room for the score to reach 95: RiskLevel CRITICAL
\* is out of reach and shouldBlock is decided by a severity of 10 alone, which is the
\* blacklist's.
THEOREM ScoreNeverDecides ==
  ASSUME NEW v, Said(v)
  PROVE  /\ RiskScore(v) < 95
         /\ RiskLevel(RiskScore(v)) # "CRITICAL"
         /\ ShouldBlock(v) <=> v.address = 10
<1> DEFINE sum == 10 * (10 * v.address + 9 * v.customer + 8 * v.velocity
                        + 7 * v.duplicate + 6 * v.amount) + 20
<1>1. /\ v.address \in 0..10 /\ v.customer \in 0..9 /\ v.velocity \in 0..9
      /\ v.duplicate \in 0..8 /\ v.amount \in 0..9
  BY SaidSeverities
<1>2. sum \div 40 \in 0..93
  BY <1>1, WeightedBelow
<1>3. RiskScore(v) = sum \div 40
  BY <1>2, MinOfTwo DEF RiskScore
<1>4. RiskScore(v) \in 0..93
  BY <1>2, <1>3
<1>5. RiskLevel(RiskScore(v)) # "CRITICAL"
  BY <1>4 DEF RiskLevel
<1>6. (\E x \in Rules : v[x] = 10) <=> v.address = 10
  BY SaidSeverities DEF Rules
<1> QED
  BY <1>4, <1>5, <1>6 DEF ShouldBlock

\* What is blocked would also have had a review.
THEOREM BlockedIsReviewed ==
  ASSUME NEW v, Said(v), ShouldBlock(v)
  PROVE  RequiresManualReview(v)
<1>1. v["address"] = 10
  BY ScoreNeverDecides
<1> QED
  BY <1>1 DEF RequiresManualReview, Rules

(***************************************************************************)
(* The shares                                                              *)
(***************************************************************************)

\* Shares each rounded to the nearest kurus by themselves are off by one at most
\* together, whatever the rates.
THEOREM SharesNear ==
  ASSUME NEW amount \in Nat, NEW p \in 0..Whole, NEW q \in 0..Whole, p + q <= Whole,
         NEW s \in Shares(amount, p, q)
  PROVE  /\ s.platform \in Nat /\ s.psp \in Nat /\ s.net \in Nat
         /\ Gap(amount, s) <= 1
<1> DEFINE a == amount * p
           b == amount * q
           c == amount * (Whole - p - q)
<1>1. a \in Nat /\ b \in Nat /\ c \in Nat
  BY DEF Whole
<1>2. a + b + c = amount * Whole
  BY DEF Whole
<1>3. ASSUME NEW n \in Nat, NEW k \in Nearest(n, Whole)
      PROVE  k \in Nat /\ 2 * (k * Whole) - 2 * n <= Whole /\ 2 * n - 2 * (k * Whole) <= Whole
  BY <1>3 DEF Nearest, Distance, Whole
<1>4. s.platform \in Nearest(a, Whole) /\ s.psp \in Nearest(b, Whole) /\ s.net \in Nearest(c, Whole)
  BY DEF Shares
<1> HIDE DEF a, b, c
<1>5. /\ s.platform \in Nat /\ s.psp \in Nat /\ s.net \in Nat
      /\ \A x \in {<<s.platform, a>>, <<s.psp, b>>, <<s.net, c>>} :
           2 * (x[1] * Whole) - 2 * x[2] <= Whole /\ 2 * x[2] - 2 * (x[1] * Whole) <= Whole
  BY <1>1, <1>3, <1>4
<1>6. Gap(amount, s) <= 1
  BY <1>1, <1>2, <1>5 DEF Gap, Distance, Whole
<1> QED
  BY <1>5, <1>6

(***************************************************************************)
(* The state.  Attempts are sent one after the other, each after the SDK    *)
(* gave up on the one before; a row is inserted after its rules; rules run *)
(* only while the request is at them; and a clean request stays listed,    *)
(* with the read of its address to come or come out severe.                *)
(***************************************************************************)
Trail ==
  /\ \A o \in Orders, n \in Tries :
       call[o] = "idle" \/ n > attempt[o] => point[<<o, n>>] = "none"
  /\ \A o \in Orders, n \in Tries :
       n < attempt[o] \/ (n = attempt[o] /\ call[o] = "pause") => <<o, n>> \in given
  /\ \A o \in Orders : call[o] = "pause" => attempt[o] < MaxRetries

AfterRules ==
  \A row \in rows :
    row.req \in Posts => point[row.req] \notin {"none", "sent", "rules", "accepted"}

AtRules == \A r \in Posts : reading[r] # {} => point[r] = "rules"

CleanIsCaught ==
  \A r \in clean :
    /\ FromListed(r)
    /\ point[r] \notin {"none", "sent", "accepted", "inserted"}
    /\ point[r] = "rules" => "address" \in reading[r] \/ verdict[r]["address"] = 10

IntakeInv ==
  IntakeTypeOK /\ Trail /\ AfterRules /\ AtRules /\ CleanIsCaught /\ ListedIsRefused
         /\ OnlyListedIsBlocked /\ SharesAddUp

\* Rows of earlier calls belong to no request of the behaviour.
LEMMA NoRequestOfThePast ==
  ASSUME NEW past \in Pasts, NEW row \in past
  PROVE  row.req \notin Posts
  BY IntakeAssumption DEF Posts

\* A behaviour starts with nothing sent.
LEMMA IntakeInitEstablishes == IntakeInit => IntakeInv
<1> SUFFICES ASSUME IntakeInit PROVE IntakeInv
  OBVIOUS
<1> USE IntakeAssumption DEF IntakeInit
<1>1. IntakeTypeOK
  BY DEF IntakeTypeOK, AllPassed, Sayable, Severities, Rules, Calls, Stages, Posts, Tries
<1>2. Trail
  BY DEF Trail, Posts, Tries
<1>3. AfterRules /\ SharesAddUp
  BY NoRequestOfThePast DEF AfterRules, SharesAddUp
<1>4. AtRules /\ CleanIsCaught /\ ListedIsRefused /\ OnlyListedIsBlocked
  BY DEF AtRules, CleanIsCaught, ListedIsRefused, OnlyListedIsBlocked
<1> QED
  BY <1>1, <1>2, <1>3, <1>4 DEF IntakeInv

\* The steps of the SDK touch neither rules nor rows.
LEMMA ClientPreserves ==
  ASSUME IntakeInv, NEW o \in Orders, Client(o)
  PROVE  IntakeInv'
<1> USE IntakeAssumption DEF IntakeInv, callVars, ruleVars, adminVars
<1>1. ASSUME NEW n \in Tries, Sends(o, n), point[<<o, n>>] = "none",
             \A m \in Tries : m < n => <<o, m>> \in given,
             \A m \in Tries : m > n => point[<<o, m>>] = "none"
      PROVE  IntakeInv'
  <2> USE <1>1 DEF Sends
  <2>1. IntakeTypeOK'
    BY DEF IntakeTypeOK, Calls, Stages, Posts
  <2>2. Trail'
    BY DEF Trail, IntakeTypeOK, Posts, Tries
  <2>3. (AfterRules /\ SharesAddUp)'
    BY DEF AfterRules, SharesAddUp, IntakeTypeOK
  <2>4. (AtRules /\ CleanIsCaught /\ ListedIsRefused /\ OnlyListedIsBlocked)'
    BY DEF AtRules, CleanIsCaught, ListedIsRefused, OnlyListedIsBlocked, FromListed, IntakeTypeOK
  <2> QED
    BY <2>1, <2>2, <2>3, <2>4
<1>2. ASSUME CreatePayment(o) PROVE IntakeInv'
  <2>1. /\ 0 \in Tries /\ Sends(o, 0)
        /\ \A m \in Tries : point[<<o, m>>] = "none" /\ ~(m < 0)
    BY <1>2 DEF CreatePayment, Trail, Tries
  <2> QED
    BY <1>1, <2>1
<1>3. ASSUME Resend(o) PROVE IntakeInv'
  <2> DEFINE n == attempt[o] + 1
  <2>1. attempt[o] \in Tries /\ n \in Tries
    BY <1>3 DEF Resend, Trail, IntakeTypeOK, Tries
  <2>2. \A m \in Tries : m > attempt[o] => point[<<o, m>>] = "none"
    BY DEF Trail
  <2>3. \A m \in Tries : m < n => <<o, m>> \in given
    BY <1>3, <2>1 DEF Resend, Trail, Tries
  <2>4. point[<<o, n>>] = "none" /\ \A m \in Tries : m > n => point[<<o, m>>] = "none"
    BY <2>1, <2>2 DEF Tries
  <2> QED
    BY <1>1, <1>3, <2>1, <2>3, <2>4 DEF Resend, NextTry
<1>4. ASSUME Throws(o) \/ TakesAnswer(o) PROVE IntakeInv'
  <2> USE <1>4 DEF Throws, TakesAnswer, Current
  <2>1. attempt[o] \in Tries /\ Current(o) \in Posts
    BY DEF IntakeTypeOK, Posts
  <2>2. IntakeTypeOK'
    BY <2>1 DEF IntakeTypeOK, Calls, Stages, Outcome
  <2>3. Trail'
    <3>1. /\ call' \in [Orders -> Calls] /\ point' \in [Posts -> Stages]
          /\ \A p \in Orders : call'[p] = "idle" => call[p] = "idle"
          /\ \A p \in Orders : call'[p] = "pause" /\ p # o => call[p] = "pause"
          /\ call'[o] = "pause" => attempt[o] < MaxRetries /\ Current(o) \in given'
      BY <2>1 DEF IntakeTypeOK, Calls, Stages, Outcome
    <3>2. given \subseteq given' /\ attempt' = attempt
      OBVIOUS
    <3>3. \A r \in Posts : point[r] = "none" => point'[r] = "none"
      BY <2>1 DEF IntakeTypeOK, Answers
    <3>4. \A p \in Orders, n \in Tries : <<p, n>> \in Posts
      BY DEF Posts
    <3>5. \A p \in Orders, n \in Tries :
            call'[p] = "idle" \/ n > attempt[p] => point'[<<p, n>>] = "none"
      BY <3>1, <3>3, <3>4 DEF Trail
    <3>6. ASSUME NEW p \in Orders, NEW n \in Tries,
                 n < attempt[p] \/ (n = attempt[p] /\ call'[p] = "pause")
          PROVE  <<p, n>> \in given'
      <4>1. CASE n < attempt[p] \/ p # o
        BY <3>1, <3>2, <3>6, <4>1 DEF Trail
      <4>2. CASE p = o /\ n = attempt[o]
        <5>1. n = attempt[o] => call'[o] = "pause"
          BY <2>1, <3>6, <4>2 DEF Tries
        <5> QED
          BY <3>1, <3>2, <4>2, <5>1 DEF Current
      <4> QED
        BY <3>6, <4>1, <4>2
    <3>7. \A p \in Orders : call'[p] = "pause" => attempt[p] < MaxRetries
      BY <3>1 DEF Trail
    <3> QED
      BY <3>2, <3>5, <3>6, <3>7 DEF Trail
  <2>4. (AfterRules /\ SharesAddUp)'
    BY <2>1 DEF AfterRules, SharesAddUp, IntakeTypeOK, Answers
  <2>5. (AtRules /\ CleanIsCaught /\ ListedIsRefused /\ OnlyListedIsBlocked)'
    BY <2>1 DEF AtRules, CleanIsCaught, ListedIsRefused, OnlyListedIsBlocked, FromListed,
       IntakeTypeOK, Answers
  <2> QED
    BY <2>2, <2>3, <2>4, <2>5
<1> QED
  BY <1>2, <1>3, <1>4 DEF Client

\* A step that moves a request on in the server keeps the trail of the attempts.
LEMMA TrailPreserved ==
  ASSUME Trail, UNCHANGED callVars,
         \A r \in Posts : point[r] = "none" => point'[r] = "none"
  PROVE  Trail'
  BY DEF Trail, callVars, Posts

\* A read of a rule, or its failure, keeps the invariant: only the address rule says 10.
LEMMA RulesPreserve ==
  ASSUME IntakeInv, NEW r \in Posts,
         \/ ReadAddress(r)
         \/ \E x \in VelocityReads : ReadVelocity(r, x)
         \/ \E x \in Reads : ReadFails(r, x)
  PROVE  IntakeInv'
<1> USE IntakeAssumption DEF IntakeInv, callVars, ruleVars, adminVars
<1>1. ASSUME ReadAddress(r) PROVE IntakeInv'
  <2> USE <1>1 DEF ReadAddress
  <2>1. AddressVerdict(FromListed(r)) \in {0, 10}
        /\ (FromListed(r) => AddressVerdict(FromListed(r)) = 10)
    BY DEF AddressVerdict
  <2>2. verdict[r] \in [Rules -> Severities]
    BY DEF IntakeTypeOK
  <2>3. /\ verdict'[r] = [verdict[r] EXCEPT !["address"] = AddressVerdict(FromListed(r))]
        /\ \A q \in Posts : q # r => verdict'[q] = verdict[q]
        /\ verdict' \in [Posts -> [Rules -> Severities]]
    BY <2>1, <2>2 DEF IntakeTypeOK, Rules, Severities
  <2>4. IntakeTypeOK'
    BY <2>1, <2>2, <2>3 DEF IntakeTypeOK, Sayable, Rules
  <2>5. Trail'
    BY TrailPreserved
  <2>6. (AfterRules /\ SharesAddUp /\ ListedIsRefused /\ AtRules)'
    BY DEF AfterRules, SharesAddUp, ListedIsRefused, AtRules, IntakeTypeOK
  <2>7. CleanIsCaught'
    BY <2>1, <2>2, <2>3 DEF CleanIsCaught, FromListed, IntakeTypeOK, Rules
  <2>8. OnlyListedIsBlocked'
    BY <2>3 DEF OnlyListedIsBlocked, AtRules, IntakeTypeOK
  <2> QED
    BY <2>4, <2>5, <2>6, <2>7, <2>8
<1>2. ASSUME NEW x \in VelocityReads, ReadVelocity(r, x) PROVE IntakeInv'
  <2> USE <1>2 DEF ReadVelocity
  <2> DEFINE severity == VelocityVerdict(x, Matching(r, WindowOf(x)), order[r[1]].amount)
  <2>1. severity \in {0, 8, 9}
    BY DEF VelocityVerdict
  <2>2. /\ verdict' = [verdict EXCEPT ![r]["velocity"] = severity]
        /\ x # "address"
        /\ \E next \in SUBSET VelocityReads :
             reading' = [reading EXCEPT ![r] = (@ \ {x}) \cup next]
    BY DEF VelocityReads, Following
  <2>3. r \in DOMAIN reading /\ reading[r] # {} /\ verdict[r] \in [Rules -> Severities]
    BY DEF IntakeTypeOK
  <2>4. UNCHANGED <<order, callVars, point, since, unread, rows, adminVars, now, mishaps, clean>>
    OBVIOUS
  <2> HIDE DEF ReadVelocity, severity
  <2>5. /\ verdict'[r] = [verdict[r] EXCEPT !["velocity"] = severity]
        /\ verdict'[r].address = verdict[r].address
        /\ \A q \in Posts : q # r => verdict'[q] = verdict[q]
        /\ verdict' \in [Posts -> [Rules -> Severities]]
    BY <2>1, <2>2, <2>3 DEF IntakeTypeOK, Rules, Severities
  <2>6. IntakeTypeOK'
    BY <2>1, <2>2, <2>3, <2>4, <2>5 DEF IntakeTypeOK, Sayable, Rules, Reads
  <2>7. Trail'
    BY <2>4, TrailPreserved
  <2>8. (AfterRules /\ SharesAddUp /\ ListedIsRefused)'
    BY <2>4 DEF AfterRules, SharesAddUp, ListedIsRefused
  <2>9. AtRules'
    BY <2>2, <2>3, <2>4 DEF AtRules, IntakeTypeOK
  <2>10. CleanIsCaught'
    BY <2>2, <2>3, <2>4, <2>5 DEF CleanIsCaught, FromListed, IntakeTypeOK
  <2>11. OnlyListedIsBlocked'
    BY <2>4, <2>5 DEF OnlyListedIsBlocked
  <2> QED
    BY <2>6, <2>7, <2>8, <2>9, <2>10, <2>11
<1>3. ASSUME NEW x \in Reads, ReadFails(r, x) PROVE IntakeInv'
  <2> USE <1>3 DEF ReadFails
  <2>1. IntakeTypeOK'
    BY DEF IntakeTypeOK, Reads
  <2>2. Trail'
    BY TrailPreserved
  <2>3. (AfterRules /\ SharesAddUp /\ ListedIsRefused /\ AtRules /\ OnlyListedIsBlocked)'
    BY DEF AfterRules, SharesAddUp, ListedIsRefused, AtRules, OnlyListedIsBlocked, IntakeTypeOK
  <2>4. CleanIsCaught'
    BY DEF CleanIsCaught, FromListed, IntakeTypeOK
  <2> QED
    BY <2>1, <2>2, <2>3, <2>4
<1> QED
  BY <1>1, <1>2, <1>3

\* Admission keeps the invariant, whether it starts the rules or refuses.
LEMMA AdmitPreserves ==
  ASSUME IntakeInv, NEW r \in Posts, Admit(r)
  PROVE  IntakeInv'
<1> USE DEF IntakeInv, callVars, adminVars
<1>1. UNCHANGED <<order, callVars, verdict, unread, rows, adminVars, now, mishaps>>
      /\ point[r] = "sent"
  BY DEF Admit
<1>2. \/ /\ point' = [point EXCEPT ![r] = "rules"]
         /\ since' = [since EXCEPT ![r] = now]
         /\ reading' = [reading EXCEPT ![r] = FirstReads]
         /\ clean' = IF FromListed(r) THEN clean \cup {r} ELSE clean
      \/ /\ \E answer \in {"refused", "over"} : point' = [point EXCEPT ![r] = answer]
         /\ UNCHANGED <<since, reading, clean>>
  BY DEF Admit, Reply
<1>3. IntakeTypeOK'
  BY <1>1, <1>2 DEF IntakeTypeOK, Stages, InServer, Answers, Reads, FirstReads
<1>4. Trail'
  BY <1>1, <1>2, TrailPreserved DEF IntakeTypeOK
<1>5. (AfterRules /\ SharesAddUp /\ ListedIsRefused)'
  BY <1>1, <1>2 DEF AfterRules, SharesAddUp, ListedIsRefused, IntakeTypeOK
<1>6. (AtRules /\ CleanIsCaught)'
  <2>1. point \in [Posts -> Stages] /\ reading \in [Posts -> SUBSET Reads]
        /\ clean \subseteq Posts
    BY DEF IntakeTypeOK
  <2>2. AtRules'
    BY <1>1, <1>2, <2>1 DEF AtRules
  <2>3. CleanIsCaught'
    BY <1>1, <1>2, <2>1 DEF CleanIsCaught, FromListed, FirstReads
  <2> QED
    BY <2>2, <2>3
<1>7. OnlyListedIsBlocked'
  BY <1>1, <1>2 DEF OnlyListedIsBlocked, IntakeTypeOK
<1> QED
  BY <1>3, <1>4, <1>5, <1>6, <1>7

\* Whatever the three rules of the score have to say, the address decides.
LEMMA TheAddressDecides ==
  ASSUME IntakeTypeOK, NEW r \in Posts, Decide(r)
  PROVE  point' = [point EXCEPT
           ![r] = IF verdict[r].address = 10 THEN "blocked" ELSE "accepted"]
<1>0. PICK live \in SUBSET Own(r) : \E rest \in RestOf(r, live) :
        point' = [point EXCEPT
          ![r] = IF ShouldBlock([verdict[r] EXCEPT !["customer"] = rest.customer,
                      !["duplicate"] = rest.duplicate, !["amount"] = rest.amount])
                 THEN "blocked" ELSE "accepted"]
  BY DEF Decide, CheckFraudDetection
<1>1. PICK rest \in RestOf(r, live) :
        point' = [point EXCEPT
          ![r] = IF ShouldBlock([verdict[r] EXCEPT !["customer"] = rest.customer,
                      !["duplicate"] = rest.duplicate, !["amount"] = rest.amount])
                 THEN "blocked" ELSE "accepted"]
  BY <1>0
<1> DEFINE v == [verdict[r] EXCEPT !["customer"] = rest.customer,
                   !["duplicate"] = rest.duplicate, !["amount"] = rest.amount]
<1>2. /\ rest.customer \in {0, 9} /\ rest.duplicate \in {0, 8}
      /\ rest.amount \in {0} \cup 5..9
  BY DEF RestOf, CustomerVerdict, DuplicateVerdict, AmountVerdict
<1>3. verdict[r] \in [Rules -> Severities] /\ \A x \in Rules : verdict[r][x] \in Sayable[x]
  BY DEF IntakeTypeOK
<1>4. v \in [Rules -> Severities]
  BY <1>2, <1>3 DEF Rules, Severities
<1>5. /\ v["customer"] = rest.customer /\ v["duplicate"] = rest.duplicate
      /\ v["amount"] = rest.amount
      /\ v["address"] = verdict[r]["address"] /\ v["velocity"] = verdict[r]["velocity"]
  BY <1>3 DEF Rules
<1>6. Said(v)
  BY <1>2, <1>3, <1>4, <1>5 DEF Said, Rules, Sayable
<1> QED
  BY <1>1, <1>5, <1>6, ScoreNeverDecides

\* The decision keeps the invariant: it blocks exactly the addresses that were found listed.
LEMMA DecidePreserves ==
  ASSUME IntakeInv, NEW r \in Posts, Decide(r)
  PROVE  IntakeInv'
<1> USE DEF IntakeInv, callVars, adminVars
<1>1. point' = [point EXCEPT ![r] = IF verdict[r].address = 10 THEN "blocked" ELSE "accepted"]
  BY TheAddressDecides
<1>2. /\ point[r] = "rules" /\ reading[r] = {}
      /\ since' = [since EXCEPT ![r] = 0]
      /\ UNCHANGED <<order, callVars, reading, verdict, unread, rows, adminVars, now, mishaps, clean>>
  BY DEF Decide, CheckFraudDetection
<1>3. IntakeTypeOK'
  BY <1>1, <1>2, IntakeAssumption DEF IntakeTypeOK, Stages, InServer, Answers
<1>4. Trail'
  BY <1>1, <1>2, TrailPreserved DEF IntakeTypeOK
<1>5. (AfterRules /\ SharesAddUp /\ ListedIsRefused)'
  BY <1>1, <1>2 DEF AfterRules, SharesAddUp, ListedIsRefused, IntakeTypeOK
<1>6. (AtRules /\ CleanIsCaught /\ OnlyListedIsBlocked)'
  BY <1>1, <1>2 DEF AtRules, CleanIsCaught, OnlyListedIsBlocked, FromListed, IntakeTypeOK
<1> QED
  BY <1>3, <1>4, <1>5, <1>6

\* The row and its shares keep the invariant; the request was accepted, so it is not a clean one.
LEMMA InsertPreserves ==
  ASSUME IntakeInv, NEW r \in Posts, Insert(r)
  PROVE  IntakeInv'
<1> USE DEF IntakeInv, callVars, adminVars
<1>1. PICK s \in SharesOf(order[r[1]].amount) :
        rows' = rows \cup
         {[req |-> r, of |-> order[r[1]].of, amount |-> order[r[1]].amount, at |-> now,
           unflagged |-> verdict[r].velocity = 0 /\ r \notin unread,
           platform |-> s.platform, psp |-> s.psp, net |-> s.net]}
  BY DEF Insert
<1> DEFINE new == [req |-> r, of |-> order[r[1]].of, amount |-> order[r[1]].amount, at |-> now,
                   unflagged |-> verdict[r].velocity = 0 /\ r \notin unread,
                   platform |-> s.platform, psp |-> s.psp, net |-> s.net]
<1>2. /\ point[r] = "accepted" /\ point' = [point EXCEPT ![r] = "inserted"]
      /\ verdict' = [verdict EXCEPT ![r] = AllPassed]
      /\ unread' = unread \ {r}
      /\ UNCHANGED <<order, callVars, since, reading, adminVars, now, mishaps, clean>>
  BY DEF Insert
<1>3. order[r[1]] \in Order
  BY IntakeAssumption DEF IntakeTypeOK, Posts
<1>4. /\ s.platform \in Nat /\ s.psp \in Nat /\ s.net \in Nat
      /\ Gap(order[r[1]].amount, s) <= 1
  BY <1>3, SharesNear, IntakeAssumption DEF SharesOf, Order
<1>5. new \in Row /\ Gap(new.amount, new) <= 1
  BY <1>3, <1>4 DEF Row, Order, IntakeTypeOK, Gap
<1>6. IntakeTypeOK'
  <2>1. AllPassed \in [Rules -> Severities] /\ \A x \in Rules : AllPassed[x] \in Sayable[x]
    BY DEF AllPassed, Severities, Sayable, Rules
  <2>2. rows' \subseteq Row
    BY <1>1, <1>5 DEF IntakeTypeOK
  <2> QED
    BY <1>2, <2>1, <2>2 DEF IntakeTypeOK, Stages, InServer
<1>7. Trail'
  BY <1>2, TrailPreserved DEF IntakeTypeOK
<1>8. SharesAddUp'
  BY <1>1, <1>5 DEF SharesAddUp
<1>9. AfterRules'
  BY <1>1, <1>2 DEF AfterRules, IntakeTypeOK
<1>10. r \notin clean
  BY <1>2 DEF CleanIsCaught
<1>11. ListedIsRefused'
  BY <1>1, <1>2, <1>10 DEF ListedIsRefused
<1>12. (AtRules /\ CleanIsCaught /\ OnlyListedIsBlocked)'
  BY <1>2, <1>10 DEF AtRules, CleanIsCaught, OnlyListedIsBlocked, FromListed, IntakeTypeOK
<1> QED
  BY <1>6, <1>7, <1>8, <1>9, <1>11, <1>12

\* The ends of a request, the administration and the clock.
LEMMA EndsPreserve ==
  ASSUME IntakeInv,
         \/ \E r \in Posts : Finish(r) \/ Fails(r)
         \/ ServerDies
  PROVE  IntakeInv'
<1> USE DEF IntakeInv, callVars, ruleVars, adminVars
<1> DEFINE Ended ==
      /\ UNCHANGED <<order, callVars, since, verdict, unread, rows, adminVars, now, clean>>
      /\ reading' \in {reading, [r \in Posts |-> {}]} /\ mishaps' \in 0..Mishaps
      /\ point' \in [Posts -> Stages]
      /\ \A r \in Posts :
           \/ point'[r] = point[r] /\ (reading'[r] # {} => reading[r] # {})
           \/ /\ point[r] \in {"sent", "accepted", "inserted"}
              /\ point'[r] \in {"ok", "error", "over"} /\ reading' = reading
           \/ point[r] \in InServer /\ point'[r] = "over" /\ reading'[r] = {}
      /\ reading' = reading \/ \A r \in Posts : reading'[r] = {} /\ point'[r] # "rules"
<1>1. Ended
  <2> USE IntakeAssumption DEF IntakeTypeOK, Stages, InServer, Answers
  <2>1. ASSUME NEW r \in Posts, Finish(r) \/ Fails(r) PROVE Ended
    BY <2>1 DEF Finish, Fails, Reply
  <2>2. ASSUME ServerDies PROVE Ended
    BY <2>2 DEF ServerDies
  <2> QED
    BY <2>1, <2>2
<1>2. IntakeTypeOK'
  BY <1>1, IntakeAssumption DEF IntakeTypeOK
<1>3. Trail'
  BY <1>1, TrailPreserved DEF InServer
<1>4. (SharesAddUp /\ ListedIsRefused)'
  BY <1>1 DEF SharesAddUp, ListedIsRefused
<1>5. AfterRules'
  BY <1>1 DEF AfterRules, InServer
<1>6. (AtRules /\ OnlyListedIsBlocked)'
  BY <1>1 DEF AtRules, OnlyListedIsBlocked, InServer
<1>7. CleanIsCaught'
  BY <1>1 DEF CleanIsCaught, FromListed, InServer, IntakeTypeOK
<1> QED
  BY <1>2, <1>3, <1>4, <1>5, <1>6, <1>7

\* Administrators and the clock keep the invariant.
LEMMA OthersPreserve ==
  ASSUME IntakeInv,
         \/ \E a \in Addresses : Blacklist(a) \/ Unlist(a)
         \/ \E i \in Identifiers : MarkHighRisk(i) \/ MarkLapses(i)
         \/ TimePasses
         \/ UNCHANGED intakeVars
  PROVE  IntakeInv'
<1> USE DEF IntakeInv, callVars, ruleVars, adminVars, intakeVars, Blacklist, Unlist,
        MarkHighRisk, MarkLapses, TimePasses
<1>1. /\ UNCHANGED <<order, callVars, point, ruleVars, rows, mishaps>>
      /\ clean' \subseteq clean
      /\ \A r \in clean' : order[r[1]].from \in listed => order[r[1]].from \in listed'
  OBVIOUS
<1>2. IntakeTypeOK'
  BY IntakeAssumption DEF IntakeTypeOK
<1> HIDE DEF Blacklist, Unlist, MarkHighRisk, MarkLapses, TimePasses
<1>3. Trail'
  BY <1>1, TrailPreserved
<1>4. (AfterRules /\ SharesAddUp /\ ListedIsRefused /\ AtRules /\ OnlyListedIsBlocked)'
  BY <1>1 DEF AfterRules, SharesAddUp, ListedIsRefused, AtRules, OnlyListedIsBlocked
<1>5. CleanIsCaught'
  BY <1>1 DEF CleanIsCaught, FromListed
<1> QED
  BY <1>2, <1>3, <1>4, <1>5

\* Every step of the intake keeps the invariant.
LEMMA IntakeInductive == IntakeInv /\ [IntakeNext]_intakeVars => IntakeInv'
<1> SUFFICES ASSUME IntakeInv, [IntakeNext]_intakeVars PROVE IntakeInv'
  OBVIOUS
<1> QED
  BY ClientPreserves, RulesPreserve, AdmitPreserves, DecidePreserves, InsertPreserves,
     EndsPreserve, OthersPreserve
  DEF IntakeNext, Server

\* The invariant holds throughout.
LEMMA AlwaysIntakeInv == IntakeSpec => []IntakeInv
<1> QED
  BY IntakeInitEstablishes, IntakeInductive, PTL DEF IntakeSpec

\* Calls, requests, verdicts and rows stay within what the SDK, the rules and the
\* creator give them.
THEOREM IntakeTypeCorrect == IntakeSpec => []IntakeTypeOK
<1>1. IntakeInv => IntakeTypeOK
  BY DEF IntakeInv
<1> QED
  BY AlwaysIntakeInv, <1>1, PTL

\* The blacklist holds against any interleaving of rules, retries and administrators:
\* shouldBlock refuses every request from an address listed since it came.
THEOREM ListedIsRefusedCorrect == IntakeSpec => []ListedIsRefused
<1>1. IntakeInv => ListedIsRefused
  BY DEF IntakeInv
<1> QED
  BY AlwaysIntakeInv, <1>1, PTL

\* Nothing else refuses a payment: the other rules, whatever they find, only raise a
\* score that no one acts on.
THEOREM OnlyListedIsBlockedCorrect == IntakeSpec => []OnlyListedIsBlocked
<1>1. IntakeInv => OnlyListedIsBlocked
  BY DEF IntakeInv
<1> QED
  BY AlwaysIntakeInv, <1>1, PTL

\* The shares CommissionService.calculate writes are one kurus off at most, for every
\* amount and every pair of rates.
THEOREM SharesAddUpCorrect == IntakeSpec => []SharesAddUp
<1>1. IntakeInv => SharesAddUp
  BY DEF IntakeInv
<1> QED
  BY AlwaysIntakeInv, <1>1, PTL

\* fetchWithRetry sends again only after an exception: of two rows of one order, the
\* earlier belongs to an attempt given up.
THEOREM TwiceOnlyWhenLostCorrect == IntakeSpec => []TwiceOnlyWhenLost
<1>1. IntakeInv => TwiceOnlyWhenLost
  <2> SUFFICES ASSUME IntakeInv, NEW one \in rows, NEW other \in rows,
                      one.req[1] = other.req[1], one.req[1] \in Orders,
                      one.req[2] < other.req[2]
               PROVE  one.req \in given
    BY DEF TwiceOnlyWhenLost
  <2> DEFINE o == one.req[1]
             n == one.req[2]
             m == other.req[2]
  <2>1. one \in Row /\ other \in Row
    BY DEF IntakeInv, IntakeTypeOK
  <2>2. one.req = <<o, n>> /\ other.req = <<o, m>> /\ n \in Tries /\ m \in Tries
    BY <2>1, IntakeAssumption DEF Row, Posts
  <2>3. <<o, m>> \in Posts /\ point[<<o, m>>] # "none"
    BY <2>2 DEF IntakeInv, AfterRules, Posts
  <2>4. ~(m > attempt[o])
    BY <2>2, <2>3 DEF IntakeInv, Trail
  <2>5. n < attempt[o]
    BY <2>2, <2>4 DEF IntakeInv, IntakeTypeOK, Tries
  <2> QED
    BY <2>2, <2>5 DEF IntakeInv, Trail
<1> QED
  BY AlwaysIntakeInv, <1>1, PTL

(***************************************************************************)
(* The overrun of the hourly limit.  A request passes the hourly count     *)
(* when it sees fewer rows than the limit; until it is inserted it may add *)
(* one row that others have not seen.  At any time the rows of an hour     *)
(* that has not ended, with the requests that have passed and not yet been *)
(* inserted, stay within the bound.                                        *)
(***************************************************************************)
Serving == {r \in Posts : point[r] \in InServer}

Passing(r) ==
  /\ point[r] \in {"rules", "accepted"} /\ "hourCount" \notin reading[r]
  /\ verdict[r]["velocity"] = 0 /\ r \notin unread
Passed(w) == {r \in Posts : Passing(r) /\ w \in order[r[1]].of}

\* The velocity rule makes one read at a time and has found nothing while it reads.
InTurn ==
  \A r \in Posts :
    /\ reading[r] # {} => since[r] <= now
    /\ point[r] \in {"none", "sent"} => verdict[r]["velocity"] = 0
    /\ reading[r] \cap VelocityReads # {} => verdict[r]["velocity"] = 0
    /\ \A x, y \in reading[r] \cap VelocityReads : x = y

Bounded(w, t) ==
  /\ Cardinality(Unflagged(rows, w, t)) <= PerHour + AtOnce - 1
  /\ now <= t + Hour =>
       Cardinality(Unflagged(rows, w, t)) + Cardinality(Passed(w)) <= PerHour + AtOnce - 1

Overrun ==
  /\ IsFiniteSet(rows)
  /\ IsFiniteSet(Serving) /\ Cardinality(Serving) <= AtOnce
  /\ \A w \in Who, t \in 0..MaxNow : Bounded(w, t)

\* A behaviour starts with nobody in the server and a past within the bound.
LEMMA OverrunInit == IntakeInit => InTurn /\ Overrun
<1> SUFFICES ASSUME IntakeInit PROVE InTurn /\ Overrun
  OBVIOUS
<1>1. InTurn
  BY DEF IntakeInit, InTurn, AllPassed, Rules
<1>2. Serving = {} /\ \A w \in Who : Passed(w) = {}
  BY DEF IntakeInit, Serving, Passed, Passing, InServer
<1>3. rows \in Pasts /\ IsFiniteSet(rows) /\ WithinOverrun(rows)
  BY IntakeAssumption DEF IntakeInit
<1>4. ASSUME NEW w \in Who, NEW t \in 0..MaxNow PROVE Bounded(w, t)
  <2>1. Cardinality(Unflagged(rows, w, t)) <= PerHour + AtOnce - 1
    BY <1>3 DEF WithinOverrun
  <2>2. Cardinality(Unflagged(rows, w, t)) \in Nat
    BY <1>3, FS_Subset, FS_CardinalityType DEF Unflagged
  <2>3. Cardinality(Passed(w)) = 0
    BY <1>2, FS_EmptySet
  <2> QED
    BY <2>1, <2>2, <2>3 DEF Bounded
<1> QED
  BY <1>1, <1>2, <1>3, <1>4, FS_EmptySet, IntakeAssumption DEF Overrun

\* Only these change what the velocity rule has found, and how they do.
LEMMA InTurnInductive == IntakeInv /\ InTurn /\ [IntakeNext]_intakeVars => InTurn'
<1> SUFFICES ASSUME IntakeInv, InTurn, [IntakeNext]_intakeVars PROVE InTurn'
  OBVIOUS
<1> USE DEF callVars, ruleVars, adminVars
<1>0. IntakeTypeOK /\ Trail /\ AtRules
  BY DEF IntakeInv
<1>1. ASSUME NEW o \in Orders, Client(o) PROVE InTurn'
  <2>1. UNCHANGED <<since, reading, verdict, now>>
    BY <1>1 DEF Client, CreatePayment, Resend, Sends, Throws, TakesAnswer
  <2>2. \A r \in Posts : point'[r] \in {"none", "sent"} => point[r] \in {"none", "sent"}
    <3>1. ASSUME NEW n \in Tries, Sends(o, n), point[<<o, n>>] = "none"
          PROVE  \A r \in Posts : point'[r] \in {"none", "sent"} => point[r] \in {"none", "sent"}
      BY <1>0, <3>1 DEF Sends, IntakeTypeOK
    <3>2. CASE CreatePayment(o)
      <4>1. 0 \in Tries /\ point[<<o, 0>>] = "none"
        BY <1>0, <3>2, IntakeAssumption DEF CreatePayment, Trail, Tries
      <4> QED
        BY <3>1, <3>2, <4>1 DEF CreatePayment
    <3>3. CASE Resend(o)
      <4>1. NextTry(o) \in Tries /\ NextTry(o) > attempt[o]
        BY <1>0, <3>3, IntakeAssumption DEF Resend, NextTry, Trail, IntakeTypeOK, Tries
      <4>2. point[<<o, NextTry(o)>>] = "none"
        BY <1>0, <4>1 DEF Trail
      <4> QED
        BY <3>1, <3>3, <4>1, <4>2 DEF Resend
    <3>4. CASE Throws(o) \/ TakesAnswer(o)
      BY <1>0, <3>4 DEF Throws, TakesAnswer, IntakeTypeOK
    <3> QED
      BY <1>1, <3>2, <3>3, <3>4 DEF Client
  <2> QED
    BY <2>1, <2>2 DEF InTurn
<1>2. ASSUME NEW r \in Posts, Admit(r) PROVE InTurn'
  <2>1. /\ point[r] = "sent" /\ UNCHANGED <<verdict, now>>
        /\ \/ /\ point' = [point EXCEPT ![r] = "rules"]
              /\ since' = [since EXCEPT ![r] = now]
              /\ reading' = [reading EXCEPT ![r] = FirstReads]
           \/ /\ \E answer \in {"refused", "over"} : point' = [point EXCEPT ![r] = answer]
              /\ UNCHANGED <<since, reading>>
    BY <1>2 DEF Admit, Reply
  <2>2. now <= now
    BY <1>0, IntakeAssumption DEF IntakeTypeOK
  <2> QED
    BY <1>0, <2>1, <2>2 DEF InTurn, IntakeTypeOK, FirstReads, VelocityReads
<1>3. ASSUME NEW r \in Posts, ReadAddress(r) PROVE InTurn'
  <2>1. /\ reading' = [reading EXCEPT ![r] = @ \ {"address"}]
        /\ UNCHANGED <<point, since, now>>
        /\ \A q \in Posts : verdict'[q]["velocity"] = verdict[q]["velocity"]
    BY <1>0, <1>3 DEF ReadAddress, IntakeTypeOK, Rules
  <2> QED
    BY <1>0, <2>1 DEF InTurn, IntakeTypeOK
<1>4. ASSUME NEW r \in Posts, NEW x \in VelocityReads, ReadVelocity(r, x) PROVE InTurn'
  <2> DEFINE severity == VelocityVerdict(x, Matching(r, WindowOf(x)), order[r[1]].amount)
  <2>1. /\ x \in reading[r]
        /\ reading' = [reading EXCEPT ![r] = (@ \ {x}) \cup
                         (IF severity = 0 THEN Following(x) ELSE {})]
        /\ verdict' = [verdict EXCEPT ![r]["velocity"] = severity]
        /\ UNCHANGED <<point, since, now>>
    BY <1>4 DEF ReadVelocity
  <2> HIDE DEF severity
  <2>2. /\ verdict'[r]["velocity"] = severity
        /\ \A q \in Posts : q # r => verdict'[q] = verdict[q]
    BY <1>0, <2>1 DEF IntakeTypeOK, Rules
  <2>3. point[r] = "rules"
    BY <1>0, <2>1 DEF AtRules
  <2>4. (reading[r] \ {x}) \cap VelocityReads = {}
    BY <2>1 DEF InTurn
  <2>5. \A y, z \in Following(x) : y = z
    BY DEF Following
  <2>6. reading'[r] = (reading[r] \ {x}) \cup (IF severity = 0 THEN Following(x) ELSE {})
    BY <1>0, <2>1 DEF IntakeTypeOK
  <2>7. \A q \in Posts : q # r => reading'[q] = reading[q]
    BY <1>0, <2>1 DEF IntakeTypeOK
  <2>8. /\ reading'[r] \cap VelocityReads # {} => severity = 0
        /\ \A y, z \in reading'[r] \cap VelocityReads : y = z
    BY <2>4, <2>5, <2>6
  <2>9. since[r] <= now /\ reading[r] # {}
    BY <2>1 DEF InTurn
  <2> QED
    BY <2>1, <2>2, <2>3, <2>7, <2>8, <2>9 DEF InTurn
<1>5. ASSUME NEW r \in Posts, NEW x \in Reads, ReadFails(r, x) PROVE InTurn'
  BY <1>0, <1>5 DEF ReadFails, InTurn, IntakeTypeOK
<1>6. ASSUME NEW r \in Posts, Decide(r) PROVE InTurn'
  <2>1. /\ reading[r] = {} /\ since' = [since EXCEPT ![r] = 0]
        /\ point' = [point EXCEPT ![r] = IF verdict[r].address = 10 THEN "blocked" ELSE "accepted"]
        /\ UNCHANGED <<reading, verdict, now>>
    BY <1>0, <1>6, TheAddressDecides DEF Decide
  <2> QED
    BY <1>0, <2>1 DEF InTurn, IntakeTypeOK
<1>7. ASSUME NEW r \in Posts, Insert(r) PROVE InTurn'
  BY <1>0, <1>7 DEF Insert, InTurn, IntakeTypeOK, AllPassed, Rules
<1>8. ASSUME NEW r \in Posts, Finish(r) \/ Fails(r) PROVE InTurn'
  BY <1>0, <1>8 DEF Finish, Fails, Reply, InTurn, IntakeTypeOK
<1>9. ASSUME ServerDies PROVE InTurn'
  BY <1>0, <1>9 DEF ServerDies, InTurn, IntakeTypeOK
<1>10. CASE \/ \E a \in Addresses : Blacklist(a) \/ Unlist(a)
            \/ \E i \in Identifiers : MarkHighRisk(i) \/ MarkLapses(i)
            \/ UNCHANGED intakeVars
  BY <1>10 DEF Blacklist, Unlist, MarkHighRisk, MarkLapses, intakeVars, InTurn
<1>11. CASE TimePasses
  <2>1. now \in Int /\ \A r \in Posts : since[r] \in Int
    BY <1>0, IntakeAssumption DEF IntakeTypeOK
  <2> QED
    BY <1>11, <2>1 DEF TimePasses, InTurn
<1> QED
  BY <1>1, <1>2, <1>3, <1>4, <1>5, <1>6, <1>7, <1>8, <1>9, <1>10, <1>11 DEF IntakeNext, Server

\* The requests in the server that passed are among those in the server, the unflagged
\* rows among the rows: they can be counted.
LEMMA Countable ==
  ASSUME Overrun, NEW w, NEW t
  PROVE  /\ IsFiniteSet(Unflagged(rows, w, t)) /\ Cardinality(Unflagged(rows, w, t)) \in Nat
         /\ IsFiniteSet(Passed(w)) /\ Cardinality(Passed(w)) \in Nat
         /\ Cardinality(Passed(w)) <= AtOnce
         /\ Cardinality(Serving) \in Nat
<1>1. Unflagged(rows, w, t) \subseteq rows /\ Passed(w) \subseteq Serving
  BY DEF Unflagged, Passed, Passing, Serving, InServer
<1>2. /\ IsFiniteSet(Unflagged(rows, w, t)) /\ IsFiniteSet(Passed(w))
      /\ Cardinality(Passed(w)) <= Cardinality(Serving)
  BY <1>1, FS_Subset DEF Overrun
<1>3. /\ Cardinality(Unflagged(rows, w, t)) \in Nat /\ Cardinality(Passed(w)) \in Nat
      /\ Cardinality(Serving) \in Nat /\ Cardinality(Serving) <= AtOnce
  BY <1>2, FS_CardinalityType DEF Overrun
<1> QED
  BY <1>2, <1>3, IntakeAssumption

\* A step that inserts no row and lets no request pass keeps the bound.
LEMMA CalmKeepsBound ==
  ASSUME IntakeTypeOK, IntakeTypeOK', Overrun, rows' = rows, order' = order, now <= now',
         IsFiniteSet(Serving'), Cardinality(Serving') <= AtOnce,
         \A r \in Posts : Passing(r)' => Passing(r)
  PROVE  Overrun'
<1> SUFFICES ASSUME NEW w \in Who, NEW t \in 0..MaxNow PROVE Bounded(w, t)'
  BY DEF Overrun
<1>1. Unflagged(rows, w, t)' = Unflagged(rows, w, t)
  BY DEF Unflagged
<1>2. Passed(w)' \subseteq Passed(w)
  BY DEF Passed
<1>3. /\ IsFiniteSet(Passed(w)) /\ Cardinality(Passed(w)) \in Nat
      /\ Cardinality(Unflagged(rows, w, t)) \in Nat
  BY Countable
<1>4. Cardinality(Passed(w)') \in Nat /\ Cardinality(Passed(w)') <= Cardinality(Passed(w))
  BY <1>2, <1>3, FS_Subset, FS_CardinalityType
<1>5. now' <= t + Hour => now <= t + Hour
  BY IntakeAssumption DEF IntakeTypeOK
<1>6. Bounded(w, t)
  BY DEF Overrun
<1> QED
  BY <1>1, <1>3, <1>4, <1>5, <1>6, IntakeAssumption DEF Bounded

\* The same when nobody comes into the server either.
LEMMA QuietKeepsBound ==
  ASSUME IntakeTypeOK, IntakeTypeOK', Overrun, rows' = rows, order' = order, now <= now',
         \A r \in Posts : point'[r] \in InServer => point[r] \in InServer,
         \A r \in Posts : Passing(r)' => Passing(r)
  PROVE  Overrun'
<1>1. Serving' \subseteq Serving
  BY DEF Serving
<1>2. IsFiniteSet(Serving') /\ Cardinality(Serving') <= Cardinality(Serving)
      /\ Cardinality(Serving) <= AtOnce
  BY <1>1, FS_Subset DEF Overrun
<1>3. Cardinality(Serving') \in Nat /\ Cardinality(Serving) \in Nat
  BY <1>2, FS_CardinalityType DEF Overrun
<1>4. Cardinality(Serving') <= AtOnce
  BY <1>2, <1>3, IntakeAssumption
<1> QED
  BY <1>2, <1>4, CalmKeepsBound

\* A request that passes the hourly count saw fewer rows than the limit in every hour
\* that has not ended, and all who may still insert are in the server.
LEMMA PassKeepsBound ==
  ASSUME IntakeInv, IntakeInv', InTurn, Overrun,
         NEW r \in Posts, ReadVelocity(r, "hourCount"), verdict'[r]["velocity"] = 0
  PROVE  Overrun'
<1>0. IntakeTypeOK /\ IntakeTypeOK'
  BY DEF IntakeInv
<1>1. /\ "hourCount" \in reading[r]
      /\ UNCHANGED <<order, point, since, unread, rows, now>>
      /\ verdict' = [verdict EXCEPT
           ![r]["velocity"] = VelocityVerdict("hourCount", Matching(r, Hour), order[r[1]].amount)]
      /\ \A q \in Posts : q # r => reading'[q] = reading[q]
  BY <1>0 DEF ReadVelocity, WindowOf, IntakeTypeOK
<1>2. ~(Cardinality(Matching(r, Hour)) >= PerHour)
  <2>1. VelocityVerdict("hourCount", Matching(r, Hour), order[r[1]].amount) = 0
    BY <1>0, <1>1 DEF IntakeTypeOK, Rules
  <2> QED
    BY <2>1 DEF VelocityVerdict
<1>3. IsFiniteSet(Matching(r, Hour)) /\ Cardinality(Matching(r, Hour)) <= PerHour - 1
  <2>1. IsFiniteSet(Matching(r, Hour))
    BY FS_Subset DEF Matching, Overrun
  <2>2. Cardinality(Matching(r, Hour)) \in Nat
    BY <2>1, FS_CardinalityType
  <2> QED
    BY <1>2, <2>1, <2>2, IntakeAssumption
<1>4. since[r] <= now /\ since[r] \in Nat /\ now \in Nat
  BY <1>0, <1>1, IntakeAssumption DEF InTurn, IntakeTypeOK
<1>5. Serving' = Serving
  BY <1>1 DEF Serving
<1>6. ASSUME NEW w \in Who PROVE IsFiniteSet(Passed(w)') /\ Cardinality(Passed(w)') <= AtOnce
                                 /\ Cardinality(Passed(w)') \in Nat
  <2>1. Passed(w)' \subseteq Serving
    BY <1>1 DEF Passed, Passing, Serving, InServer
  <2>2. IsFiniteSet(Passed(w)') /\ Cardinality(Passed(w)') <= Cardinality(Serving)
    BY <2>1, FS_Subset DEF Overrun
  <2>3. Cardinality(Passed(w)') \in Nat /\ Cardinality(Serving) \in Nat
    BY <2>2, FS_CardinalityType DEF Overrun
  <2> QED
    BY <2>2, <2>3, IntakeAssumption DEF Overrun
<1>7. \A q \in Posts : q # r => (Passing(q)' <=> Passing(q))
  <2>1. \A q \in Posts : q # r => verdict'[q] = verdict[q]
    BY <1>0, <1>1 DEF IntakeTypeOK
  <2> QED
    BY <1>1, <2>1 DEF Passing
<1>8. ASSUME NEW w \in Who, NEW t \in 0..MaxNow PROVE Bounded(w, t)'
  <2>0. /\ Bounded(w, t) /\ Cardinality(Unflagged(rows, w, t)) \in Nat
        /\ Unflagged(rows, w, t)' = Unflagged(rows, w, t)
    BY <1>1, Countable DEF Overrun, Unflagged
  <2>1. CASE w \in order[r[1]].of /\ now <= t + Hour
    <3>1. Unflagged(rows, w, t) \subseteq Matching(r, Hour)
      <4> SUFFICES ASSUME NEW row \in rows, w \in row.of, row.at \in t..(t + Hour)
                   PROVE  row \in Matching(r, Hour)
        BY DEF Unflagged
      <4>1. row.at + Hour >= since[r]
        BY <1>4, <2>1, IntakeAssumption
      <4>2. SameCustomer(r, row)
        BY <2>1 DEF SameCustomer
      <4> QED
        BY <4>1, <4>2 DEF Matching
    <3>2. Cardinality(Unflagged(rows, w, t)) <= Cardinality(Matching(r, Hour))
          /\ Cardinality(Matching(r, Hour)) \in Nat
      BY <1>3, <3>1, FS_Subset, FS_CardinalityType
    <3> QED
      BY <1>3, <1>6, <2>0, <3>2, IntakeAssumption DEF Bounded
  <2>2. CASE w \notin order[r[1]].of
    <3>1. Passed(w)' = Passed(w)
      BY <1>1, <1>7, <2>2 DEF Passed
    <3> QED
      BY <1>1, <2>0, <3>1 DEF Bounded
  <2>3. CASE ~(now <= t + Hour)
    BY <1>1, <2>0, <2>3 DEF Bounded
  <2> QED
    BY <2>1, <2>2, <2>3
<1> QED
  BY <1>1, <1>5, <1>8 DEF Overrun

\* An insertion puts in one row for one request that had passed.
LEMMA InsertKeepsBound ==
  ASSUME IntakeInv, IntakeInv', InTurn, Overrun, NEW r \in Posts, Insert(r)
  PROVE  Overrun'
<1>0. IntakeTypeOK /\ IntakeTypeOK' /\ AtRules
  BY DEF IntakeInv
<1>1. PICK new :
        /\ rows' = rows \cup {new} /\ new.at = now /\ new.of = order[r[1]].of
        /\ new.unflagged => verdict[r]["velocity"] = 0 /\ r \notin unread
  <2>1. PICK s \in SharesOf(order[r[1]].amount) :
          rows' = rows \cup
           {[req |-> r, of |-> order[r[1]].of, amount |-> order[r[1]].amount, at |-> now,
             unflagged |-> verdict[r].velocity = 0 /\ r \notin unread,
             platform |-> s.platform, psp |-> s.psp, net |-> s.net]}
    BY DEF Insert
  <2> DEFINE row == [req |-> r, of |-> order[r[1]].of, amount |-> order[r[1]].amount, at |-> now,
                     unflagged |-> verdict[r].velocity = 0 /\ r \notin unread,
                     platform |-> s.platform, psp |-> s.psp, net |-> s.net]
  <2>2. /\ row.at = now /\ row.of = order[r[1]].of
        /\ row.unflagged => verdict[r]["velocity"] = 0 /\ r \notin unread
    OBVIOUS
  <2>3. rows' = rows \cup {row}
    BY <2>1
  <2> HIDE DEF row
  <2> QED
    BY <2>2, <2>3
<1>2. /\ point[r] = "accepted" /\ point' = [point EXCEPT ![r] = "inserted"]
      /\ verdict' = [verdict EXCEPT ![r] = AllPassed]
      /\ unread' = unread \ {r}
      /\ UNCHANGED <<order, since, reading, now>>
  BY DEF Insert
<1>3. Serving' = Serving
  BY <1>0, <1>2 DEF Serving, InServer, IntakeTypeOK
<1>4. IsFiniteSet(rows')
  BY <1>1, FS_AddElement DEF Overrun
<1>5. reading[r] = {}
  BY <1>0, <1>2 DEF AtRules
<1>6. ~Passing(r)' /\ \A q \in Posts : q # r => (Passing(q)' <=> Passing(q))
  BY <1>0, <1>2 DEF Passing, IntakeTypeOK
<1>7. \A w \in Who : Passed(w)' = Passed(w) \ {r}
  BY <1>2, <1>6 DEF Passed
<1>8. ASSUME NEW w \in Who, NEW t \in 0..MaxNow PROVE Bounded(w, t)'
  <2> DEFINE n == Cardinality(Unflagged(rows, w, t))
             m == Cardinality(Passed(w))
  <2>0. /\ Bounded(w, t) /\ IsFiniteSet(Unflagged(rows, w, t)) /\ n \in Nat
        /\ IsFiniteSet(Passed(w)) /\ m \in Nat
    BY Countable DEF Overrun
  <2>1. CASE new.unflagged /\ w \in new.of /\ now <= t + Hour /\ new.at \in t..(t + Hour)
    <3>1. Unflagged(rows', w, t) = Unflagged(rows, w, t) \cup {new}
      BY <1>1, <2>1 DEF Unflagged
    <3>2. Cardinality(Unflagged(rows', w, t)) <= n + 1
          /\ Cardinality(Unflagged(rows', w, t)) \in Nat
      <4>1. Cardinality(Unflagged(rows, w, t) \cup {new})
              = IF new \in Unflagged(rows, w, t) THEN n ELSE n + 1
        BY <2>0, FS_AddElement
      <4>2. n \in Nat
        BY <2>0
      <4> HIDE DEF n, m
      <4> QED
        BY <3>1, <4>1, <4>2
    <3>3. r \in Passed(w)
      BY <1>1, <1>2, <1>5, <2>1 DEF Passed, Passing
    <3>4. Cardinality(Passed(w)') = m - 1
      BY <1>7, <2>0, <3>3, FS_RemoveElement
    <3>5. n + m <= PerHour + AtOnce - 1
      BY <2>0, <2>1 DEF Bounded
    <3>6. Cardinality(Passed(w)') \in Nat
      BY <1>7, <2>0, FS_RemoveElement, FS_CardinalityType
    <3> HIDE DEF n, m
    <3> QED
      BY <1>2, <2>0, <3>2, <3>4, <3>5, <3>6, IntakeAssumption DEF Bounded
  <2>2. CASE ~(new.unflagged /\ w \in new.of /\ now <= t + Hour /\ new.at \in t..(t + Hour))
    <3>1. new.at \in t..(t + Hour) => now <= t + Hour
      BY <1>1
    <3>2. Unflagged(rows', w, t) = Unflagged(rows, w, t)
      BY <1>1, <2>2, <3>1 DEF Unflagged
    <3>3. Cardinality(Passed(w)') \in Nat /\ Cardinality(Passed(w)') <= m
      BY <1>7, <2>0, FS_Subset, FS_CardinalityType
    <3> HIDE DEF n, m
    <3> QED
      BY <1>2, <2>0, <3>2, <3>3, IntakeAssumption DEF Bounded, n, m
  <2> QED
    BY <2>1, <2>2
<1> QED
  BY <1>3, <1>4, <1>8 DEF Overrun

\* Every step of the intake keeps the bound.
LEMMA OverrunInductive ==
  IntakeInv /\ IntakeInv' /\ InTurn /\ Overrun /\ [IntakeNext]_intakeVars => Overrun'
<1> SUFFICES ASSUME IntakeInv, IntakeInv', InTurn, Overrun, [IntakeNext]_intakeVars
             PROVE  Overrun'
  OBVIOUS
<1> USE DEF callVars, ruleVars, adminVars
<1>0. IntakeTypeOK /\ IntakeTypeOK' /\ AtRules /\ now \in Int
  BY IntakeAssumption DEF IntakeInv, IntakeTypeOK
<1>1. ASSUME NEW o \in Orders, Client(o) PROVE Overrun'
  <2>1. UNCHANGED <<order, reading, verdict, unread, rows, now>>
    BY <1>1 DEF Client, CreatePayment, Resend, Sends, Throws, TakesAnswer
  <2>2. \A r \in Posts : point'[r] = point[r] \/ point'[r] \in {"sent", "over"}
    BY <1>0, <1>1 DEF Client, CreatePayment, Resend, Sends, Throws, TakesAnswer, IntakeTypeOK
  <2> QED
    BY <1>0, <2>1, <2>2, QuietKeepsBound DEF Passing, InServer
<1>2. ASSUME NEW r \in Posts, Admit(r) PROVE Overrun'
  <2>1. /\ Cardinality(Serving) < AtOnce
        /\ UNCHANGED <<order, verdict, unread, rows, now>>
        /\ point[r] = "sent"
        /\ \/ /\ point' = [point EXCEPT ![r] = "rules"]
              /\ reading' = [reading EXCEPT ![r] = FirstReads]
           \/ /\ \E answer \in {"refused", "over"} : point' = [point EXCEPT ![r] = answer]
              /\ UNCHANGED reading
    BY <1>2 DEF Admit, Reply, Serving
  <2>2. Serving' \subseteq Serving \cup {r}
    BY <1>0, <2>1 DEF Serving, IntakeTypeOK, InServer
  <2>3. IsFiniteSet(Serving \cup {r}) /\ Cardinality(Serving \cup {r}) <= Cardinality(Serving) + 1
    <3>1. IsFiniteSet(Serving) /\ Cardinality(Serving) \in Nat
      BY FS_CardinalityType DEF Overrun
    <3> QED
      BY <3>1, FS_AddElement
  <2>4. IsFiniteSet(Serving') /\ Cardinality(Serving') <= Cardinality(Serving \cup {r})
    BY <2>2, <2>3, FS_Subset
  <2>5. /\ Cardinality(Serving') \in Nat /\ Cardinality(Serving \cup {r}) \in Nat
        /\ Cardinality(Serving) \in Nat
    BY <2>3, <2>4, FS_CardinalityType DEF Overrun
  <2>6. Cardinality(Serving') <= AtOnce
    BY <2>1, <2>3, <2>4, <2>5, IntakeAssumption
  <2>7. \A q \in Posts : Passing(q)' => Passing(q)
    BY <1>0, <2>1 DEF Passing, IntakeTypeOK, FirstReads
  <2> QED
    BY <1>0, <2>1, <2>4, <2>6, <2>7, CalmKeepsBound
<1>3. ASSUME NEW r \in Posts, ReadAddress(r) PROVE Overrun'
  <2>1. /\ reading' = [reading EXCEPT ![r] = @ \ {"address"}]
        /\ UNCHANGED <<order, point, unread, rows, now>>
        /\ \A q \in Posts : verdict'[q]["velocity"] = verdict[q]["velocity"]
    BY <1>0, <1>3 DEF ReadAddress, IntakeTypeOK, Rules
  <2>2. \A q \in Posts : Passing(q)' => Passing(q)
    BY <1>0, <2>1 DEF Passing, IntakeTypeOK
  <2> QED
    BY <1>0, <2>1, <2>2, QuietKeepsBound
<1>4. ASSUME NEW r \in Posts, NEW x \in VelocityReads, ReadVelocity(r, x) PROVE Overrun'
  <2>1. CASE x = "hourCount" /\ verdict'[r]["velocity"] = 0
    BY <1>4, <2>1, PassKeepsBound
  <2>2. CASE x # "hourCount" \/ verdict'[r]["velocity"] # 0
    <3>1. /\ x \in reading[r] /\ UNCHANGED <<order, point, unread, rows, now>>
          /\ \A q \in Posts : q # r => verdict'[q] = verdict[q] /\ reading'[q] = reading[q]
      BY <1>0, <1>4 DEF ReadVelocity, IntakeTypeOK
    <3>2. x # "hourCount" => "hourCount" \notin reading[r] /\ verdict[r]["velocity"] = 0
      BY <3>1 DEF InTurn, VelocityReads
    <3>3. \A q \in Posts : Passing(q)' => Passing(q)
      BY <2>2, <3>1, <3>2 DEF Passing
    <3> QED
      BY <1>0, <3>1, <3>3, QuietKeepsBound
  <2> QED
    BY <2>1, <2>2
<1>5. ASSUME NEW r \in Posts, NEW x \in Reads, ReadFails(r, x) PROVE Overrun'
  <2>1. /\ reading' = [reading EXCEPT ![r] = @ \ {x}]
        /\ unread' = IF x \in VelocityReads THEN unread \cup {r} ELSE unread
        /\ UNCHANGED <<order, point, verdict, rows, now>>
    BY <1>5 DEF ReadFails
  <2>2. \A q \in Posts : Passing(q)' => Passing(q)
    BY <1>0, <2>1 DEF Passing, IntakeTypeOK, VelocityReads
  <2> QED
    BY <1>0, <2>1, <2>2, QuietKeepsBound
<1>6. ASSUME NEW r \in Posts, Decide(r) PROVE Overrun'
  <2>1. /\ point[r] = "rules"
        /\ point' = [point EXCEPT ![r] = IF verdict[r].address = 10 THEN "blocked" ELSE "accepted"]
        /\ UNCHANGED <<order, reading, verdict, unread, rows, now>>
    BY <1>0, <1>6, TheAddressDecides DEF Decide
  <2>2. /\ \A q \in Posts : point'[q] \in InServer => point[q] \in InServer
        /\ \A q \in Posts : Passing(q)' => Passing(q)
    BY <1>0, <2>1 DEF Passing, IntakeTypeOK, InServer
  <2> QED
    BY <1>0, <2>1, <2>2, QuietKeepsBound
<1>7. ASSUME NEW r \in Posts, Insert(r) PROVE Overrun'
  BY <1>7, InsertKeepsBound
<1>8. ASSUME NEW r \in Posts, Finish(r) \/ Fails(r) PROVE Overrun'
  <2>1. /\ \E answer \in {"ok", "error", "over"} : point' = [point EXCEPT ![r] = answer]
        /\ UNCHANGED <<order, reading, verdict, unread, rows, now>>
    BY <1>8 DEF Finish, Fails, Reply
  <2>2. /\ \A q \in Posts : point'[q] \in InServer => point[q] \in InServer
        /\ \A q \in Posts : Passing(q)' => Passing(q)
    BY <1>0, <2>1 DEF Passing, IntakeTypeOK, InServer
  <2> QED
    BY <1>0, <2>1, <2>2, QuietKeepsBound
<1>9. ASSUME ServerDies PROVE Overrun'
  <2>1. /\ \A q \in Posts : point'[q] = IF point[q] \in InServer THEN "over" ELSE point[q]
        /\ UNCHANGED <<order, verdict, unread, rows, now>>
    BY <1>9 DEF ServerDies
  <2>2. /\ \A q \in Posts : point'[q] \in InServer => point[q] \in InServer
        /\ \A q \in Posts : Passing(q)' => Passing(q)
    BY <2>1 DEF Passing, InServer
  <2> QED
    BY <1>0, <2>1, <2>2, QuietKeepsBound
<1>10. CASE \/ \E a \in Addresses : Blacklist(a) \/ Unlist(a)
            \/ \E i \in Identifiers : MarkHighRisk(i) \/ MarkLapses(i)
            \/ TimePasses
            \/ UNCHANGED intakeVars
  <2>1. now <= now' /\ UNCHANGED <<order, point, reading, verdict, unread, rows>>
    BY <1>0, <1>10 DEF Blacklist, Unlist, MarkHighRisk, MarkLapses, TimePasses, intakeVars
  <2> QED
    BY <1>0, <2>1, QuietKeepsBound DEF Passing
<1> QED
  BY <1>1, <1>2, <1>3, <1>4, <1>5, <1>6, <1>7, <1>8, <1>9, <1>10 DEF IntakeNext, Server

\* However many requests of a customer the velocity rule looks at side by side, the
\* payments of an hour it has passed exceed its limit by less than the requests in the
\* server at once, for every limit and every length of the hour.
THEOREM OverrunBoundedCorrect == IntakeSpec => []OverrunBounded
<1>1. Overrun => OverrunBounded
  BY DEF Overrun, Bounded, OverrunBounded, WithinOverrun
<1>2. IntakeInv /\ InTurn /\ Overrun /\ [IntakeNext]_intakeVars
        => IntakeInv' /\ InTurn' /\ Overrun'
  BY IntakeInductive, InTurnInductive, OverrunInductive
<1> QED
  BY IntakeInitEstablishes, OverrunInit, <1>1, <1>2, PTL DEF IntakeSpec
=============================================================================
