---------------------------- MODULE OfficeProofs ----------------------------
(***************************************************************************)
(* Proofs about the smaller parts of the program, each from its own        *)
(* specification and for any values of its constants, and that MCOffice    *)
(* runs each of them as it is.                                             *)
(*                                                                         *)
(* Accounts.  A request that stands behind its guards has had the right    *)
(* once: the last guard read a user who had it (Entered).  A login has no  *)
(* guards; it has the right when its user was found, if it knows the       *)
(* password, and only those who know it are done.                          *)
(*                                                                         *)
(* AutomationRules.  The objects of the list are filled and none is of the *)
(* draft, whose next object is one not made before (FreshIsNew).           *)
(*                                                                         *)
(* StatementImport.  An import waits behind all other timers and with the  *)
(* page empty; so there is no timer but of its own results once it is over.*)
(*                                                                         *)
(* Desk.  No payment becomes pending again, nor is one undone that was     *)
(* approved but by its expiry (Onward): so who finds a payment pending is  *)
(* the first to approve it (Own), and what a read of the dashboard has     *)
(* counted stays so for the reads that follow (Counted).                   *)
(*                                                                         *)
(* Shell.  What is written to the cache of visits under the name of a      *)
(* version is a document only once that version is no longer deployed      *)
(* (DeployedIsHonest), and a visit that loses none of its writes keeps its *)
(* two parts there or on their way (KeptSoFar), then there (KeptWhole).    *)
(***************************************************************************)
EXTENDS MCOffice, DataProofs, SequenceTheorems


-----------------------------------------------------------------------------
(* Monitoring: types                                                       *)

ServersOK ==
  /\ database \in {"fast", "slow", "down"} /\ redis \in {"up", "down"}
  /\ books \in Books /\ troubles \in 0..Troubles
CollectionOK ==
  /\ DOMAIN collections = Collections
  /\ \A c \in Collections : collections[c] = Idle \/ DOMAIN collections[c] = Checks
  /\ latest = Null \/ (DOMAIN latest = Checks /\ \A k \in Checks : latest[k] # Waiting)
  /\ alerts \in Seq(Alert) /\ Len(alerts) <= MaxHistory
  /\ heard \subseteq Titles
ProbeOK == probe \in {"idle", "database", "redis"} /\ readiness \in {"none", "ready", "not ready"}
Rounds == [database : Found, redis : Found, counted : BOOLEAN]
Lines == [database : {"none", "healthy", "unhealthy", "error"},
          redis : {"none", "healthy", "unhealthy", "error"}, failed : BOOLEAN]
LogOK == (round = Idle \/ round \in Rounds) /\ logged \in Lines

\* Each part of the module types its own.
MonitoringInv == ServersOK /\ CollectionOK /\ ProbeOK /\ LogOK

\* What is sent is alerts, whatever the metrics are.
LEMMA AnomaliesAreAlerts == \A m : Anomalies(m) \in Seq(Alert)
<1> SUFFICES ASSUME NEW m PROVE Anomalies(m) \in Seq(Alert)
  OBVIOUS
<1>1. \A title \in Titles :
        Warning(title) \in Alert /\ Error(title) \in Alert /\ Critical(title) \in Alert
  BY DEF Warning, Error, Critical, Alert, AlertSeverities
<1>2. \A a \in Alert : <<a>> \in Seq(Alert)
  OBVIOUS
<1>3. <<>> \in Seq(Alert)
  OBVIOUS
<1> DEFINE a1 == When(m.database = "lost", Critical("Database Connection Lost"))
           a2 == When(m.database = "slow", Warning("Slow Database Response"))
           a3 == When(m.redis = "lost", Critical("Redis Connection Lost"))
           a4 == When(m.payments.expired > 50, Warning("High Expired Payments"))
           a5 == When(m.payments.rate < 2000 /\ m.payments.rate > 0, Warning("Low Approval Rate"))
           a6 == UseAlert(m.collateral.use)
           a7 == When(m.collateral.available < 10000, Error("Low Available Collateral"))
<1>4. a1 \in {<<>>, <<Critical("Database Connection Lost")>>}
  BY DEF When
<1>41. a2 \in {<<>>, <<Warning("Slow Database Response")>>}
  BY DEF When
<1>42. a3 \in {<<>>, <<Critical("Redis Connection Lost")>>}
  BY DEF When
<1>43. a4 \in {<<>>, <<Warning("High Expired Payments")>>}
  BY DEF When
<1>44. a5 \in {<<>>, <<Warning("Low Approval Rate")>>}
  BY DEF When
<1>45. a7 \in {<<>>, <<Error("Low Available Collateral")>>}
  BY DEF When
<1>5. a6 \in {<<>>, <<Critical("Critical Collateral Utilization")>>,
              <<Warning("High Collateral Utilization")>>}
  BY DEF When, UseAlert
<1> HIDE DEF a1, a2, a3, a4, a5, a6, a7
<1>6. /\ a1 \in Seq(Alert) /\ a2 \in Seq(Alert) /\ a3 \in Seq(Alert) /\ a4 \in Seq(Alert)
      /\ a5 \in Seq(Alert) /\ a7 \in Seq(Alert)
  BY <1>1, <1>2, <1>3, <1>4, <1>41, <1>42, <1>43, <1>44, <1>45 DEF Titles
<1>7. a6 \in Seq(Alert)
  BY <1>1, <1>2, <1>3, <1>5 DEF Titles
<1>8. a1 \o a2 \o a3 \o a4 \o a5 \o a6 \o a7 \in Seq(Alert)
  BY <1>6, <1>7
<1>9. Anomalies(m) = a1 \o a2 \o a3 \o a4 \o a5 \o a6 \o a7
  BY DEF Anomalies, a1, a2, a3, a4, a5, a6, a7
<1> QED
  BY <1>8, <1>9

\* The newest are kept, and no more of them than there is room for.
LEMMA SendKeeps ==
  ASSUME CollectionOK, NEW sent \in Seq(Alert), Send(sent)
  PROVE  alerts' \in Seq(Alert) /\ Len(alerts') <= MaxHistory /\ heard' \subseteq Titles
<1>1. alerts \in Seq(Alert) /\ heard \subseteq Titles /\ MaxHistory \in Nat \ {0}
  BY MonitoringAssumption DEF CollectionOK
<1>2. heard' \subseteq Titles
  <2>1. \A i \in DOMAIN sent : sent[i] \in Alert
    OBVIOUS
  <2>2. \A i \in DOMAIN sent : sent[i].title \in Titles
    BY <2>1 DEF Alert
  <2> QED
    BY <1>1, <2>2 DEF Send
<1> DEFINE all == alerts \o sent
<1>3. all \in Seq(Alert) /\ Len(all) \in Nat
  BY <1>1, ConcatProperties
<1>4. alerts' = SubSeq(all, IF Len(all) > MaxHistory THEN Len(all) - MaxHistory + 1 ELSE 1, Len(all))
  BY DEF Send, Newest, LastOf
<1> HIDE DEF all
<1>5. CASE Len(all) > MaxHistory
  <2>1. alerts' = SubSeq(all, Len(all) - MaxHistory + 1, Len(all))
    BY <1>4, <1>5
  <2>2. Len(all) - MaxHistory + 1 \in 1..Len(all)
    BY <1>1, <1>3, <1>5
  <2>3. alerts' \in Seq(Alert) /\ Len(alerts') = Len(all) - (Len(all) - MaxHistory + 1) + 1
    BY <1>3, <2>1, <2>2
  <2> QED
    BY <1>1, <1>2, <1>3, <2>3
<1>6. CASE ~(Len(all) > MaxHistory)
  <2>1. alerts' = SubSeq(all, 1, Len(all))
    BY <1>4, <1>6
  <2>2. alerts' \in Seq(Alert) /\ Len(alerts') = Len(all)
    BY <1>3, <2>1
  <2> QED
    BY <1>1, <1>2, <1>3, <1>6, <2>2
<1> QED
  BY <1>5, <1>6

\* A collection that goes on, ends or fails moves nothing but what it and the alerts have.
LEMMA CollectionKeeps ==
  ASSUME CollectionOK, NEW c \in Collections, CollectionStep(c)
  PROVE  CollectionOK' /\ UNCHANGED <<serverVars, probeVars, logVars>>
<1>0. UNCHANGED <<serverVars, probeVars, logVars>>
  BY DEF CollectionStep, Tick, CheckFails, CheckAnswers
\* The slot of c gets what is idle or has the checks.
<1> DEFINE Fills(value) == collections' = [collections EXCEPT ![c] = value]
<1>4. ASSUME NEW value, Fills(value), value = Idle \/ DOMAIN value = Checks
      PROVE  /\ DOMAIN collections' = Collections
             /\ \A d \in Collections : collections'[d] = Idle \/ DOMAIN collections'[d] = Checks
  <2>1. DOMAIN collections' = Collections
    BY <1>4 DEF CollectionOK
  <2>2. \A d \in Collections : collections'[d] = IF d = c THEN value ELSE collections[d]
    BY <1>4 DEF CollectionOK
  <2> QED
    BY <1>4, <2>1, <2>2 DEF CollectionOK
<1>1. CASE Tick(c)
  <2>1. Fills([k \in Checks |-> Waiting]) /\ UNCHANGED <<latest, alerts, heard>>
    BY <1>1 DEF Tick
  <2> HIDE DEF Fills
  <2>2. DOMAIN [k \in Checks |-> Waiting] = Checks
    OBVIOUS
  <2> QED
    BY <1>0, <1>4, <2>1, <2>2 DEF CollectionOK
<1>2. ASSUME NEW k \in Checks, CheckFails(c, k) PROVE CollectionOK'
  <2>1. Fills(Idle) /\ Send(Failure) /\ latest' = latest
    BY <1>2 DEF CheckFails
  <2> HIDE DEF Fills
  <2>2. Failure \in Seq(Alert)
    BY DEF Failure, Error, Alert, AlertSeverities, Titles
  <2>3. alerts' \in Seq(Alert) /\ Len(alerts') <= MaxHistory /\ heard' \subseteq Titles
    BY <2>1, <2>2, SendKeeps
  <2> QED
    BY <1>4, <2>1, <2>3 DEF CollectionOK
<1>3. ASSUME NEW k \in Checks, CheckAnswers(c, k) PROVE CollectionOK'
  <2> DEFINE m == [collections[c] EXCEPT ![k] = CheckAnswer(k)]
  <2>1. DOMAIN m = Checks
    BY <1>3 DEF CheckAnswers, CollectionOK
  <2>2. CASE \E other \in Checks : m[other] = Waiting
    <3>1. Fills(m) /\ UNCHANGED <<latest, alerts, heard>>
      BY <1>3, <2>2 DEF CheckAnswers
    <3> HIDE DEF m, Fills
    <3> QED
      BY <1>4, <2>1, <3>1 DEF CollectionOK
  <2>3. CASE ~\E other \in Checks : m[other] = Waiting
    <3>1. Fills(Idle) /\ latest' = m /\ Send(Anomalies(m))
      BY <1>3, <2>3 DEF CheckAnswers, NewLatest
    <3> HIDE DEF m, Fills
    <3>2. alerts' \in Seq(Alert) /\ Len(alerts') <= MaxHistory /\ heard' \subseteq Titles
      BY <3>1, AnomaliesAreAlerts, SendKeeps
    <3> QED
      BY <1>4, <2>1, <2>3, <3>1, <3>2 DEF CollectionOK
  <2> QED
    BY <2>2, <2>3
<1> QED
  BY <1>0, <1>1, <1>2, <1>3 DEF CollectionStep

\* A line of the log knows both of its servers.
LEMMA LearnsKeeps ==
  ASSUME LogOK, NEW found \in Rounds, Learns(found)
  PROVE  LogOK'
<1>1. CASE Waiting \in {found.database, found.redis} \/ ~found.counted
  BY <1>1 DEF Learns, LogOK
<1>2. CASE ~(Waiting \in {found.database, found.redis} \/ ~found.counted)
  <2>1. round' = Idle /\ logged' = Line(found.database, found.redis)
    BY <1>2 DEF Learns
  <2>2. /\ found.database \in {"healthy", "unhealthy"} /\ found.redis \in {"healthy", "unhealthy"}
        /\ FailedLine(found.database, found.redis) \in BOOLEAN
    BY <1>2 DEF Rounds, Found, FailedLine
  <2> QED
    BY <2>1, <2>2 DEF Line, LogOK, Lines
<1> QED
  BY <1>1, <1>2

\* So does the half-hourly look at the system with what the log has.
LEMMA LogKeeps ==
  ASSUME LogOK, LogStep
  PROVE  LogOK' /\ UNCHANGED <<serverVars, collectVars, probeVars>>
<1>1. UNCHANGED <<serverVars, collectVars, probeVars>>
  BY DEF LogStep, RoundBegins, RoundPings, RoundCounts
<1>2. CASE RoundBegins
  BY <1>2 DEF RoundBegins, LogOK, Rounds, Found
<1>3. CASE RoundCounts
  <2>1. CASE database = "down"
    <3>1. round' = Idle /\ logged' = Line("error", "error")
      BY <1>3, <2>1 DEF RoundCounts
    <3>2. FailedLine("error", "error") \in BOOLEAN
      BY DEF FailedLine
    <3> QED
      BY <1>1, <3>1, <3>2 DEF Line, LogOK, Lines
  <2>2. CASE database # "down"
    <3>1. round \in Rounds /\ Learns([round EXCEPT !.counted = TRUE])
      BY <1>3, <2>2 DEF RoundCounts, LogOK
    <3>2. [round EXCEPT !.counted = TRUE] \in Rounds
      BY <3>1 DEF Rounds
    <3> QED
      BY <1>1, <3>1, <3>2, LearnsKeeps
  <2> QED
    BY <2>1, <2>2
<1>4. ASSUME NEW s \in {"database", "redis"}, RoundPings(s) PROVE LogOK'
  <2>1. PICK answer \in {"healthy", "unhealthy"} : Learns([round EXCEPT ![s] = answer])
    BY <1>4 DEF RoundPings
  <2>2. round \in Rounds
    BY <1>4 DEF RoundPings, LogOK
  <2>3. [round EXCEPT ![s] = answer] \in Rounds
    <3>1. CASE s = "database"
      BY <2>2, <3>1 DEF Found, Rounds
    <3>2. CASE s = "redis"
      BY <2>2, <3>2 DEF Found, Rounds
    <3> QED
      BY <3>1, <3>2
  <2> QED
    BY <2>1, <2>3, LearnsKeeps
<1> QED
  BY <1>1, <1>2, <1>3, <1>4 DEF LogStep

\* So does the readiness probe with its answer.
LEMMA ProbeKeeps ==
  ASSUME ProbeOK, ProbeStep
  PROVE  ProbeOK' /\ UNCHANGED <<serverVars, collectVars, logVars>>
  BY DEF ProbeStep, ProbeAsks, ProbeDatabase, ProbeRedis, ProbeOK

\* Servers that move and a process that starts anew leave everything of its type.
LEMMA EnvironmentKeeps ==
  ASSUME MonitoringInv, Environment
  PROVE  MonitoringInv'
<1>1. Trouble /\ troubles \in 0..Troubles /\ Troubles \in Nat
  BY MonitoringAssumption
     DEF Environment, DatabaseMoves, RedisMoves, Restart, MonitoringInv, ServersOK
<1>2. troubles' \in 0..Troubles /\ heard' = {}
  BY <1>1 DEF Trouble
<1>3. CASE DatabaseMoves \/ RedisMoves
  <2>1. ServersOK'
    BY <1>2, <1>3 DEF DatabaseMoves, RedisMoves, MonitoringInv, ServersOK
  <2>2. UNCHANGED <<collections, latest, alerts, probe, readiness, round, logged>>
    BY <1>3 DEF DatabaseMoves, RedisMoves, probeVars, logVars
  <2> QED
    BY <1>2, <2>1, <2>2 DEF MonitoringInv, CollectionOK, ProbeOK, LogOK
<1>4. CASE Restart
  <2>1. /\ collections' = [c \in Collections |-> Idle] /\ latest' = Null /\ alerts' = <<>>
        /\ probe' = "idle" /\ round' = Idle
        /\ UNCHANGED <<database, redis, books, readiness, logged>>
    BY <1>4 DEF Restart
  <2>2. ServersOK' /\ ProbeOK' /\ LogOK'
    BY <1>2, <2>1 DEF MonitoringInv, ServersOK, ProbeOK, LogOK
  <2>3. CollectionOK'
    BY <1>2, <2>1, MonitoringAssumption DEF CollectionOK
  <2> QED
    BY <2>2, <2>3 DEF MonitoringInv
<1> QED
  BY <1>3, <1>4 DEF Environment

\* A step of one part leaves the others as they were.
LEMMA MonitoringStepKeeps == MonitoringInv /\ [MonitoringNext]_monitoringVars => MonitoringInv'
<1> SUFFICES ASSUME MonitoringInv, [MonitoringNext]_monitoringVars PROVE MonitoringInv'
  OBVIOUS
<1>1. UNCHANGED serverVars => (ServersOK => ServersOK')
  BY DEF serverVars, ServersOK
<1>2. UNCHANGED collectVars => (CollectionOK => CollectionOK')
  BY DEF collectVars, CollectionOK
<1>3. UNCHANGED probeVars => (ProbeOK => ProbeOK')
  BY DEF probeVars, ProbeOK
<1>4. UNCHANGED logVars => (LogOK => LogOK')
  BY DEF logVars, LogOK
<1>5. CASE \E c \in Collections : CollectionStep(c)
  BY <1>1, <1>3, <1>4, <1>5, CollectionKeeps DEF MonitoringInv
<1>6. CASE ProbeStep
  BY <1>1, <1>2, <1>4, <1>6, ProbeKeeps DEF MonitoringInv
<1>7. CASE LogStep
  BY <1>1, <1>2, <1>3, <1>7, LogKeeps DEF MonitoringInv
<1>8. CASE UNCHANGED monitoringVars
  BY <1>1, <1>2, <1>3, <1>4, <1>8 DEF monitoringVars, MonitoringInv
<1> QED
  BY <1>5, <1>6, <1>7, <1>8, EnvironmentKeeps DEF MonitoringNext

\* The history of alerts never outgrows its limit, whatever is alerted at once, and the
\* metrics kept are those of a collection with all four answers (storeAlert, collectMetrics).
THEOREM MonitoringTypeCorrect == MonitoringSpec => []MonitoringTypeOK
<1>1. ASSUME MonitoringInit PROVE MonitoringInv
  <2>1. ServersOK
    BY <1>1, MonitoringAssumption DEF MonitoringInit, ServersOK
  <2>2. CollectionOK
    BY <1>1, MonitoringAssumption DEF MonitoringInit, CollectionOK
  <2>3. ProbeOK
    BY <1>1 DEF MonitoringInit, ProbeOK
  <2>4. LogOK
    BY <1>1 DEF MonitoringInit, LogOK, Lines
  <2> QED
    BY <2>1, <2>2, <2>3, <2>4 DEF MonitoringInv
<1>2. MonitoringInv => MonitoringTypeOK
  BY DEF MonitoringInv, ServersOK, CollectionOK, ProbeOK, LogOK, Rounds, Lines, MonitoringTypeOK
<1> QED
  BY <1>1, <1>2, MonitoringStepKeeps, PTL DEF MonitoringSpec

-----------------------------------------------------------------------------
(* Accounts: who had the right, and types                                  *)

Entered ==
  \A r \in Requests :
    /\ at[r] \in {"guards", "found"} => asked[r].route # "login"
    /\ at[r] \in {"handler", "found", "password"} /\ asked[r].route # "login" => r \in allowed
    /\ at[r] = "password" /\ asked[r].route = "login" /\ asked[r].knows => r \in allowed

Placed ==
  /\ at \in [Requests -> {"none", "guards", "handler", "found", "password"} \cup Ends]
  /\ DOMAIN asked = Requests

AccountsInv == Placed /\ Entered /\ DoneWasAllowed

\* Whoever had the right keeps having had it, and who has it now while under way gets it.
LEMMA WatchedAdds ==
  ASSUME Watched
  PROVE  /\ allowed \subseteq allowed'
         /\ \A r \in Requests : at[r] \notin {"none"} \cup Ends /\ Right(users', asked'[r]) => r \in allowed'
         /\ \A r \in Requests : at'[r] \notin {"none"} \cup Ends /\ Right(users', asked'[r]) => r \in allowed'
  BY DEF Watched, UnderWay

\* A step of the handling of a request.
LEMMA HandlesKeeps ==
  ASSUME AccountsInv, NEW r \in Requests, Handles(r)
  PROVE  AccountsInv'
<1> USE DEF AccountsInv, Placed, Entered, DoneWasAllowed, Ends, To
<1>1. CASE GuardPasses(r)
  <2>1. asked[r].route # "login" /\ asked' = asked /\ users' = users /\ Watched
    BY <1>1 DEF GuardPasses
  <2>2. Right(users, asked[r])
    BY <1>1, <2>1 DEF GuardPasses, UserOf, RoleOf, Right
  <2>3. r \in allowed' /\ allowed \subseteq allowed'
    BY <1>1, <2>1, <2>2, WatchedAdds DEF GuardPasses
  <2> QED
    BY <1>1, <2>1, <2>3 DEF GuardPasses
<1>2. CASE GuardRefuses(r)
  BY <1>2, WatchedAdds DEF GuardRefuses
<1>3. CASE LoginFinds(r)
  <2>1. asked' = asked /\ users' = users /\ allowed \subseteq allowed' /\ asked[r].route = "login"
    BY <1>3, WatchedAdds DEF LoginFinds
  <2>2. CASE at' = [at EXCEPT ![r] = "unauthorized"]
    BY <2>1, <2>2
  <2>3. CASE /\ at' = [at EXCEPT ![r] = "password"]
             /\ \E u \in WithEmail(users, asked[r].email) : u.active
    <3>1. asked[r].knows => Right(users', asked'[r])
      BY <2>1, <2>3 DEF Right
    <3>2. asked[r].knows => r \in allowed'
      BY <1>3, <2>3, <3>1, WatchedAdds DEF LoginFinds
    <3> QED
      BY <2>1, <2>3, <3>2
  <2> QED
    BY <1>3, <2>2, <2>3 DEF LoginFinds
<1>4. CASE LoginCompares(r)
  BY <1>4, WatchedAdds DEF LoginCompares
<1>5. CASE RegisterFinds(r) \/ RegisterHashes(r)
  BY <1>5, WatchedAdds DEF RegisterFinds, RegisterHashes
<1>6. CASE RegisterCreates(r)
  BY <1>6, WatchedAdds DEF RegisterCreates
<1>7. CASE ValidateReads(r) \/ Performs(r)
  BY <1>7, WatchedAdds DEF ValidateReads, Performs
<1> QED
  BY <1>1, <1>2, <1>3, <1>4, <1>5, <1>6, <1>7 DEF Handles

\* A request that comes stands before its guards, or logs in.
LEMMA ArrivesKeeps ==
  ASSUME AccountsInv, NEW r \in Requests, NEW ask, Arrives(r, ask)
  PROVE  AccountsInv'
  BY WatchedAdds DEF Arrives, AccountsInv, Placed, Entered, DoneWasAllowed, Ends

\* What is changed by hand takes from no request what it has had.
LEMMA AccountsStepKeeps == AccountsInv /\ [AccountsNext]_accountsVars => AccountsInv'
<1> SUFFICES ASSUME AccountsInv, [AccountsNext]_accountsVars PROVE AccountsInv'
  OBVIOUS
<1>1. CASE \E r \in Requests : Handles(r) \/ \E ask \in Asks : Arrives(r, ask)
  BY <1>1, HandlesKeeps, ArrivesKeeps
<1>2. CASE (\E u \in users : ChangeUser(u)) \/ (\E t \in tokens : Lapse(t))
  <2>1. at' = at /\ asked' = asked /\ Watched
    BY <1>2 DEF ChangeUser, Lapse
  <2> QED
    BY <2>1, WatchedAdds DEF AccountsInv, Placed, Entered, DoneWasAllowed
<1>3. CASE UNCHANGED accountsVars
  BY <1>3 DEF accountsVars, AccountsInv, Placed, Entered, DoneWasAllowed
<1> QED
  BY <1>1, <1>2, <1>3 DEF AccountsNext

\* Nothing is done for a request whose user did not have the right to it at some moment
\* since it came, for any number of requests, users and changes (JwtStrategy.validate,
\* RolesGuard, login).
THEOREM DoneWasAllowedCorrect == AccountsSpec => []DoneWasAllowed
<1>1. AccountsInit => AccountsInv
  BY DEF AccountsInit, AccountsInv, Placed, Entered, DoneWasAllowed
<1>2. AccountsInv => DoneWasAllowed
  BY DEF AccountsInv
<1> QED
  BY <1>1, <1>2, AccountsStepKeeps, PTL DEF AccountsSpec

Stages == {"none", "guards", "handler", "found", "password"} \cup Ends

\* A request before its guards has one to pass, and a login whose password is looked at has
\* the user it found.
AccountsTyped ==
  /\ AccountsTypeOK
  /\ DOMAIN asked = Requests
  /\ \A r \in Requests :
       /\ at[r] = "guards" => left[r] # 0
       /\ at[r] = "password" /\ asked[r].route = "login" => user[r] \in User

\* What is asked is of the types of a request.
LEMMA AsksAreAsked ==
  ASSUME tokens \subseteq Token
  PROVE  Asks \subseteq Asked
<1>1. (CHOOSE e \in Emails : TRUE) \in Emails
  BY AccountsAssumption
<1> DEFINE some == CHOOSE e \in Emails : TRUE
<1> HIDE DEF some
<1>2. some \in Emails
  BY <1>1 DEF some
<1>3. {"OPERATOR", "BANK_OWNER"} \subseteq Roles /\ {"login", "register"} \subseteq Routes
  BY DEF Roles, Routes
<1>4. [route : {"login"}, token : {Nobody}, email : Emails, role : {"OPERATOR"}, knows : BOOLEAN]
        \subseteq Asked
  BY <1>3 DEF Asked
<1>5. [route : {"register"}, token : tokens, email : Emails, role : {"OPERATOR", "BANK_OWNER"},
       knows : {TRUE}] \subseteq Asked
  BY <1>3 DEF Asked
<1>6. [route : Routes \ {"login", "register"}, token : tokens,
       email : {some}, role : {"OPERATOR"}, knows : {TRUE}] \subseteq Asked
  BY <1>2, <1>3 DEF Asked
<1> QED
  BY <1>4, <1>5, <1>6 DEF Asks, some

\* Where a request stands, and what is kept of it, when it alone moves.
LEMMA RequestMoves ==
  ASSUME AccountsTyped, NEW r \in Requests, at[r] # "none",
         NEW stage \in Stages \ {"none"}, at' = [at EXCEPT ![r] = stage],
         left' \in [Requests -> 0..2], \A q \in Requests \ {r} : left'[q] = left[q],
         user' \in [Requests -> User \cup {Nobody}], \A q \in Requests \ {r} : user'[q] = user[q],
         UNCHANGED <<asked, changes>>, Watched,
         users' \subseteq User, tokens' \subseteq Token,
         stage = "guards" => left'[r] # 0,
         stage = "password" /\ asked[r].route = "login" => user'[r] \in User
  PROVE  AccountsTyped'
<1>1. at' \in [Requests -> Stages] /\ \A q \in Requests : at'[q] = IF q = r THEN stage ELSE at[q]
  BY DEF AccountsTyped, AccountsTypeOK, Stages
<1>2. allowed' \subseteq Requests
  BY DEF AccountsTyped, AccountsTypeOK, Watched, UnderWay
<1>3. AccountsTypeOK'
  BY <1>1, <1>2 DEF AccountsTyped, AccountsTypeOK, Stages
<1> QED
  BY <1>1, <1>3 DEF AccountsTyped

\* A step of a request keeps the types: a guard is passed only while one is left, and the
\* token of a login is of the user it found.
LEMMA HandlesTyped ==
  ASSUME AccountsTyped, Entered, NEW r \in Requests, Handles(r)
  PROVE  AccountsTyped'
<1>0. /\ users \subseteq User /\ tokens \subseteq Token
      /\ left \in [Requests -> 0..2] /\ user \in [Requests -> User \cup {Nobody}]
      /\ at \in [Requests -> Stages]
      /\ at[r] # "none" => asked[r] \in Asked
      /\ UNCHANGED <<asked, changes>> /\ Watched
  BY DEF AccountsTyped, AccountsTypeOK, Stages, Handles, GuardPasses, GuardRefuses, LoginFinds,
         LoginCompares, RegisterFinds, RegisterHashes, RegisterCreates, ValidateReads, Performs
\* Steps that only move the request, to where no more is asked of it.
<1>1. ASSUME NEW stage \in Stages \ {"none", "guards"}, at[r] # "none", To(r, stage),
             stage = "password" => asked[r].route # "login",
             UNCHANGED <<left, user>>, users' \subseteq User, tokens' \subseteq Token
      PROVE  AccountsTyped'
  BY <1>0, <1>1, RequestMoves DEF To
<1>2. CASE GuardPasses(r)
  <2>1. PICK read \in UserOf(r) : user' = [user EXCEPT ![r] = read]
    BY <1>2 DEF GuardPasses
  <2>2. read \in User
    BY <1>0 DEF UserOf, WithId
  <2>3. left[r] \in 1..2
    BY <1>0, <1>2 DEF GuardPasses, AccountsTyped
  <2> DEFINE stage == IF left[r] = 1 THEN "handler" ELSE "guards"
  <2>4. left' = [left EXCEPT ![r] = left[r] - 1] /\ at' = [at EXCEPT ![r] = stage]
        /\ UNCHANGED <<users, tokens>> /\ at[r] # "none"
    BY <1>2 DEF GuardPasses
  <2>5. /\ left[r] - 1 \in 0..2 /\ left' \in [Requests -> 0..2] /\ left'[r] = left[r] - 1
        /\ \A q \in Requests \ {r} : left'[q] = left[q]
    BY <1>0, <2>3, <2>4
  <2>6. /\ user' \in [Requests -> User \cup {Nobody}]
        /\ \A q \in Requests \ {r} : user'[q] = user[q]
    BY <1>0, <2>1, <2>2
  <2>7. stage \in Stages \ {"none"} /\ stage # "password" /\ (stage = "guards" => left'[r] # 0)
    BY <2>3, <2>5 DEF Stages
  <2> HIDE DEF stage
  <2> QED
    BY <1>0, <2>4, <2>5, <2>6, <2>7, RequestMoves
<1>3. CASE GuardRefuses(r)
  <2>1. PICK stage \in {"unauthorized", "forbidden"} : at' = [at EXCEPT ![r] = stage]
    BY <1>3 DEF GuardRefuses
  <2> QED
    BY <1>0, <1>1, <1>3, <2>1 DEF GuardRefuses, To, Stages, Ends
<1>4. CASE LoginFinds(r)
  <2>1. at[r] # "none" /\ UNCHANGED <<users, tokens, left>>
    BY <1>4 DEF LoginFinds
  <2>2. CASE To(r, "unauthorized") /\ UNCHANGED user
    BY <1>0, <1>1, <2>1, <2>2 DEF Stages, Ends
  <2>3. ASSUME NEW u \in users, To(r, "password"), user' = [user EXCEPT ![r] = u]
        PROVE  AccountsTyped'
    <3>1. /\ user' \in [Requests -> User \cup {Nobody}] /\ user'[r] \in User
          /\ \A q \in Requests \ {r} : user'[q] = user[q]
      BY <1>0, <2>3
    <3>2. "password" \in Stages \ {"none"} /\ at' = [at EXCEPT ![r] = "password"]
      BY <2>3 DEF Stages, To
    <3> QED
      BY <1>0, <2>1, <3>1, <3>2, RequestMoves
  <2> QED
    BY <1>4, <2>2, <2>3 DEF LoginFinds, WithEmail
<1>5. CASE LoginCompares(r)
  <2>1. at[r] = "password" /\ asked[r].route = "login" /\ UNCHANGED <<users, left, user>>
    BY <1>5 DEF LoginCompares
  <2>2. user[r] \in User /\ TokenOf(user[r]) \in Token
    BY <2>1 DEF AccountsTyped, User, Token, TokenOf
  <2>3. tokens' \subseteq Token /\ \E stage \in {"done", "unauthorized"} : To(r, stage)
    BY <1>0, <1>5, <2>2 DEF LoginCompares
  <2> QED
    BY <1>0, <1>1, <2>1, <2>3 DEF Stages, Ends
<1>6. CASE RegisterFinds(r)
  <2>1. at[r] # "none" /\ UNCHANGED <<users, tokens, left, user>>
        /\ \E stage \in {"conflict", "found"} : To(r, stage)
    BY <1>6 DEF RegisterFinds
  <2> QED
    BY <1>0, <1>1, <2>1 DEF Stages, Ends
<1>7. CASE RegisterHashes(r)
  <2>1. at[r] = "found" /\ UNCHANGED <<users, tokens, left, user>> /\ To(r, "password")
    BY <1>7 DEF RegisterHashes
  <2>2. asked[r].route # "login"
    BY <2>1 DEF Entered
  <2> QED
    BY <1>0, <1>1, <2>1, <2>2 DEF Stages
<1>8. CASE RegisterCreates(r)
  <2>1. at[r] = "password" /\ UNCHANGED <<left, user>> /\ asked[r] \in Asked
    BY <1>0, <1>8 DEF RegisterCreates
  <2>2. /\ NewToken(r) \in Token
        /\ [id |-> r, email |-> asked[r].email, role |-> asked[r].role, active |-> TRUE] \in User
    BY <2>1 DEF Asked, NewToken, Token, User
  <2>3. users' \subseteq User /\ tokens' \subseteq Token
        /\ \E stage \in {"done", "error"} : To(r, stage)
    BY <1>0, <1>8, <2>2 DEF RegisterCreates
  <2> QED
    BY <1>0, <1>1, <2>1, <2>3 DEF Stages, Ends
<1>9. CASE ValidateReads(r) \/ Performs(r)
  <2>1. at[r] # "none" /\ UNCHANGED <<users, tokens, left, user>>
        /\ \E stage \in {"done", "unauthorized"} : To(r, stage)
    BY <1>9 DEF ValidateReads, Performs
  <2> QED
    BY <1>0, <1>1, <2>1 DEF Stages, Ends
<1> QED
  BY <1>2, <1>3, <1>4, <1>5, <1>6, <1>7, <1>8, <1>9 DEF Handles

\* So does a request that comes.
LEMMA ArrivesTyped ==
  ASSUME AccountsTyped, NEW r \in Requests, NEW ask \in Asks, Arrives(r, ask)
  PROVE  AccountsTyped'
<1>1. /\ at[r] = "none" /\ asked' = [asked EXCEPT ![r] = ask]
      /\ UNCHANGED <<users, tokens, user, changes>> /\ Watched
  BY DEF Arrives
<1>2. ask \in Asked /\ Guards(ask.route) \in 1..2
  BY AsksAreAsked DEF AccountsTyped, AccountsTypeOK, Guards
<1>3. PICK stage \in {"handler", "guards"} :
        /\ at' = [at EXCEPT ![r] = stage]
        /\ \/ stage = "handler" /\ left' = left
           \/ stage = "guards" /\ left' = [left EXCEPT ![r] = Guards(ask.route)]
  BY DEF Arrives
<1>4. /\ left' \in [Requests -> 0..2] /\ \A q \in Requests \ {r} : left'[q] = left[q]
      /\ stage = "guards" => left'[r] # 0
  <2>1. left \in [Requests -> 0..2] /\ Guards(ask.route) \in 0..2 /\ Guards(ask.route) # 0
    BY <1>2 DEF AccountsTyped, AccountsTypeOK
  <2> QED
    BY <1>3, <2>1
<1>5. /\ at' \in [Requests -> Stages] /\ \A q \in Requests : at'[q] = IF q = r THEN stage ELSE at[q]
  BY <1>3 DEF AccountsTyped, AccountsTypeOK, Stages
<1>6. DOMAIN asked' = Requests /\ \A q \in Requests : asked'[q] = IF q = r THEN ask ELSE asked[q]
  BY <1>1 DEF AccountsTyped
<1>7. allowed' \subseteq Requests
  BY <1>1 DEF AccountsTyped, AccountsTypeOK, Watched, UnderWay
<1>8. AccountsTypeOK'
  BY <1>1, <1>2, <1>4, <1>5, <1>6, <1>7 DEF AccountsTyped, AccountsTypeOK, Stages
<1> QED
  BY <1>1, <1>4, <1>5, <1>6, <1>8 DEF AccountsTyped

\* So does what is changed by hand.
LEMMA OutsideTyped ==
  ASSUME AccountsTyped, (\E u \in users : ChangeUser(u)) \/ (\E t \in tokens : Lapse(t))
  PROVE  AccountsTyped'
<1>1. UNCHANGED <<at, asked, left, user>> /\ Watched /\ changes < Changes /\ changes' = changes + 1
  BY DEF ChangeUser, Lapse
<1>2. changes' \in 0..Changes
  BY <1>1, AccountsAssumption DEF AccountsTyped, AccountsTypeOK
<1>3. users' \subseteq User /\ tokens' \subseteq Token
  <2>1. users \subseteq User /\ tokens \subseteq Token
    BY DEF AccountsTyped, AccountsTypeOK
  <2>2. ASSUME NEW t \in tokens, Lapse(t) PROVE users' \subseteq User /\ tokens' \subseteq Token
    BY <2>1, <2>2 DEF Lapse
  <2>3. ASSUME NEW u \in users, ChangeUser(u) PROVE users' \subseteq User /\ tokens' \subseteq Token
    <3>1. u \in User
      BY <2>1
    <3>2. [u EXCEPT !.active = ~@] \in User /\ \A role \in Roles : [u EXCEPT !.role = role] \in User
      BY <3>1 DEF User
    <3> QED
      BY <2>1, <2>3, <3>2 DEF ChangeUser
  <2> QED
    BY <2>2, <2>3
<1>4. allowed' \subseteq Requests
  BY <1>1 DEF AccountsTyped, AccountsTypeOK, Watched, UnderWay
<1> QED
  BY <1>1, <1>2, <1>3, <1>4 DEF AccountsTyped, AccountsTypeOK

\* Every step keeps the types.
LEMMA AccountsStepTyped ==
  AccountsTyped /\ Entered /\ [AccountsNext]_accountsVars => AccountsTyped'
<1>1. AccountsTyped /\ UNCHANGED accountsVars => AccountsTyped'
  BY DEF AccountsTyped, AccountsTypeOK, accountsVars
<1> QED
  BY <1>1, HandlesTyped, ArrivesTyped, OutsideTyped DEF AccountsNext

\* Users, tokens and requests are of their types, for any users and any changes by hand.
THEOREM AccountsTypeCorrect == AccountsSpec => []AccountsTypeOK
<1>1. ASSUME AccountsInit PROVE AccountsTyped /\ AccountsInv
  <2>1. AccountsInv
    BY <1>1 DEF AccountsInit, AccountsInv, Placed, Entered, DoneWasAllowed
  <2>2. users \subseteq User
    BY <1>1, AccountsAssumption DEF AccountsInit, User
  <2>3. tokens \subseteq Token
    BY <1>1, <2>2 DEF AccountsInit, User, TokenOf, Token
  <2>4. /\ \A r \in Requests : at[r] = "none" /\ asked[r] = Nobody
        /\ at \in [Requests -> Stages] /\ DOMAIN asked = Requests
        /\ left \in [Requests -> 0..2] /\ user \in [Requests -> User \cup {Nobody}]
        /\ changes \in 0..Changes /\ allowed \subseteq Requests
    BY <1>1, AccountsAssumption DEF AccountsInit, Stages
  <2>5. AccountsTypeOK
    BY <2>2, <2>3, <2>4 DEF AccountsTypeOK, Stages
  <2> QED
    BY <2>1, <2>4, <2>5 DEF AccountsTyped
<1>2. AccountsTyped /\ AccountsInv => AccountsTypeOK /\ Entered
  BY DEF AccountsTyped, AccountsInv
<1> QED
  BY <1>1, <1>2, AccountsStepTyped, AccountsStepKeeps, PTL DEF AccountsSpec

-----------------------------------------------------------------------------
(* AutomationRules                                                         *)

\* The objects of the list are made and filled, those of the draft are others.
RulesInv == RulesTypeOK /\ ToSet(draft.conditions) \subseteq used /\ SavedStaysFilled

\* While there is an object not made yet, the next one is such.
LEMMA FreshIsNew ==
  ASSUME used \subseteq Objects, used # Objects
  PROVE  Fresh \in Objects \ used
<1>1. \E o \in Objects \ used : \A p \in Objects \ used : o <= p
  BY AutomationRulesAssumption, Least
<1> QED
  BY <1>1 DEF Fresh

\* What a list with one more has, and what one with one less.
LEMMA Appended ==
  ASSUME NEW X, NEW s \in Seq(X), NEW x
  PROVE  ToSet(Append(s, x)) = ToSet(s) \cup {x}
<1> DEFINE t == Append(s, x)
<1>1. /\ Len(s) \in Nat /\ DOMAIN s = 1..Len(s) /\ DOMAIN t = 1..(Len(s) + 1)
      /\ \A i \in 1..Len(s) : t[i] = s[i]
      /\ t[Len(s) + 1] = x
  OBVIOUS
<1> HIDE DEF t
<1>2. ToSet(t) \subseteq ToSet(s) \cup {x}
  BY <1>1 DEF ToSet
<1>3. ToSet(s) \cup {x} \subseteq ToSet(t)
  BY <1>1 DEF ToSet
<1> QED
  BY <1>2, <1>3 DEF t

\* A list with one taken out has what it had, but for that.
LEMMA Removed ==
  ASSUME NEW X, NEW s \in Seq(X), NEW i \in DOMAIN s
  PROVE  /\ RemoveAt(s, i) \in Seq(X) /\ Len(RemoveAt(s, i)) = Len(s) - 1
         /\ ToSet(RemoveAt(s, i)) \subseteq ToSet(s)
<1> DEFINE t == RemoveAt(s, i)
           front == SubSeq(s, 1, i - 1)
           back == SubSeq(s, i + 1, Len(s))
<1>1. /\ Len(s) \in Nat /\ i \in 1..Len(s) /\ DOMAIN s = 1..Len(s)
  OBVIOUS
<1>2. /\ front \in Seq(X) /\ Len(front) = i - 1
      /\ \A k \in 1..(i - 1) : front[k] = s[k]
  BY <1>1
<1>3. /\ back \in Seq(X) /\ Len(back) = Len(s) - i
      /\ \A k \in 1..(Len(s) - i) : back[k] = s[i + k]
  BY <1>1
<1>4. t = front \o back
  BY DEF RemoveAt
<1> HIDE DEF t, front, back
<1>50. /\ t \in Seq(X) /\ Len(t) = Len(front) + Len(back)
       /\ \A k \in 1..(Len(front) + Len(back)) :
            t[k] = IF k <= Len(front) THEN front[k] ELSE back[k - Len(front)]
  BY <1>2, <1>3, <1>4, ConcatProperties
<1>5. /\ t \in Seq(X) /\ Len(t) = Len(s) - 1
      /\ \A k \in 1..(Len(s) - 1) : t[k] = IF k < i THEN front[k] ELSE back[k - (i - 1)]
  BY <1>1, <1>2, <1>3, <1>50
<1>6. ASSUME NEW k \in DOMAIN t PROVE t[k] \in ToSet(s)
  <2>1. k \in 1..(Len(s) - 1)
    BY <1>1, <1>5
  <2>2. CASE k < i
    <3>1. k \in 1..(i - 1) /\ k \in DOMAIN s
      BY <1>1, <2>1, <2>2
    <3> QED
      BY <1>2, <1>5, <2>1, <2>2, <3>1 DEF ToSet
  <2>3. CASE ~(k < i)
    <3>1. k - (i - 1) \in 1..(Len(s) - i) /\ k + 1 \in DOMAIN s /\ i + (k - (i - 1)) = k + 1
      BY <1>1, <2>1, <2>3
    <3>2. t[k] = s[k + 1]
      BY <1>3, <1>5, <2>1, <2>3, <3>1
    <3> QED
      BY <3>1, <3>2 DEF ToSet
  <2> QED
    BY <2>2, <2>3
<1> QED
  BY <1>5, <1>6 DEF t, ToSet

\* An edit reaches only objects of the draft, and a saved rule leaves the draft with a new one.
LEMMA RulesStepKeeps ==
  ASSUME RulesInv, [RulesNext]_rulesVars
  PROVE  RulesInv'
<1>0. /\ rules \in Seq(Rule) /\ DOMAIN rules = 1..Len(rules) /\ Len(rules) \in 0..MaxRules
      /\ draft \in [named : BOOLEAN, conditions : Seq(Objects)] /\ Len(draft.conditions) > 0
      /\ filled \subseteq used /\ used \subseteq Objects /\ dialog \in BOOLEAN /\ MaxRules \in Nat
      /\ ToSet(draft.conditions) \subseteq used
  BY AutomationRulesAssumption DEF RulesInv, RulesTypeOK
<1>1. ASSUME NEW r \in ToSet(rules), ToggleRule(r.id) PROVE RulesInv'
  <2>1. /\ UNCHANGED <<draft, dialog, filled, used>>
        /\ rules' = [i \in DOMAIN rules |->
             IF rules[i].id = r.id THEN [rules[i] EXCEPT !.enabled = ~@] ELSE rules[i]]
    BY <1>1 DEF ToggleRule
  <2>2. ASSUME NEW i \in DOMAIN rules
        PROVE  rules'[i] \in Rule /\ rules'[i].conditions = rules[i].conditions
    <3>1. rules[i] \in Rule
      BY <1>0
    <3> QED
      BY <2>1, <3>1 DEF Rule
  <2>3. DOMAIN rules' = DOMAIN rules /\ rules' \in Seq(Rule) /\ Len(rules') = Len(rules)
    BY <1>0, <2>1, <2>2
  <2>4. RulesTypeOK'
    BY <1>0, <2>1, <2>3 DEF RulesTypeOK
  <2> QED
    BY <2>1, <2>2, <2>3, <2>4 DEF RulesInv, SavedStaysFilled
<1>2. ASSUME NEW r \in ToSet(rules), DeleteRule(r.id) PROVE RulesInv'
  <2> DEFINE S == {i \in DOMAIN rules : rules[i].id # r.id}
  <2>1. UNCHANGED <<draft, dialog, filled, used>> /\ rules' = Thin(rules, S)
    BY <1>2 DEF DeleteRule
  <2>2. /\ rules' \in Seq(Rule) /\ Len(rules') <= Len(rules)
        /\ \A k \in DOMAIN rules' : \E i \in DOMAIN rules : rules'[k] = rules[i]
    <3>1. S \in SUBSET DOMAIN rules
      OBVIOUS
    <3> HIDE DEF S
    <3> QED
      BY <1>0, <2>1, <3>1, ThinKeeps
  <2>3. RulesTypeOK'
    BY <1>0, <2>1, <2>2 DEF RulesTypeOK
  <2> QED
    BY <2>1, <2>2, <2>3 DEF RulesInv, SavedStaysFilled
<1>3. ASSUME NEW c \in BOOLEAN, Dialog(c) \/ NameRule(c) PROVE RulesInv'
  <2>1. /\ UNCHANGED <<rules, filled, used>> /\ dialog' \in BOOLEAN
        /\ draft' \in [named : BOOLEAN, conditions : Seq(Objects)]
        /\ draft'.conditions = draft.conditions
    BY <1>0, <1>3 DEF Dialog, NameRule
  <2> QED
    BY <1>0, <2>1 DEF RulesInv, RulesTypeOK, SavedStaysFilled
<1>4. CASE AddCondition
  <2>1. /\ UNCHANGED <<rules, dialog, filled>> /\ used' = used \cup {Fresh}
        /\ draft' = [draft EXCEPT !.conditions = Append(@, Fresh)]
    BY <1>4 DEF AddCondition
  <2>2. Fresh \in Objects \ used
    BY <1>0, <1>4, FreshIsNew DEF AddCondition
  <2>3. /\ draft' \in [named : BOOLEAN, conditions : Seq(Objects)] /\ Len(draft'.conditions) > 0
        /\ ToSet(draft'.conditions) = ToSet(draft.conditions) \cup {Fresh}
    <3>1. draft.conditions \in Seq(Objects) /\ draft'.conditions = Append(draft.conditions, Fresh)
      BY <1>0, <2>1
    <3>2. ToSet(draft'.conditions) = ToSet(draft.conditions) \cup {Fresh}
      BY <3>1, Appended
    <3>3. Append(draft.conditions, Fresh) \in Seq(Objects) /\ Len(Append(draft.conditions, Fresh)) > 0
      BY <2>2, <3>1
    <3> QED
      BY <1>0, <2>1, <3>1, <3>2, <3>3
  <2>4. RulesTypeOK'
    BY <1>0, <2>1, <2>2, <2>3 DEF RulesTypeOK
  <2>5. \A i \in DOMAIN rules : Fresh \notin ToSet(rules[i].conditions)
    BY <1>0, <2>2 DEF RulesInv, SavedStaysFilled
  <2>6. SavedStaysFilled'
    BY <2>1, <2>3, <2>5 DEF RulesInv, SavedStaysFilled
  <2> QED
    BY <1>0, <2>1, <2>3, <2>4, <2>6 DEF RulesInv
<1>5. CASE SaveNewRule
  <2> DEFINE new == [id |-> Len(rules) + 1, conditions |-> draft.conditions,
                     enabled |-> TRUE, priority |-> Len(rules) + 1]
  <2>1. /\ rules' = Append(rules, new) /\ dialog' = FALSE /\ used' = used \cup {Fresh}
        /\ draft' = [named |-> FALSE, conditions |-> <<Fresh>>] /\ filled' = filled
        /\ ToSet(draft.conditions) \subseteq filled /\ Len(rules) < MaxRules
    BY <1>5 DEF SaveNewRule, NextDraft
  <2>2. Fresh \in Objects \ used
    BY <1>0, <1>5, FreshIsNew DEF SaveNewRule
  <2>3. new \in Rule /\ new.conditions = draft.conditions
    BY <1>0 DEF Rule
  <2> HIDE DEF new
  <2>4. /\ rules' \in Seq(Rule) /\ Len(rules') = Len(rules) + 1
        /\ \A i \in DOMAIN rules' : rules'[i] = new \/ \E j \in DOMAIN rules : rules'[i] = rules[j]
    BY <1>0, <2>1, <2>3
  <2>5. /\ draft' \in [named : BOOLEAN, conditions : Seq(Objects)] /\ Len(draft'.conditions) > 0
        /\ ToSet(draft'.conditions) = {Fresh}
    BY <2>1, <2>2 DEF ToSet
  <2>60. dialog' \in BOOLEAN
    BY <2>1
  <2>61. Len(rules') <= MaxRules
    BY <1>0, <2>1, <2>4
  <2>6. RulesTypeOK'
    BY <1>0, <2>1, <2>2, <2>4, <2>5, <2>60, <2>61 DEF RulesTypeOK
  <2>7. ASSUME NEW i \in DOMAIN rules'
        PROVE  ToSet(rules'[i].conditions) \subseteq filled
    BY <2>1, <2>3, <2>4 DEF RulesInv, SavedStaysFilled
  <2> QED
    BY <1>0, <2>1, <2>2, <2>5, <2>6, <2>7 DEF RulesInv, SavedStaysFilled
<1>6. ASSUME NEW i \in DOMAIN draft.conditions, RemoveCondition(i) PROVE RulesInv'
  <2>1. /\ UNCHANGED <<rules, dialog, filled, used>> /\ Len(draft.conditions) > 1
        /\ draft' = [draft EXCEPT !.conditions = RemoveAt(@, i)]
    BY <1>6 DEF RemoveCondition, Removable
  <2>2. /\ RemoveAt(draft.conditions, i) \in Seq(Objects)
        /\ Len(RemoveAt(draft.conditions, i)) = Len(draft.conditions) - 1
        /\ ToSet(RemoveAt(draft.conditions, i)) \subseteq ToSet(draft.conditions)
    <3>1. draft.conditions \in Seq(Objects)
      BY <1>0
    <3> QED
      BY <3>1, Removed
  <2>3. /\ draft' \in [named : BOOLEAN, conditions : Seq(Objects)]
        /\ draft'.conditions = RemoveAt(draft.conditions, i)
    BY <1>0, <2>1, <2>2
  <2>4. Len(draft'.conditions) > 0
    BY <1>0, <2>1, <2>2, <2>3
  <2>5. RulesTypeOK'
    BY <1>0, <2>1, <2>3, <2>4 DEF RulesTypeOK
  <2> QED
    BY <1>0, <2>1, <2>2, <2>3, <2>5 DEF RulesInv, SavedStaysFilled
<1>7. ASSUME NEW i \in DOMAIN draft.conditions, NEW empty \in BOOLEAN, UpdateCondition(i, empty)
      PROVE  RulesInv'
  <2> DEFINE o == draft.conditions[i]
  <2>1. UNCHANGED <<rules, draft, dialog, used>> /\ filled' \in {filled \ {o}, filled \cup {o}}
    BY <1>7 DEF UpdateCondition
  <2>2. o \in ToSet(draft.conditions) /\ o \in used
    BY <1>0 DEF ToSet
  <2> HIDE DEF o
  <2>3. RulesTypeOK'
    BY <1>0, <2>1, <2>2 DEF RulesTypeOK
  <2> QED
    BY <2>1, <2>2, <2>3 DEF RulesInv, SavedStaysFilled
<1>8. CASE UNCHANGED rulesVars
  BY <1>8 DEF rulesVars, RulesInv, RulesTypeOK, SavedStaysFilled
<1> QED
  BY <1>1, <1>2, <1>3, <1>4, <1>5, <1>6, <1>7, <1>8 DEF RulesNext

\* Of every state: what is saved is filled and shared with no draft.
LEMMA RulesInvariant == RulesSpec => []RulesInv
<1>1. ASSUME RulesInit PROVE RulesInv
  <2> DEFINE first(i) == [id |-> i, conditions |-> <<i>>, enabled |-> i # 3, priority |-> i]
  <2>1. /\ rules = [i \in 1..3 |-> first(i)]
        /\ draft = [named |-> FALSE, conditions |-> <<4>>]
        /\ dialog = FALSE /\ filled = 1..3 /\ used = 1..4
    BY <1>1 DEF RulesInit
  <2>2. \A i \in 1..3 : first(i) \in Rule /\ ToSet(first(i).conditions) = {i}
    BY AutomationRulesAssumption DEF Rule, ToSet
  <2>3. draft \in [named : BOOLEAN, conditions : Seq(Objects)] /\ Len(draft.conditions) > 0
        /\ ToSet(draft.conditions) = {4}
    BY <2>1, AutomationRulesAssumption DEF ToSet
  <2> HIDE DEF first
  <2>4. rules \in Seq(Rule) /\ DOMAIN rules = 1..3 /\ Len(rules) = 3
    BY <2>1, <2>2
  <2>50. dialog \in BOOLEAN
    BY <2>1
  <2>51. filled \subseteq used
    BY <2>1
  <2>5. RulesTypeOK
    BY <2>1, <2>3, <2>4, <2>50, <2>51, AutomationRulesAssumption DEF RulesTypeOK
  <2>6. \A i \in DOMAIN rules : ToSet(rules[i].conditions) = {i}
    BY <2>1, <2>2, <2>4
  <2> QED
    BY <2>1, <2>3, <2>4, <2>5, <2>6 DEF RulesInv, SavedStaysFilled
<1> QED
  BY <1>1, RulesStepKeeps, PTL DEF RulesSpec

\* A saved rule has all its values for good and shares no object with the draft, for any
\* number of rules and conditions (updateCondition, saveNewRule).
THEOREM SavedStaysFilledCorrect == RulesSpec => []SavedStaysFilled
<1>1. RulesInv => SavedStaysFilled
  BY DEF RulesInv
<1> QED
  BY <1>1, RulesInvariant, PTL

-----------------------------------------------------------------------------
(* StatementImport                                                         *)

\* What the timers and the page are to each other. An import waits behind all other timers
\* and with the page empty; once there are results every timer is of an approval of them.
StatementInv ==
  /\ StatementTypeOK
  /\ results = Nothing => selected = {}
  /\ Shown => selected \subseteq results.matched
  /\ importing <=> \E i \in DOMAIN timers : timers[i] = Import
  /\ \A i \in DOMAIN timers : timers[i] = Import => i = Len(timers)
  /\ importing => ~Shown /\ imports > 0
  /\ Shown => \A i \in DOMAIN timers : timers[i] = Approval(results.import)

TimersSet == {Import} \cup {Approval(n) : n \in 1..Imports}

\* What is put behind the other timers.
LEMMA TimerAdded ==
  ASSUME timers \in Seq(TimersSet), NEW t \in TimersSet, timers' = Append(timers, t)
  PROVE  /\ timers' \in Seq(TimersSet) /\ Len(timers') = Len(timers) + 1
         /\ DOMAIN timers' = 1..(Len(timers) + 1) /\ DOMAIN timers = 1..Len(timers)
         /\ Len(timers) \in Nat
         /\ timers'[Len(timers) + 1] = t
         /\ \A i \in DOMAIN timers : timers'[i] = timers[i]
  OBVIOUS

\* The timers go off in the order they were set.
LEMMA TimerTaken ==
  ASSUME timers \in Seq(TimersSet), timers # <<>>, timers' = Left
  PROVE  /\ timers' \in Seq(TimersSet) /\ Due = 1
         /\ Len(timers) \in Nat \ {0} /\ Len(timers') = Len(timers) - 1
         /\ DOMAIN timers' = 1..(Len(timers) - 1) /\ DOMAIN timers = 1..Len(timers)
         /\ \A i \in DOMAIN timers' : timers'[i] = timers[i + 1]
         /\ timers[1] \in TimersSet
<1>1. Due = 1
  BY DEF Due, Overtaken
<1>2. Len(timers) \in Nat \ {0} /\ DOMAIN timers = 1..Len(timers)
  OBVIOUS
<1>3. timers' = [i \in 1..(Len(timers) - 1) |-> timers[i + 1]]
  BY <1>1, <1>2 DEF Left
<1> QED
  BY <1>1, <1>2, <1>3

\* A timer is an import or an approval, which are told apart.
LEMMA TimerKinds ==
  /\ \A t \in TimersSet : t.what = "import" => t = Import
  /\ \A t \in TimersSet : t.what = "approval" => \E n \in 1..Imports : t = Approval(n)
  /\ \A n \in 1..Imports : Approval(n) \in TimersSet /\ Approval(n) # Import
  /\ Import \in TimersSet
<1>1. Import.what = "import" /\ \A n \in 1..Imports : Approval(n).what = "approval"
  BY DEF Import, Approval
<1> QED
  BY <1>1 DEF TimersSet

\* Every step keeps the order of the timers, and results go only by a timer of their own.
LEMMA StatementStepKeeps ==
  ASSUME StatementInv, [StatementNext]_statementVars
  PROVE  /\ StatementInv'
         /\ Shown /\ results' = Nothing /\ timers' # timers =>
              timers[Due] = Approval(results.import)
<1>0. /\ timers \in Seq(TimersSet) /\ imports \in 0..Imports /\ Imports \in Nat
      /\ DOMAIN timers = 1..Len(timers) /\ Len(timers) \in Nat
  BY StatementImportAssumption DEF StatementInv, StatementTypeOK, TimersSet
<1>1. CASE HandleFileChange
  BY <1>1 DEF HandleFileChange, StatementInv, StatementTypeOK, Shown
<1>2. CASE HandleProcess
  <2>1. timers' = Append(timers, Import) /\ imports' = imports + 1 /\ importing' /\ ~Shown
        /\ UNCHANGED <<file, results, selected>> /\ ~importing /\ ~Shown'
    BY <1>2 DEF HandleProcess, Shown
  <2>2. /\ timers' \in Seq(TimersSet) /\ Len(timers') = Len(timers) + 1
        /\ DOMAIN timers' = 1..(Len(timers) + 1)
        /\ timers'[Len(timers) + 1] = Import
        /\ \A i \in DOMAIN timers : timers'[i] = timers[i]
    BY <1>0, <2>1, TimerAdded, TimerKinds
  <2>3. imports' \in 1..Imports
    BY <1>0, <1>2, <2>1 DEF HandleProcess
  <2>4. StatementTypeOK'
    BY <1>0, <2>1, <2>2, <2>3 DEF StatementInv, StatementTypeOK, TimersSet
  <2>5. \A i \in DOMAIN timers' : timers'[i] = Import => i = Len(timers')
    BY <1>0, <2>1, <2>2 DEF StatementInv
  <2> QED
    BY <1>0, <2>1, <2>2, <2>3, <2>4, <2>5 DEF StatementInv, Shown
<1>3. CASE ImportEnds
  <2>1. PICK matched \in SUBSET Matches : results' = Imported(matched)
    BY <1>3 DEF ImportEnds
  <2>2. /\ timers # <<>> /\ timers[Due].what = "import" /\ timers' = Left
        /\ ~importing' /\ UNCHANGED <<file, selected, imports>>
    BY <1>3 DEF ImportEnds, AfterImport
  <2>3. /\ timers' \in Seq(TimersSet) /\ timers[1] = Import
        /\ DOMAIN timers' = 1..(Len(timers) - 1) /\ 1 \in DOMAIN timers
    BY <1>0, <2>2, TimerTaken, TimerKinds
  <2>4. /\ importing /\ Len(timers) = 1 /\ ~Shown /\ imports > 0 /\ selected = {}
    BY <1>0, <2>3 DEF StatementInv, Shown
  <2>5. DOMAIN timers' = {}
    BY <2>3, <2>4
  <2>6. results' \in [matched : SUBSET Matches, import : 1..Imports]
    BY <1>0, <2>1, <2>4 DEF Imported
  <2>8. selected' = {} /\ importing' = FALSE
    BY <2>2, <2>4, <1>3 DEF ImportEnds, AfterImport
  <2>7. StatementTypeOK'
    BY <2>2, <2>3, <2>6, <2>8 DEF StatementInv, StatementTypeOK, TimersSet
  <2>9. StatementInv'
    BY <2>5, <2>7, <2>8 DEF StatementInv
  <2> QED
    BY <2>4, <2>9
<1>4. CASE ApprovalEnds
  <2>1. /\ timers # <<>> /\ timers[Due].what = "approval" /\ timers' = Left
        /\ selected' = {} /\ results' = Nothing /\ file' = FALSE /\ UNCHANGED <<importing, imports>>
    BY <1>4 DEF ApprovalEnds
  <2>2. /\ timers' \in Seq(TimersSet) /\ Due = 1 /\ Len(timers) \in Nat \ {0}
        /\ DOMAIN timers' = 1..(Len(timers) - 1) /\ Len(timers') = Len(timers) - 1
        /\ \A i \in DOMAIN timers' : timers'[i] = timers[i + 1]
        /\ timers[1] # Import
    BY <1>0, <2>1, TimerTaken, TimerKinds
  <2>3. ASSUME NEW i \in DOMAIN timers', timers'[i] = Import PROVE i = Len(timers')
    <3>1. i + 1 \in DOMAIN timers /\ timers[i + 1] = Import
      BY <1>0, <2>2, <2>3
    <3> QED
      BY <1>0, <2>2, <3>1 DEF StatementInv
  <2>4. importing <=> \E i \in DOMAIN timers' : timers'[i] = Import
    <3>1. ASSUME NEW j \in DOMAIN timers, timers[j] = Import
          PROVE  j - 1 \in DOMAIN timers' /\ timers'[j - 1] = Import
      <4>1. j # 1
        BY <2>2, <3>1
      <4>2. j - 1 \in DOMAIN timers'
        BY <1>0, <2>2, <4>1
      <4>3. timers'[j - 1] = timers[(j - 1) + 1]
        BY <2>2, <4>2
      <4> QED
        BY <1>0, <3>1, <4>2, <4>3
    <3>2. ASSUME NEW i \in DOMAIN timers', timers'[i] = Import
          PROVE  \E j \in DOMAIN timers : timers[j] = Import
      BY <1>0, <2>2, <3>2
    <3> QED
      BY <3>1, <3>2 DEF StatementInv
  <2>5. StatementTypeOK'
    BY <2>1, <2>2 DEF StatementInv, StatementTypeOK, TimersSet
  <2>6. Shown => timers[Due] = Approval(results.import)
    BY <1>0, <2>2 DEF StatementInv
  <2>7. ~Shown' /\ importing' = importing
    BY <2>1 DEF Shown
  <2>8. importing' <=> \E i \in DOMAIN timers' : timers'[i] = Import
    BY <2>4, <2>7
  <2>9. importing' => imports' > 0
    BY <2>1, <2>7 DEF StatementInv
  <2>10. StatementInv'
    BY <2>1, <2>3, <2>5, <2>7, <2>8, <2>9 DEF StatementInv
  <2> QED
    BY <2>6, <2>10
<1>5. CASE HandleBulkApprove
  <2>1. /\ Shown /\ timers' = Append(timers, Approval(results.import))
        /\ UNCHANGED <<file, importing, results, selected, imports>>
    BY <1>5 DEF HandleBulkApprove
  <2>2. results.import \in 1..Imports
    BY <2>1 DEF Shown, StatementInv, StatementTypeOK
  <2> DEFINE t == Approval(results.import)
  <2>3. t \in TimersSet /\ t # Import
    BY <2>2, TimerKinds
  <2>4. /\ timers' \in Seq(TimersSet) /\ Len(timers') = Len(timers) + 1
        /\ DOMAIN timers' = 1..(Len(timers) + 1)
        /\ timers'[Len(timers) + 1] = t
        /\ \A i \in DOMAIN timers : timers'[i] = timers[i]
    BY <1>0, <2>1, <2>3, TimerAdded
  <2>5. \A i \in DOMAIN timers' : timers'[i] = t
    BY <1>0, <2>1, <2>4 DEF StatementInv
  <2>6. ~importing
    BY <2>1 DEF StatementInv
  <2>7. StatementTypeOK'
    BY <2>1, <2>4 DEF StatementInv, StatementTypeOK, TimersSet
  <2> HIDE DEF t
  <2>8. Shown' /\ \A i \in DOMAIN timers' : timers'[i] = Approval(results.import)' /\ timers'[i] # Import
    BY <2>1, <2>3, <2>5 DEF t, Shown, Approval
  <2> QED
    BY <2>1, <2>3, <2>5, <2>6, <2>7, <2>8 DEF StatementInv, Shown
<1>6. CASE \E m \in Matches : ToggleSelection(m)
  <2>1. /\ Shown /\ UNCHANGED <<file, importing, results, timers, imports>>
        /\ selected' \subseteq results.matched
    BY <1>6 DEF ToggleSelection, StatementInv
  <2>2. results.matched \subseteq Matches
    BY <2>1 DEF StatementInv, StatementTypeOK, Shown
  <2> QED
    BY <2>1, <2>2 DEF StatementInv, StatementTypeOK, Shown
<1>7. CASE SelectAllMatched
  <2>1. /\ Shown /\ UNCHANGED <<file, importing, results, timers, imports>>
        /\ selected' \subseteq results.matched
    BY <1>7 DEF SelectAllMatched, StatementInv
  <2>2. results.matched \subseteq Matches
    BY <2>1 DEF StatementInv, StatementTypeOK, Shown
  <2> QED
    BY <2>1, <2>2 DEF StatementInv, StatementTypeOK, Shown
<1>8. CASE NewImport
  BY <1>8 DEF NewImport, SelectionAfterReset, StatementInv, StatementTypeOK, Shown
<1>9. CASE UNCHANGED statementVars
  BY <1>9 DEF statementVars, StatementInv, StatementTypeOK, Shown
<1> QED
  BY <1>1, <1>2, <1>3, <1>4, <1>5, <1>6, <1>7, <1>8, <1>9 DEF StatementNext, TimerEnds

\* Of every state: the timers are in their order.
LEMMA StatementInvariant == StatementSpec => []StatementInv
<1>1. ASSUME StatementInit PROVE StatementInv
  <2>1. /\ file = FALSE /\ importing = FALSE /\ results = Nothing /\ selected = {}
        /\ timers = <<>> /\ imports = 0 /\ DOMAIN timers = {} /\ Imports \in Nat
    BY <1>1, StatementImportAssumption DEF StatementInit
  <2>2. timers \in Seq(TimersSet)
    BY <2>1
  <2>20. file \in BOOLEAN /\ importing \in BOOLEAN
    BY <2>1
  <2>21. results = Nothing /\ selected \subseteq Matches /\ imports \in 0..Imports
    BY <2>1
  <2>3. StatementTypeOK
    BY <2>20, <2>21, <2>2 DEF StatementTypeOK, TimersSet
  <2> QED
    BY <2>1, <2>3 DEF StatementInv, Shown
<1> QED
  BY <1>1, StatementStepKeeps, PTL DEF StatementSpec

\* What is selected is a matched row on the screen, for any statements, imports and presses
\* (handleBulkApprove).
THEOREM SelectedIsShownCorrect == StatementSpec => []SelectedIsShown
<1>1. StatementInv => SelectedIsShown
  BY DEF StatementInv, SelectedIsShown, Shown
<1> QED
  BY <1>1, StatementInvariant, PTL

\* A late timer never clears the results of a later import, for any number of imports and of
\* presses (handleProcess, handleBulkApprove).
THEOREM ResultsStayCorrect == StatementSpec => ResultsStay
<1>1. StatementInv /\ [StatementNext]_statementVars =>
        [Shown /\ results' = Nothing /\ timers' # timers =>
           timers[Due] = Approval(results.import)]_statementVars
  BY StatementStepKeeps
<1> QED
  BY <1>1, StatementInvariant, PTL DEF StatementSpec, ResultsStay

-----------------------------------------------------------------------------
(* Desk                                                                    *)

\* A rounded share of a part in its whole is no more than a thousand thousandths.
LEMMA ShareBounded ==
  ASSUME NEW part \in Nat, NEW whole \in Nat, part <= whole, whole > 0
  PROVE  (part * 1000 + whole \div 2) \div whole <= 1000
<1> DEFINE n == part * 1000 + whole \div 2
           q == n \div whole
<1>1. whole \div 2 \in Nat /\ whole \div 2 < whole
  OBVIOUS
<1>2. n \in Nat /\ n < whole * 1001
  BY <1>1
<1> HIDE DEF n
<1>3. q \in Nat /\ whole * q <= n
  BY <1>2
<1> HIDE DEF q
<1>4. ASSUME q >= 1001 PROVE FALSE
  <2>1. whole * q >= whole * 1001
    BY <1>3, <1>4
  <2> QED
    BY <1>2, <1>3, <2>1
<1> QED
  BY <1>3, <1>4 DEF q, n

-----------------------------------------------------------------------------
(* Types, and what every step leaves true                                    *)

\* What may become of a payment.
Onward ==
  \A p \in Payments :
    /\ status[p] # "NONE" => status'[p] # "NONE"
    /\ status[p] \notin {"NONE", "PENDING"} => status'[p] \notin {"NONE", "PENDING"}
    /\ status[p] \in {"APPROVED", "EXPIRED"} => status'[p] \in {"APPROVED", "EXPIRED"}

Replies == {"approved", "error"}
Awaits == {"idle", "find", "load", "update", "after"}

\* An entry under way is one of its batch.
LEMMA EntryOfBatch ==
  ASSUME DeskTypeOK, NEW a \in Admins, doing[a] # "idle"
  PROVE  /\ Entry(a) \in DOMAIN batch[a] /\ Mine(a) \in Payments
         /\ Entry(a) \in Nat /\ answers[a] \in Seq(Replies) /\ batch[a] \in Seq(Payments)
<1>1. batch[a] \in Seq(Payments)
  BY DeskAssumption DEF DeskTypeOK
<1>2. answers[a] \in Seq(Replies) /\ Len(answers[a]) < Len(batch[a])
  BY DEF DeskTypeOK, Replies
<1>3. Entry(a) \in Nat /\ Entry(a) \in 1..Len(batch[a])
  BY <1>1, <1>2 DEF Entry
<1> QED
  BY <1>1, <1>2, <1>3 DEF Mine

\* So is an entry answered.
LEMMA AnsweredOfBatch ==
  ASSUME DeskTypeOK, NEW a \in Admins, NEW i \in DOMAIN answers[a]
  PROVE  batch[a][i] \in Payments
<1>1. batch[a] \in Seq(Payments)
  BY DeskAssumption DEF DeskTypeOK
<1>2. answers[a] \in Seq(Replies) /\ Len(answers[a]) <= Len(batch[a])
  BY DEF DeskTypeOK, Replies
<1>3. i \in 1..Len(batch[a])
  BY <1>1, <1>2
<1> QED
  BY <1>1, <1>3

\* An answer goes to the end of the answers, and the loop goes on or ends.
LEMMA AnswerAppends ==
  ASSUME DeskTypeOK, NEW a \in Admins, doing[a] # "idle", NEW x \in Replies, Answered(a, x)
  PROVE  /\ answers' \in [Admins -> Seq(Replies)] /\ doing' \in [Admins -> Awaits]
         /\ \A o \in Admins \ {a} : answers'[o] = answers[o] /\ doing'[o] = doing[o]
         /\ DOMAIN answers'[a] = DOMAIN answers[a] \cup {Entry(a)}
         /\ \A i \in DOMAIN answers[a] : answers'[a][i] = answers[a][i]
         /\ answers'[a][Entry(a)] = x
         /\ Len(answers'[a]) <= Len(batch[a])
         /\ doing'[a] # "idle" => Len(answers'[a]) < Len(batch[a])
         /\ doing'[a] \in {"idle", "find"}
<1>1. /\ answers[a] \in Seq(Replies) /\ batch[a] \in Seq(Payments)
      /\ Entry(a) \in 1..Len(batch[a]) /\ Entry(a) = Len(answers[a]) + 1
  BY EntryOfBatch DEF Entry
<1>2. /\ answers' = [answers EXCEPT ![a] = Append(answers[a], x)]
      /\ doing' = [doing EXCEPT ![a] = IF Entry(a) = Len(batch[a]) THEN "idle" ELSE "find"]
  BY DEF Answered
<1>3. /\ Append(answers[a], x) \in Seq(Replies)
      /\ Len(Append(answers[a], x)) = Len(answers[a]) + 1
      /\ \A i \in 1..Len(answers[a]) : Append(answers[a], x)[i] = answers[a][i]
      /\ Append(answers[a], x)[Len(answers[a]) + 1] = x
  BY <1>1
<1>4. /\ answers'[a] = Append(answers[a], x)
      /\ \A o \in Admins \ {a} : answers'[o] = answers[o] /\ doing'[o] = doing[o]
      /\ doing'[a] = (IF Entry(a) = Len(batch[a]) THEN "idle" ELSE "find")
      /\ answers' \in [Admins -> Seq(Replies)] /\ doing' \in [Admins -> Awaits]
  BY <1>2, <1>3 DEF DeskTypeOK, Replies, Awaits
<1>5. DOMAIN answers[a] = 1..Len(answers[a]) /\ DOMAIN answers'[a] = 1..(Len(answers[a]) + 1)
  BY <1>1, <1>3, <1>4
<1> QED
  BY <1>1, <1>3, <1>4, <1>5

\* Everyone else moves a payment onward.
LEMMA OthersOnward ==
  ASSUME DeskTypeOK, OthersStep
  PROVE  /\ status' \in [Payments -> Statuses] /\ others' \in 0..Others
         /\ Onward /\ UNCHANGED <<statsVars, batchVars, refusals>>
<1>1. PICK p \in Payments : OtherMoves(p) \/ OtherDecides(p)
  BY DEF OthersStep
<1>2. others' \in 0..Others
  BY <1>1, DeskAssumption DEF OtherMoves, OtherDecides, DeskTypeOK
<1>3. CASE OtherMoves(p)
  <2> DEFINE next == CASE status[p] = "NONE" -> "PENDING"
                       [] status[p] = "PENDING" -> "WAITING"
                       [] status[p] = "WAITING" -> "APPROVED"
                       [] OTHER -> "EXPIRED"
  <2>1. status' = [status EXCEPT ![p] = next]
    BY <1>3 DEF OtherMoves
  <2>2. /\ next \in Statuses /\ next # "NONE" /\ (status[p] # "NONE" => next # "PENDING")
        /\ status[p] \in {"APPROVED", "EXPIRED"} => next = "EXPIRED"
    BY DEF Statuses
  <2> HIDE DEF next
  <2> QED
    BY <1>2, <1>3, <2>1, <2>2 DEF OtherMoves, DeskTypeOK, Onward
<1>4. CASE OtherDecides(p)
  <2>1. PICK s \in {"APPROVED", "REJECTED", "EXPIRED"} : status' = [status EXCEPT ![p] = s]
    BY <1>4 DEF OtherDecides
  <2> QED
    BY <1>2, <1>4, <2>1 DEF OtherDecides, DeskTypeOK, Onward, Statuses
<1> QED
  BY <1>1, <1>3, <1>4

\* The reads of the dashboard touch nothing of the batches.
LEMMA StatsTyped ==
  ASSUME DeskTypeOK, StatsStep
  PROVE  DeskTypeOK' /\ UNCHANGED <<status, batchVars, refusals, others>>
<1> DEFINE Names == {ReadsOf[i] : i \in 1..5}
<1>1. UNCHANGED <<status, batchVars, refusals, others>>
  BY DEF StatsStep, StatsRead, StatsAnswered
<1>2. reads' \in 0..5
  BY DEF StatsStep, StatsRead, StatsAnswered, DeskTypeOK
<1>3. \A read : Count(read) \subseteq Payments
  BY DeskAssumption DEF Count
<1>4. counted' \in [Names -> SUBSET Payments]
  BY <1>3 DEF StatsStep, StatsRead, StatsAnswered, DeskTypeOK
<1> QED
  BY <1>1, <1>2, <1>4 DEF DeskTypeOK, batchVars

\* So do the steps of a batch leave the dashboard's alone.
LEMMA BatchTyped ==
  ASSUME DeskTypeOK, BatchStep
  PROVE  DeskTypeOK' /\ Onward /\ UNCHANGED statsVars
<1>1. PICK a \in Admins : \/ EntryStep(a) \/ EntryRefused(a) \/ PendingListed(a)
                          \/ \E list \in Batches : BatchSent(a, list)
  BY DEF BatchStep
<1>2. ASSUME doing[a] # "idle", NEW x \in Replies, Answered(a, x), UNCHANGED <<pending, batch>>
      PROVE  /\ answers' \in [Admins -> Seq({"approved", "error"})]
             /\ doing' \in [Admins -> {"idle", "find", "load", "update", "after"}]
             /\ \A o \in Admins : /\ Len(answers'[o]) <= Len(batch'[o])
                                  /\ doing'[o] # "idle" => Len(answers'[o]) < Len(batch'[o])
  BY <1>2, AnswerAppends DEF Replies, Awaits, DeskTypeOK
<1>3. ASSUME doing[a] # "idle", NEW to \in Awaits, Goes(a, to), UNCHANGED <<pending, batch>>
      PROVE  /\ answers' \in [Admins -> Seq({"approved", "error"})]
             /\ doing' \in [Admins -> {"idle", "find", "load", "update", "after"}]
             /\ \A o \in Admins : /\ Len(answers'[o]) <= Len(batch'[o])
                                  /\ doing'[o] # "idle" => Len(answers'[o]) < Len(batch'[o])
  BY <1>3 DEF Goes, Awaits, DeskTypeOK
<1>4. CASE EntryRefused(a)
  <2>1. /\ answers' \in [Admins -> Seq({"approved", "error"})]
        /\ doing' \in [Admins -> {"idle", "find", "load", "update", "after"}]
        /\ \A o \in Admins : /\ Len(answers'[o]) <= Len(batch'[o])
                             /\ doing'[o] # "idle" => Len(answers'[o]) < Len(batch'[o])
    BY <1>2, <1>4 DEF EntryRefused, Replies
  <2> QED
    BY <1>4, <2>1, DeskAssumption DEF EntryRefused, DeskTypeOK, statsVars, Onward
<1>5. CASE EntryRead(a)
  <2>1. /\ answers' \in [Admins -> Seq({"approved", "error"})]
        /\ doing' \in [Admins -> {"idle", "find", "load", "update", "after"}]
        /\ \A o \in Admins : /\ Len(answers'[o]) <= Len(batch'[o])
                             /\ doing'[o] # "idle" => Len(answers'[o]) < Len(batch'[o])
    BY <1>2, <1>3, <1>5 DEF EntryRead, Replies, Awaits
  <2> QED
    BY <1>5, <2>1 DEF EntryRead, DeskTypeOK, statsVars, Onward
<1>6. CASE EntryUpdates(a)
  <2>1. /\ answers' \in [Admins -> Seq({"approved", "error"})]
        /\ doing' \in [Admins -> {"idle", "find", "load", "update", "after"}]
        /\ \A o \in Admins : /\ Len(answers'[o]) <= Len(batch'[o])
                             /\ doing'[o] # "idle" => Len(answers'[o]) < Len(batch'[o])
    BY <1>2, <1>3, <1>6 DEF EntryUpdates, Replies, Awaits
  <2>2. Mine(a) \in Payments /\ Entry(a) \in Nat
    BY <1>6, EntryOfBatch DEF EntryUpdates
  <2>3. CASE Updatable(Mine(a))
    <3>1. /\ status' = [status EXCEPT ![Mine(a)] = "APPROVED"] /\ status[Mine(a)] = "PENDING"
          /\ approvals' = [approvals EXCEPT ![Mine(a)] = @ \cup {<<a, Entry(a)>>}]
      BY <1>6, <2>3 DEF EntryUpdates, Updatable
    <3>2. status' \in [Payments -> Statuses] /\ Onward
      BY <2>2, <3>1 DEF DeskTypeOK, Statuses, Onward
    <3>3. approvals' \in [Payments -> SUBSET (Admins \X Nat)]
      BY <2>2, <3>1 DEF DeskTypeOK
    <3> QED
      BY <1>6, <2>1, <3>2, <3>3 DEF EntryUpdates, DeskTypeOK, statsVars
  <2>4. CASE ~Updatable(Mine(a))
    BY <1>6, <2>1, <2>4 DEF EntryUpdates, DeskTypeOK, statsVars, Onward
  <2> QED
    BY <2>3, <2>4
<1>7. CASE EntryEnds(a)
  <2>1. /\ answers' \in [Admins -> Seq({"approved", "error"})]
        /\ doing' \in [Admins -> {"idle", "find", "load", "update", "after"}]
        /\ \A o \in Admins : /\ Len(answers'[o]) <= Len(batch'[o])
                             /\ doing'[o] # "idle" => Len(answers'[o]) < Len(batch'[o])
    BY <1>2, <1>7 DEF EntryEnds, Replies
  <2> QED
    BY <1>7, <2>1 DEF EntryEnds, DeskTypeOK, statsVars, Onward
<1>8. CASE PendingListed(a)
  BY <1>8 DEF PendingListed, DeskTypeOK, statsVars, Onward
<1>9. ASSUME NEW list \in Batches, BatchSent(a, list)
      PROVE  DeskTypeOK' /\ Onward /\ UNCHANGED statsVars
  <2>1. list \in Seq(Payments) /\ Len(list) > 0
    BY <1>9, DeskAssumption DEF BatchSent
  <2>2. Len(answers[a]) = 0
    BY <1>9 DEF BatchSent, DeskTypeOK
  <2> QED
    BY <1>9, <2>1, <2>2 DEF BatchSent, DeskTypeOK, statsVars, Onward
<1> QED
  BY <1>1, <1>4, <1>5, <1>6, <1>7, <1>8, <1>9 DEF EntryStep

\* Every step keeps the types and moves payments onward.
LEMMA DeskStepTyped == DeskTypeOK /\ [DeskNext]_deskVars => DeskTypeOK' /\ Onward
<1> SUFFICES ASSUME DeskTypeOK, [DeskNext]_deskVars PROVE DeskTypeOK' /\ Onward
  OBVIOUS
<1>1. CASE StatsStep
  BY <1>1, StatsTyped DEF Onward
<1>2. CASE BatchStep
  BY <1>2, BatchTyped
<1>3. CASE OthersStep
  BY <1>3, OthersOnward DEF DeskTypeOK, statsVars, batchVars
<1>4. CASE UNCHANGED deskVars
  BY <1>4 DEF deskVars, statsVars, batchVars, DeskTypeOK, Onward
<1> QED
  BY <1>1, <1>2, <1>3, <1>4 DEF DeskNext

\* The initial states have the types.
LEMMA DeskInitTyped == DeskInit => DeskTypeOK
BY DeskAssumption DEF DeskInit, DeskTypeOK, Statuses

-----------------------------------------------------------------------------
(* Who approved a payment                                                    *)

\* A payment an entry approved is not pending again, so no second entry approves it.
Own ==
  /\ \A p \in Payments : approvals[p] # {} => status[p] \notin {"NONE", "PENDING"}
  /\ \A a \in Admins : doing[a] = "after" => approvals[Mine(a)] = {<<a, Entry(a)>>}
  /\ ApprovedIsOwn

\* An answer to an entry: "approved" only to the one that approved its payment.
LEMMA AnswerOwn ==
  ASSUME DeskTypeOK, Own, NEW a \in Admins, doing[a] # "idle", NEW x \in Replies, Answered(a, x),
         x = "approved" => doing[a] = "after", UNCHANGED <<status, batch, approvals>>
  PROVE  Own'
<1>1. \A o \in Admins \ {a} : Mine(o)' = Mine(o) /\ Entry(o)' = Entry(o) /\ doing'[o] = doing[o]
  BY AnswerAppends DEF Mine, Entry
<1>2. \A o \in Admins : doing'[o] = "after" => approvals'[Mine(o)'] = {<<o, Entry(o)'>>}
  BY <1>1, AnswerAppends DEF Own
<1>3. ASSUME NEW o \in Admins, NEW i \in DOMAIN answers'[o], answers'[o][i] = "approved"
      PROVE  approvals'[batch'[o][i]] = {<<o, i>>}
  <2>1. CASE o # a
    <3>1. answers'[o] = answers[o]
      BY <2>1, AnswerAppends
    <3> QED
      BY <1>3, <3>1 DEF Own, ApprovedIsOwn
  <2>2. CASE o = a /\ i \in DOMAIN answers[a]
    BY <1>3, <2>2, AnswerAppends DEF Own, ApprovedIsOwn
  <2>3. CASE o = a /\ i = Entry(a)
    BY <1>3, <2>3, AnswerAppends DEF Own, Mine
  <2> QED
    BY <1>3, <2>1, <2>2, <2>3, AnswerAppends
<1> QED
  BY <1>2, <1>3 DEF Own, ApprovedIsOwn

\* The update of an entry is the first to approve its payment.
LEMMA UpdateOwn ==
  ASSUME DeskTypeOK, Own, NEW a \in Admins, EntryUpdates(a)
  PROVE  Own'
<1>1. Mine(a) \in Payments /\ doing[a] # "idle"
  BY EntryOfBatch DEF EntryUpdates
<1>2. CASE ~Updatable(Mine(a))
  BY <1>1, <1>2, AnswerOwn DEF EntryUpdates, Replies
<1>3. CASE Updatable(Mine(a))
  <2>1. /\ status' = [status EXCEPT ![Mine(a)] = "APPROVED"] /\ status[Mine(a)] = "PENDING"
        /\ approvals' = [approvals EXCEPT ![Mine(a)] = @ \cup {<<a, Entry(a)>>}]
        /\ doing' = [doing EXCEPT ![a] = "after"] /\ UNCHANGED <<answers, batch>>
    BY <1>3 DEF EntryUpdates, Updatable, Goes
  <2>2. approvals[Mine(a)] = {}
    BY <1>1, <2>1 DEF Own
  <2>3. /\ approvals'[Mine(a)] = {<<a, Entry(a)>>}
        /\ \A p \in Payments \ {Mine(a)} : approvals'[p] = approvals[p] /\ status'[p] = status[p]
        /\ status'[Mine(a)] = "APPROVED"
    BY <1>1, <2>1, <2>2 DEF DeskTypeOK
  <2>4. \A o \in Admins : Mine(o)' = Mine(o) /\ Entry(o)' = Entry(o)
    BY <2>1 DEF Mine, Entry
  <2>5. ASSUME NEW o \in Admins, doing'[o] = "after"
        PROVE  approvals'[Mine(o)] = {<<o, Entry(o)>>}
    <3>1. CASE o = a
      BY <2>3, <3>1
    <3>2. CASE o # a
      <4>1. doing[o] = "after"
        BY <2>1, <2>5, <3>2 DEF DeskTypeOK
      <4>2. approvals[Mine(o)] = {<<o, Entry(o)>>} /\ Mine(o) \in Payments
        BY <4>1, EntryOfBatch DEF Own
      <4> QED
        BY <2>2, <2>3, <4>2
    <3> QED
      BY <3>1, <3>2
  <2>6. ASSUME NEW o \in Admins, NEW i \in DOMAIN answers[o], answers[o][i] = "approved"
        PROVE  approvals'[batch[o][i]] = {<<o, i>>}
    <3>1. approvals[batch[o][i]] = {<<o, i>>} /\ batch[o][i] \in Payments
      BY <2>6, AnsweredOfBatch DEF Own, ApprovedIsOwn
    <3>2. batch[o][i] # Mine(a)
      BY <2>2, <3>1
    <3> QED
      BY <2>3, <3>1, <3>2
  <2> QED
    BY <2>1, <2>3, <2>4, <2>5, <2>6 DEF Own, ApprovedIsOwn
<1> QED
  BY <1>2, <1>3

\* Every step keeps it.
LEMMA StepOwn == DeskTypeOK /\ Own /\ [DeskNext]_deskVars => Own'
<1> SUFFICES ASSUME DeskTypeOK, Own, [DeskNext]_deskVars PROVE Own'
  OBVIOUS
<1>1. ASSUME Onward, UNCHANGED batchVars PROVE Own'
  BY <1>1 DEF Own, ApprovedIsOwn, Mine, Entry, Onward, batchVars
<1>2. CASE StatsStep
  BY <1>1, <1>2, StatsTyped DEF Onward
<1>3. CASE OthersStep
  BY <1>1, <1>3, OthersOnward
<1>4. CASE UNCHANGED deskVars
  BY <1>1, <1>4 DEF deskVars, Onward
<1>5. CASE BatchStep
  <2>1. PICK a \in Admins : \/ EntryStep(a) \/ EntryRefused(a) \/ PendingListed(a)
                            \/ \E list \in Batches : BatchSent(a, list)
    BY <1>5 DEF BatchStep
  <2>2. ASSUME NEW to \in {"load", "update"}, Goes(a, to), UNCHANGED <<status, batch, approvals>>
        PROVE  Own'
    BY <2>2 DEF Own, ApprovedIsOwn, Mine, Entry, Goes, DeskTypeOK
  <2>3. CASE EntryRead(a)
    BY <2>2, <2>3, AnswerOwn DEF EntryRead, Replies
  <2>4. CASE EntryUpdates(a)
    BY <2>4, UpdateOwn
  <2>5. CASE EntryEnds(a)
    BY <2>5, AnswerOwn DEF EntryEnds, Replies
  <2>6. CASE EntryRefused(a)
    BY <2>6, AnswerOwn DEF EntryRefused, Replies
  <2>7. CASE PendingListed(a)
    BY <2>7 DEF PendingListed, Own, ApprovedIsOwn, Mine, Entry
  <2>8. ASSUME NEW list \in Batches, BatchSent(a, list) PROVE Own'
    <3>1. DOMAIN answers[a] = {}
      BY <2>8 DEF BatchSent, DeskTypeOK
    <3>2. /\ \A o \in Admins \ {a} : batch'[o] = batch[o] /\ doing'[o] = doing[o]
          /\ doing'[a] = "find" /\ UNCHANGED <<status, answers, approvals>>
      BY <2>8 DEF BatchSent, DeskTypeOK
    <3>3. \A o \in Admins \ {a} : Mine(o)' = Mine(o) /\ Entry(o)' = Entry(o)
      BY <3>2 DEF Mine, Entry
    <3> QED
      BY <3>1, <3>2, <3>3 DEF Own, ApprovedIsOwn
  <2> QED
    BY <2>1, <2>3, <2>4, <2>5, <2>6, <2>7, <2>8 DEF EntryStep
<1> QED
  BY <1>2, <1>3, <1>4, <1>5 DEF DeskNext

\* Before any answer nothing is claimed.
LEMMA InitOwn == DeskInit => Own
BY DEF DeskInit, Own, ApprovedIsOwn

\* Whatever administrators and the rest of the program do, a payment reported approved
\* to an administrator was approved by that entry and by no other (batchApprove).
THEOREM ApprovedIsOwnCorrect == DeskSpec => []ApprovedIsOwn
<1>1. DeskInit => DeskTypeOK /\ Own
  BY DeskInitTyped, InitOwn
<1>2. DeskTypeOK /\ Own /\ [DeskNext]_deskVars => (DeskTypeOK /\ Own)'
  BY DeskStepTyped, StepOwn
<1>3. DeskTypeOK /\ Own => ApprovedIsOwn
  BY DEF Own
<1> QED
  BY <1>1, <1>2, <1>3, PTL DEF DeskSpec

-----------------------------------------------------------------------------
(* What the dashboard has counted                                            *)

\* By the reads made, what was counted is still so: in the order of the code, what
\* a later read must contain was counted before it.
Counted ==
  /\ reads >= 1 => \A p \in counted["approved"] :
                     p \in Today /\ status[p] \in {"APPROVED", "EXPIRED"}
  /\ reads >= 3 => \A p \in counted["pending"] :
                     p \notin counted["approved"] /\ p \in Payments /\ status[p] # "NONE"
  /\ reads >= 4 => counted["approved"] \cup (counted["pending"] \cap Today) \subseteq counted["total"]

\* A read counts what is so as it is made.
LEMMA ReadCounts ==
  ASSUME DeskTypeOK, Counted, StatsRead
  PROVE  Counted'
<1> USE DeskAssumption
<1>1. reads \in 0..4 /\ reads' = reads + 1 /\ UNCHANGED status
  BY DEF StatsRead, DeskTypeOK
<1>2. DOMAIN counted = {"approved", "weekly", "pending", "total", "commission"}
  <2>1. {ReadsOf[i] : i \in 1..5} = {"approved", "weekly", "pending", "total", "commission"}
    <3>1. 1..5 = {1, 2, 3, 4, 5}
      OBVIOUS
    <3> QED
      BY <3>1 DEF ReadsOf
  <2> QED
    BY <2>1 DEF DeskTypeOK
<1>3. CASE reads = 0
  <2>1. counted' = [counted EXCEPT !["approved"] = {p \in Today : status[p] = "APPROVED"}]
    BY <1>3 DEF StatsRead, ReadOrder, Count
  <2> QED
    BY <1>1, <1>2, <1>3, <2>1 DEF Counted
<1>4. CASE reads = 1
  <2>1. counted' = [counted EXCEPT !["weekly"] = {p \in Payments : status[p] = "APPROVED"}]
    BY <1>4 DEF StatsRead, ReadOrder, Count
  <2> QED
    BY <1>1, <1>2, <1>4, <2>1 DEF Counted
<1>5. CASE reads = 2
  <2>1. counted' = [counted EXCEPT !["pending"] = {p \in Payments : status[p] = "PENDING"}]
    BY <1>5 DEF StatsRead, ReadOrder, Count
  <2> QED
    BY <1>1, <1>2, <1>5, <2>1 DEF Counted
<1>6. CASE reads = 3
  <2>1. counted' = [counted EXCEPT !["total"] = {p \in Today : status[p] # "NONE"}]
    BY <1>6 DEF StatsRead, ReadOrder, Count
  <2> QED
    BY <1>1, <1>2, <1>6, <2>1 DEF Counted
<1>7. CASE reads = 4
  <2>1. counted' = [counted EXCEPT !["commission"] = {p \in Today : status[p] = "APPROVED"}]
    BY <1>7 DEF StatsRead, ReadOrder, Count
  <2> QED
    BY <1>1, <1>2, <1>7, <2>1 DEF Counted
<1> QED
  BY <1>1, <1>3, <1>4, <1>5, <1>6, <1>7

\* Every step keeps what was counted so.
LEMMA StepCounted == DeskTypeOK /\ Counted /\ [DeskNext]_deskVars => Counted'
<1> SUFFICES ASSUME DeskTypeOK, Counted, [DeskNext]_deskVars PROVE Counted'
  OBVIOUS
<1>1. ASSUME Onward, UNCHANGED statsVars PROVE Counted'
  BY <1>1, DeskAssumption DEF Counted, Onward, statsVars
<1>2. CASE StatsAnswered
  BY <1>2 DEF StatsAnswered, Counted
<1>3. CASE StatsRead
  BY <1>3, ReadCounts
<1>4. CASE BatchStep
  BY <1>1, <1>4, BatchTyped
<1>5. CASE OthersStep
  BY <1>1, <1>5, OthersOnward
<1>6. CASE UNCHANGED deskVars
  BY <1>1, <1>6 DEF deskVars, Onward
<1> QED
  BY <1>2, <1>3, <1>4, <1>5, <1>6 DEF DeskNext, StatsStep

\* What was counted adds up, and its share is at most the whole.
LEMMA CountedAddsUp == DeskTypeOK /\ Counted => StatsAddUp
<1> SUFFICES ASSUME DeskTypeOK, Counted, reads = 5
             PROVE  /\ counted["approved"] \cap counted["pending"] = {}
                    /\ counted["approved"] \cup (counted["pending"] \cap Today) \subseteq counted["total"]
                    /\ SuccessRate <= 1000
  BY DEF StatsAddUp
<1>1. /\ counted["approved"] \cap counted["pending"] = {}
      /\ counted["approved"] \cup (counted["pending"] \cap Today) \subseteq counted["total"]
  BY DEF Counted
<1>2. counted["total"] \subseteq Payments
  <2>1. ReadsOf[4] = "total" /\ 4 \in 1..5
    BY DEF ReadsOf
  <2>2. "total" \in {ReadsOf[i] : i \in 1..5}
    BY <2>1
  <2> QED
    BY <2>2 DEF DeskTypeOK
<1>3. IsFiniteSet(counted["total"])
  BY <1>2, FS_Subset, DeskAssumption
<1>4. /\ Cardinality(counted["approved"]) \in Nat /\ Cardinality(counted["total"]) \in Nat
      /\ Cardinality(counted["approved"]) <= Cardinality(counted["total"])
  BY <1>1, <1>3, FS_Subset, FS_CardinalityType
<1>5. SuccessRate <= 1000
  BY <1>4, ShareBounded DEF SuccessRate
<1> QED
  BY <1>1, <1>5

\* The five reads of the dashboard add up whatever is decided between them
\* (getDashboardStats).
THEOREM StatsAddUpCorrect == DeskSpec => []StatsAddUp
<1>1. DeskInit => DeskTypeOK /\ Counted
  BY DeskInitTyped DEF DeskInit, Counted
<1>2. DeskTypeOK /\ Counted /\ [DeskNext]_deskVars => (DeskTypeOK /\ Counted)'
  BY DeskStepTyped, StepCounted
<1> QED
  BY <1>1, <1>2, CountedAddsUp, PTL DEF DeskSpec

-----------------------------------------------------------------------------
(* Shell                                                                   *)

\* A worker being installed is of a version there is, and its cache is open.
Installed ==
  installing # None => installing.sw \in 1..sw /\ installing.sw \in ToSet(stores)

\* Nothing is of a version still to come.
NotAhead ==
  /\ view.version <= deployed
  /\ \A x \in puts : x.version <= deployed
  /\ \A v \in Versions : v > deployed => scripts[v] = "none"

\* Under the name of the script that is deployed there is no document.
DeployedIsHonest ==
  /\ scripts[deployed] # "document"
  /\ \A x \in puts : x.at = "script" /\ x.version = deployed => x.script = "script"

\* Other addresses than those of the installation are only in the cache of visits.
OnlyVisits == \A s \in 0..MaxVersion, u \in Urls \ Static : s # Runtime => documents[s][u] = 0

\* A visit kept so far: its copy is there or being written, and no other copy of the
\* address is; nor is a document under the name of its script, which is there or being
\* written once the page has it.
KeptSoFar ==
  view.kept =>
    /\ view.ours /\ view.version # 0
    /\ documents[Runtime][view.at] = view.version \/ \E x \in puts : x.at = view.at
    /\ \A x \in puts : x.at = view.at => x.version = view.version
    /\ view.script \in {"asked", "script"} =>
         /\ scripts[view.version] # "document"
         /\ \A x \in puts : x.at = "script" /\ x.version = view.version => x.script = "script"
    /\ view.script = "script" =>
         \/ scripts[view.version] = "script"
         \/ \E x \in puts : x.at = "script" /\ x.version = view.version

\* A visit kept to its end: both are there, and no write of either waits.
KeptWhole ==
  \A u \in sound :
    LET v == documents[Runtime][u] IN
    /\ v # 0 /\ scripts[v] = "script"
    /\ \A x \in puts : x.at # u /\ (x.at = "script" => x.version # v)

ShellInv ==
  /\ ShellTypeOK /\ Installed /\ NotAhead /\ DeployedIsHonest /\ OnlineDraws
  /\ OnlyVisits /\ KeptSoFar /\ KeptWhole

-----------------------------------------------------------------------------
\* A cache that is opened is there, and no cache is there twice.
LEMMA OpenedHas ==
  ASSUME ShellTypeOK, NEW name \in 0..sw, stores' = Opened(name), NEW m \in Nat, sw <= m
  PROVE  stores' \in Seq(0..m) /\ IsInjective(stores') /\ ToSet(stores') = ToSet(stores) \cup {name}
<1>1. /\ stores \in Seq(0..sw) /\ IsInjective(stores) /\ Len(stores) \in Nat /\ sw \in Nat
      /\ DOMAIN stores = 1..Len(stores)
  BY DEF ShellTypeOK
<1>2. stores \in Seq(0..m)
  <2>1. \A i \in 1..Len(stores) : stores[i] \in 0..m
    BY <1>1
  <2> QED
    BY <1>1, <2>1
<1>3. CASE name \in ToSet(stores)
  BY <1>1, <1>2, <1>3 DEF Opened
<1>4. CASE name \notin ToSet(stores)
  <2>1. stores' = Append(stores, name)
    BY <1>4 DEF Opened
  <2>2. /\ stores' \in Seq(0..m) /\ DOMAIN stores' = 1..(Len(stores) + 1)
        /\ stores'[Len(stores) + 1] = name
        /\ \A i \in 1..Len(stores) : stores'[i] = stores[i]
    BY <1>1, <1>2, <2>1
  <2>3. \A i \in 1..Len(stores) : stores[i] # name
    BY <1>1, <1>4 DEF ToSet
  <2> DEFINE n == Len(stores) + 1
  <2>30. /\ \A i \in DOMAIN stores' : i \in DOMAIN stores \/ i = n
         /\ \A i \in DOMAIN stores : i \in DOMAIN stores' /\ stores'[i] = stores[i]
         /\ n \in DOMAIN stores' /\ stores'[n] = name
         /\ \A i \in DOMAIN stores : stores[i] # name
    BY <1>1, <2>2, <2>3
  <2> HIDE DEF n
  <2>4. IsInjective(stores')
    BY <1>1, <2>30 DEF IsInjective
  <2>5. ToSet(stores') \subseteq ToSet(stores) \cup {name}
    BY <2>30 DEF ToSet
  <2>6. ToSet(stores) \cup {name} \subseteq ToSet(stores')
    BY <2>30 DEF ToSet
  <2> QED
    BY <2>2, <2>4, <2>5, <2>6
<1> QED
  BY <1>3, <1>4

\* The types of the numbers and of the caches, which most steps leave alone.
LEMMA Numbers ==
  ASSUME ShellTypeOK
  PROVE  /\ MaxVersion \in Nat \ {0} /\ Versions = 1..MaxVersion /\ 0 \in 0..MaxVersion
         /\ deployed \in 1..MaxVersion /\ sw \in 1..deployed /\ sw \in 1..MaxVersion /\ active \in 0..sw
         /\ \A s \in 0..MaxVersion, u \in Urls : documents[s][u] \in 0..deployed
         /\ view.at \in Urls /\ view.version \in 0..MaxVersion
         /\ view.clean \in BOOLEAN /\ view.kept \in BOOLEAN /\ view.ours \in BOOLEAN
         /\ online \in BOOLEAN
         /\ \A x \in puts : x.version \in Versions
<1>1. /\ MaxVersion \in Nat \ {0} /\ Versions = 1..MaxVersion /\ 0 \in 0..MaxVersion
      /\ deployed \in 1..MaxVersion /\ sw \in 1..deployed /\ sw \in 1..MaxVersion /\ active \in 0..sw
  <2>1. deployed \in Versions /\ sw \in 1..deployed /\ active \in 0..sw
    BY DEF ShellTypeOK
  <2> QED
    BY <2>1, ShellAssumption DEF Versions
<1>2. \A s \in 0..MaxVersion, u \in Urls : documents[s][u] \in 0..deployed
  <2>1. documents \in [0..MaxVersion -> [Urls -> 0..deployed]]
    BY DEF ShellTypeOK
  <2> QED
    BY <2>1
<1>3. /\ view.at \in Urls /\ view.version \in 0..MaxVersion
      /\ view.clean \in BOOLEAN /\ view.kept \in BOOLEAN /\ view.ours \in BOOLEAN
      /\ online \in BOOLEAN
  BY DEF ShellTypeOK, View
<1>4. \A x \in puts : x.version \in Versions
  BY DEF ShellTypeOK, Put
<1> QED
  BY <1>1, <1>2, <1>3, <1>4

\* Nothing but the worker and the caches' names moves.
LEMMA WorkerKeeps ==
  ASSUME ShellInv, UNCHANGED <<deployed, sw, online, active, documents, scripts, view, puts, sound>>,
         installing' \in [sw : 0..MaxVersion, since : 0..MaxVersion, done : BOOLEAN],
         stores' \in Seq(0..sw) /\ IsInjective(stores'), ToSet(stores) \subseteq ToSet(stores'),
         Installed'
  PROVE  ShellInv'
<1>1. ShellTypeOK'
  BY DEF ShellInv, ShellTypeOK
<1> QED
  BY <1>1 DEF ShellInv, NotAhead, DeployedIsHonest, OnlineDraws, OnlyVisits, KeptSoFar, KeptWhole

\* The worker that is installed opens its cache.
LEMMA InstallsKeep == ShellInv /\ Installs => ShellInv'
<1> SUFFICES ASSUME ShellInv, Installs PROVE ShellInv'
  OBVIOUS
<1>1. /\ installing' = [sw |-> sw, since |-> deployed, done |-> FALSE] /\ stores' = Opened(sw)
      /\ UNCHANGED <<deployed, sw, online, active, documents, scripts, view, puts, sound>>
  BY DEF Installs
<1>2. sw \in 0..sw /\ sw \in Nat /\ sw \in 1..MaxVersion /\ deployed \in 1..MaxVersion /\ sw \in 1..sw
      /\ MaxVersion \in Nat
  BY Numbers DEF ShellInv
<1>3. stores' \in Seq(0..sw) /\ IsInjective(stores') /\ ToSet(stores') = ToSet(stores) \cup {sw}
  BY <1>1, <1>2, OpenedHas DEF ShellInv
<1>4. installing' \in [sw : 0..MaxVersion, since : 0..MaxVersion, done : BOOLEAN]
  BY <1>1, <1>2
<1>5. Installed'
  BY <1>1, <1>2, <1>3 DEF Installed
<1> QED
  BY <1>1, <1>3, <1>4, <1>5, WorkerKeeps

\* An installation that fails leaves its cache open and empty.
LEMMA InstallFailsKeeps == ShellInv /\ InstallFails => ShellInv'
<1> SUFFICES ASSUME ShellInv, InstallFails PROVE ShellInv'
  OBVIOUS
<1>1. /\ installing' = None /\ stores' = stores
      /\ UNCHANGED <<deployed, sw, online, active, documents, scripts, view, puts, sound>>
  BY DEF InstallFails
<1>2. MaxVersion \in Nat
  BY Numbers DEF ShellInv
<1>3. stores' \in Seq(0..sw) /\ IsInjective(stores')
  BY <1>1 DEF ShellInv, ShellTypeOK
<1>4. installing' \in [sw : 0..MaxVersion, since : 0..MaxVersion, done : BOOLEAN]
  BY <1>1, <1>2 DEF None
<1>5. Installed'
  BY <1>1 DEF Installed
<1> QED
  BY <1>1, <1>3, <1>4, <1>5, WorkerKeeps

\* What is kept at installation goes to the cache of its worker, and to its addresses only.
LEMMA KeepsKeep == ShellInv /\ Keeps => ShellInv'
<1> SUFFICES ASSUME ShellInv, Keeps PROVE ShellInv'
  OBVIOUS
<1>1. PICK got \in [Static -> installing.since..deployed] :
        documents' = [documents EXCEPT ![installing.sw] =
                        [u \in Urls |-> IF u \in Static THEN got[u] ELSE @[u]]]
  BY DEF Keeps
<1>2. /\ installing # None /\ installing' = [installing EXCEPT !.done = TRUE]
      /\ UNCHANGED <<deployed, sw, online, active, stores, scripts, view, puts, sound>>
  BY DEF Keeps
<1>3. /\ installing \in [sw : 0..MaxVersion, since : 0..MaxVersion, done : BOOLEAN]
      /\ installing.sw \in 1..sw /\ installing.sw \in ToSet(stores)
      /\ documents \in [0..MaxVersion -> [Urls -> 0..deployed]]
      /\ \A s \in 0..MaxVersion : documents[s] # NothingKept => s \in ToSet(stores)
  BY <1>2 DEF ShellInv, Installed, ShellTypeOK
<1>4. /\ MaxVersion \in Nat \ {0} /\ deployed \in 1..MaxVersion /\ sw \in 1..MaxVersion
      /\ 0 \in 0..MaxVersion
  BY Numbers DEF ShellInv
<1>5. /\ installing.sw \in 0..MaxVersion /\ installing.sw # Runtime /\ installing.since \in Nat
  BY <1>3, <1>4 DEF Runtime
<1>6. \A u \in Static : got[u] \in 0..deployed
  BY <1>4, <1>5
<1> DEFINE new == [u \in Urls |-> IF u \in Static THEN got[u] ELSE documents[installing.sw][u]]
<1>7. new \in [Urls -> 0..deployed]
  BY <1>3, <1>5, <1>6
<1>8. documents' = [documents EXCEPT ![installing.sw] = new]
  BY <1>1, <1>3, <1>5
<1>9. /\ documents' \in [0..MaxVersion -> [Urls -> 0..deployed]]
      /\ documents'[Runtime] = documents[Runtime]
      /\ \A s \in 0..MaxVersion \ {installing.sw} : documents'[s] = documents[s]
      /\ \A s \in 0..MaxVersion, u \in Urls \ Static : documents'[s][u] = documents[s][u]
  <2>1. \A u \in Urls \ Static : new[u] = documents[installing.sw][u]
    OBVIOUS
  <2> HIDE DEF new
  <2> QED
    BY <1>3, <1>4, <1>5, <1>7, <1>8, <2>1 DEF Runtime
<1>10. installing' \in [sw : 0..MaxVersion, since : 0..MaxVersion, done : BOOLEAN]
       /\ installing'.sw = installing.sw
  BY <1>2, <1>3
<1>11. ShellTypeOK'
  BY <1>2, <1>3, <1>9, <1>10 DEF ShellInv, ShellTypeOK
<1>12. Installed' /\ OnlyVisits'
  BY <1>2, <1>3, <1>9, <1>10 DEF ShellInv, Installed, OnlyVisits
<1>13. NotAhead' /\ DeployedIsHonest' /\ OnlineDraws'
  BY <1>2 DEF ShellInv, NotAhead, DeployedIsHonest, OnlineDraws
<1>14. KeptSoFar' /\ KeptWhole'
  BY <1>2, <1>9 DEF ShellInv, KeptSoFar, KeptWhole
<1> QED
  BY <1>11, <1>12, <1>13, <1>14 DEF ShellInv

\* The purge spares the cache of visits.
LEMMA ActivatesKeeps == ShellInv /\ Activates => ShellInv'
<1> SUFFICES ASSUME ShellInv, Activates PROVE ShellInv'
  OBVIOUS
<1> DEFINE S == {i \in DOMAIN stores : Spared(stores[i])}
<1>1. /\ installing # None /\ stores' = Thin(stores, S)
      /\ documents' = [s \in 0..MaxVersion |-> IF Spared(s) THEN documents[s] ELSE NothingKept]
      /\ scripts' = scripts /\ active' = installing.sw /\ installing' = None
      /\ view' = [view EXCEPT !.script = IF @ = "script" THEN "reload" ELSE @, !.ours = TRUE]
      /\ UNCHANGED <<deployed, sw, online, puts, sound>>
  BY DEF Activates, Spared
<1>2. /\ MaxVersion \in Nat \ {0} /\ deployed \in 1..MaxVersion /\ sw \in 1..MaxVersion
      /\ installing.sw \in 0..sw /\ Runtime \in 0..MaxVersion
  BY <1>1, Numbers DEF ShellInv, Installed, Runtime
<1>3. /\ stores \in Seq(0..sw) /\ IsInjective(stores)
      /\ documents \in [0..MaxVersion -> [Urls -> 0..deployed]]
      /\ \A s \in 0..MaxVersion : documents[s] # NothingKept => s \in ToSet(stores)
      /\ view \in View
  BY DEF ShellInv, ShellTypeOK
<1>4. S \in SUBSET DOMAIN stores
  OBVIOUS
<1>5. /\ stores' \in Seq(0..sw)
      /\ \A k \in DOMAIN stores' : \E i \in S : Place(S, i) = k /\ stores'[k] = stores[i]
      /\ \A i \in S : Place(S, i) \in DOMAIN stores' /\ stores'[Place(S, i)] = stores[i]
  <2> HIDE DEF S
  <2> QED
    BY <1>1, <1>3, <1>4, ThinKeeps
<1>6. IsInjective(stores')
  BY <1>3, <1>4, <1>5 DEF IsInjective
<1>7. /\ documents' \in [0..MaxVersion -> [Urls -> 0..deployed]]
      /\ documents'[Runtime] = documents[Runtime]
      /\ \A s \in 0..MaxVersion : documents'[s] \in {documents[s], NothingKept}
  BY <1>1, <1>2, <1>3 DEF Spared, NothingKept
<1>8. ASSUME NEW s \in 0..MaxVersion, documents'[s] # NothingKept PROVE s \in ToSet(stores')
  <2>1. Spared(s) /\ s \in ToSet(stores)
    BY <1>1, <1>3, <1>8
  <2>2. PICK i \in DOMAIN stores : stores[i] = s
    BY <2>1 DEF ToSet
  <2> QED
    BY <1>5, <2>1, <2>2 DEF ToSet
<1>9. view' \in View /\ view'.at = view.at /\ view'.version = view.version /\ view'.ours = TRUE
      /\ view'.kept = view.kept /\ view'.clean = view.clean
      /\ view'.script = IF view.script = "script" THEN "reload" ELSE view.script
  BY <1>1, <1>3 DEF View, Bodies
<1>10. installing' \in [sw : 0..MaxVersion, since : 0..MaxVersion, done : BOOLEAN]
  BY <1>1, <1>2 DEF None
<1>11. ShellTypeOK'
  <2>1. active' \in 0..sw'
    BY <1>1, <1>2
  <2> QED
    BY <1>1, <1>5, <1>6, <1>7, <1>8, <1>9, <1>10, <2>1 DEF ShellInv, ShellTypeOK
<1>12. Installed' /\ NotAhead' /\ DeployedIsHonest' /\ OnlineDraws'
  BY <1>1, <1>9 DEF ShellInv, Installed, NotAhead, DeployedIsHonest, OnlineDraws
<1>13. OnlyVisits'
  BY <1>7 DEF ShellInv, OnlyVisits, NothingKept
<1>14. KeptWhole'
  <2>1. UNCHANGED <<scripts, puts, sound>> /\ documents'[Runtime] = documents[Runtime]
    BY <1>1, <1>7
  <2> QED
    BY <2>1 DEF ShellInv, KeptWhole
<1>15. KeptSoFar'
  BY <1>1, <1>7, <1>9 DEF ShellInv, KeptSoFar
<1> QED
  BY <1>11, <1>12, <1>13, <1>14, <1>15 DEF ShellInv

\* A visit answered by the server begins to be kept, and is not whole yet.
LEMMA OpensOnlineKeeps ==
  ASSUME ShellInv, NEW u \in Visited, OpensOnline(u)
  PROVE  ShellInv'
<1> DEFINE new == [at |-> u, version |-> deployed, script |-> "none"]
<1>1. /\ view' = [at |-> u, version |-> deployed, script |-> "asked", ours |-> active # 0,
                  clean |-> TRUE, kept |-> active # 0 /\ \A x \in puts : x.at # u]
      /\ \/ active # 0 /\ puts' = puts \cup {new} /\ sound' = sound \ {u}
         \/ active = 0 /\ UNCHANGED <<puts, sound>>
      /\ UNCHANGED <<deployed, sw, online, installing, active, stores, documents, scripts>>
  BY DEF OpensOnline, Shows, workerVars
<1>2. /\ MaxVersion \in Nat \ {0} /\ deployed \in 1..MaxVersion /\ Versions = 1..MaxVersion
      /\ u \in Urls /\ u # "script"
  BY Numbers DEF ShellInv, Urls, Visited
<1>3. new \in Put /\ new.at = u /\ new.version = deployed
  BY <1>2 DEF Put
<1>4. view' \in View
  <2>1. (active # 0) \in BOOLEAN /\ (active # 0 /\ \A x \in puts : x.at # u) \in BOOLEAN
    OBVIOUS
  <2> QED
    BY <1>1, <1>2, <2>1 DEF View
<1>5. /\ view'.at = u /\ view'.version = deployed /\ view'.script = "asked"
      /\ view'.ours = (active # 0) /\ view'.kept = (active # 0 /\ \A x \in puts : x.at # u)
  BY <1>1
<1> HIDE DEF new
<1>6. ShellTypeOK'
  BY <1>1, <1>3, <1>4 DEF ShellInv, ShellTypeOK
<1>7. Installed' /\ OnlyVisits'
  BY <1>1 DEF ShellInv, Installed, OnlyVisits
<1>8. \A x \in puts' : x \in puts \/ (x = new /\ active # 0)
  BY <1>1
<1>9. NotAhead'
  BY <1>1, <1>2, <1>3, <1>5, <1>8 DEF ShellInv, NotAhead
<1>10. DeployedIsHonest'
  BY <1>1, <1>2, <1>3, <1>8 DEF ShellInv, DeployedIsHonest
<1>11. OnlineDraws'
  BY <1>1, <1>5 DEF OnlineDraws
<1>12. KeptSoFar'
  <2>1. CASE ~view'.kept
    BY <2>1 DEF KeptSoFar
  <2>2. CASE view'.kept
    <3>1. active # 0 /\ (\A x \in puts : x.at # u) /\ puts' = puts \cup {new}
      BY <1>1, <1>5, <2>2
    <3>2. new \in puts' /\ \A x \in puts' : x.at = u => x.version = deployed
      BY <1>3, <3>1
    <3>3. scripts[deployed] # "document" /\ deployed # 0
      BY <1>2 DEF ShellInv, DeployedIsHonest
    <3>5. view'.ours
      BY <1>5, <3>1
    <3>4. \A x \in puts' : x.at = "script" /\ x.version = deployed => x.script = "script"
      BY <1>1, <1>10 DEF DeployedIsHonest
    <3> QED
      BY <1>1, <1>3, <1>5, <3>2, <3>3, <3>4, <3>5 DEF KeptSoFar
  <2> QED
    BY <2>1, <2>2
<1>13. KeptWhole'
  <2>1. UNCHANGED <<documents, scripts>> /\ sound' \subseteq sound
    BY <1>1
  <2>2. \A y \in sound', x \in puts' : x \in puts \/ (x.at # y /\ x.at # "script")
    BY <1>1, <1>2, <1>3
  <2> QED
    BY <2>1, <2>2 DEF ShellInv, KeptWhole
<1> QED
  BY <1>6, <1>7, <1>9, <1>10, <1>11, <1>12, <1>13 DEF ShellInv

\* What the caches answer is of a version that was deployed.
LEMMA MatchBounded ==
  ASSUME ShellTypeOK, NEW u \in Urls
  PROVE  /\ Match(u) \in 0..deployed
         /\ \A r \in 0..MaxVersion :
              /\ documents[r][u] # 0
              /\ \A s \in 0..MaxVersion : s # r => documents[s][u] = 0
              => Match(u) = documents[r][u]
<1> DEFINE S == {i \in DOMAIN stores : documents[stores[i]][u] # 0}
           holders == Thin(stores, S)
<1>1. /\ stores \in Seq(0..sw) /\ sw \in 1..MaxVersion /\ MaxVersion \in Nat /\ deployed \in 1..MaxVersion
      /\ \A s \in 0..MaxVersion : documents[s][u] \in 0..deployed
      /\ \A s \in 0..MaxVersion : documents[s] # NothingKept => s \in ToSet(stores)
  BY Numbers DEF ShellTypeOK
<1>2. S \in SUBSET DOMAIN stores
  OBVIOUS
<1>3. /\ holders \in Seq(0..sw)
      /\ \A k \in DOMAIN holders : \E i \in S : holders[k] = stores[i]
      /\ \A i \in S : Place(S, i) \in DOMAIN holders
  <2> HIDE DEF S
  <2> QED
    BY <1>1, <1>2, ThinKeeps
<1>4. Match(u) = IF holders = <<>> THEN 0 ELSE documents[Head(holders)][u]
  BY DEF Match
<1>5. \A i \in S : stores[i] \in 0..MaxVersion /\ documents[stores[i]][u] # 0
  BY <1>1
<1> HIDE DEF S, holders
<1>6. ASSUME holders # <<>>
      PROVE  /\ Head(holders) \in 0..MaxVersion /\ documents[Head(holders)][u] # 0
             /\ Match(u) = documents[Head(holders)][u]
  <2>1. 1 \in DOMAIN holders /\ Head(holders) = holders[1]
    BY <1>3, <1>6
  <2> QED
    BY <1>3, <1>4, <1>5, <1>6, <2>1
<1>7. Match(u) \in 0..deployed
  <2>1. CASE holders = <<>>
    BY <1>1, <1>4, <2>1
  <2>2. CASE holders # <<>>
    BY <1>1, <1>6, <2>2
  <2> QED
    BY <2>1, <2>2
<1>8. ASSUME NEW r \in 0..MaxVersion, documents[r][u] # 0,
             \A s \in 0..MaxVersion : s # r => documents[s][u] = 0
      PROVE  Match(u) = documents[r][u]
  <2>1. documents[r] # NothingKept
    BY <1>8 DEF NothingKept
  <2>2. PICK i \in DOMAIN stores : stores[i] = r
    BY <1>1, <2>1 DEF ToSet
  <2>3. i \in S
    BY <1>8, <2>2 DEF S
  <2>4. holders # <<>>
    BY <1>3, <2>3
  <2> QED
    BY <1>6, <1>8, <2>4
<1> QED
  BY <1>7, <1>8

\* A visit answered from the caches is not kept and tells so.
LEMMA OpensKeptKeeps ==
  ASSUME ShellInv, NEW u \in Visited, OpensKept(u)
  PROVE  ShellInv'
<1>1. UNCHANGED <<deployed, sw, online, installing, active, stores, documents, scripts, puts, sound>>
  BY DEF OpensKept, workerVars
<1>2. /\ MaxVersion \in Nat \ {0} /\ deployed \in 1..MaxVersion
      /\ u \in Urls /\ "/index.html" \in Urls /\ "/" \in Urls
  BY Numbers DEF ShellInv, Urls, Visited, Static
<1>3. online = FALSE
  BY Numbers DEF ShellInv, OpensKept, FromNetwork
<1>4. Offline(u) \in 0..deployed
  BY <1>2, MatchBounded DEF ShellInv, Offline
<1>5. view' \in View /\ view'.version <= deployed /\ ~view'.clean /\ ~view'.kept
  <2>1. CASE view' = Blank
    BY <1>2, <2>1 DEF Blank, View
  <2>2. CASE Shows(u, Offline(u), online)
    <3>1. view' = [at |-> u, version |-> Offline(u), script |-> "asked", ours |-> active # 0,
                   clean |-> FALSE, kept |-> FALSE]
      BY <1>3, <2>2 DEF Shows
    <3>2. (active # 0) \in BOOLEAN /\ Offline(u) \in 0..MaxVersion /\ Offline(u) <= deployed
      BY <1>2, <1>4
    <3> QED
      BY <1>2, <3>1, <3>2 DEF View
  <2> QED
    BY <2>1, <2>2 DEF OpensKept
<1>6. ShellTypeOK'
  BY <1>1, <1>5 DEF ShellInv, ShellTypeOK
<1>7. Installed' /\ OnlyVisits' /\ DeployedIsHonest'
  BY <1>1 DEF ShellInv, Installed, OnlyVisits, DeployedIsHonest
<1>8. NotAhead' /\ OnlineDraws' /\ KeptSoFar'
  BY <1>1, <1>5 DEF ShellInv, NotAhead, OnlineDraws, KeptSoFar
<1>9. KeptWhole'
  BY <1>1 DEF ShellInv, KeptWhole
<1> QED
  BY <1>6, <1>7, <1>8, <1>9 DEF ShellInv

\* The script of the deployed version is the script; a document in its place is kept only for
\* a version that is deployed no more, and then the visit is not whole.
LEMMA ScriptArrivesKeeps == ShellInv /\ ScriptArrives => ShellInv'
<1> SUFFICES ASSUME ShellInv, ScriptArrives PROVE ShellInv'
  OBVIOUS
<1> DEFINE v == view.version
           cached == IF view.ours THEN scripts[v] ELSE "none"
           got == CASE cached # "none" -> cached
                    [] cached = "none" /\ online -> Served(v)
                    [] OTHER -> "missing"
           keeps == view.ours /\ cached = "none" /\ online
           new == [at |-> "script", version |-> v, script |-> got]
<1>1. /\ v # 0 /\ view.script = "asked"
      /\ view' = [view EXCEPT !.script = got]
      /\ puts' = IF keeps THEN puts \cup {new} ELSE puts
      /\ sound' = SoundThen(view', puts')
      /\ UNCHANGED <<deployed, sw, online, installing, active, stores, documents, scripts>>
  BY DEF ScriptArrives, workerVars
<1>2. /\ MaxVersion \in Nat \ {0} /\ deployed \in 1..MaxVersion /\ Versions = 1..MaxVersion
      /\ v \in Versions /\ view.at \in Urls /\ online \in BOOLEAN
      /\ view \in View /\ scripts \in [Versions -> Bodies \cup {"none"}]
  BY <1>1, Numbers DEF ShellInv, ShellTypeOK
<1>3. /\ cached \in Bodies \cup {"none"} /\ (view.ours => cached = scripts[v])
      /\ (cached # "none" => view.ours)
  BY <1>2 DEF Bodies
<1> HIDE DEF cached
<1>4. /\ got \in Bodies \cup {"missing"}
      /\ (cached # "none" => got = cached)
      /\ (cached = "none" /\ online => got = IF v = deployed THEN "script" ELSE "document")
      /\ (cached = "none" /\ ~online => got = "missing")
  BY <1>2, <1>3 DEF Bodies, Served
<1> HIDE DEF got
<1>5. /\ view' \in View /\ view'.at = view.at /\ view'.version = v /\ view'.ours = view.ours
      /\ view'.kept = view.kept /\ view'.clean = view.clean /\ view'.script = got
  BY <1>1, <1>2, <1>4 DEF View
<1>6. keeps => got \in Bodies /\ got = IF v = deployed THEN "script" ELSE "document"
  BY <1>4 DEF Bodies, Served
<1>7. keeps => new \in Put
  BY <1>2, <1>6 DEF Put
<1>8. new.at = "script" /\ new.version = v /\ new.script = got
  OBVIOUS
<1> HIDE DEF new
<1>9. puts' \subseteq puts \cup {new} /\ puts \subseteq puts' /\ puts' \subseteq Put
      /\ (new \in puts' => keeps \/ new \in puts)
  BY <1>1, <1>7 DEF ShellInv, ShellTypeOK
<1>10. ShellTypeOK'
  <2>1. sound' \subseteq Urls
    BY <1>1, <1>2, <1>5 DEF SoundThen, ShellInv, ShellTypeOK
  <2> QED
    BY <1>1, <1>5, <1>9, <2>1 DEF ShellInv, ShellTypeOK
<1>11. Installed' /\ OnlyVisits'
  BY <1>1 DEF ShellInv, Installed, OnlyVisits
<1>12. NotAhead'
  BY <1>1, <1>5, <1>8, <1>9 DEF ShellInv, NotAhead
<1>13. DeployedIsHonest'
  <2>1. ASSUME NEW x \in puts', x.at = "script", x.version = deployed PROVE x.script = "script"
    <3>1. CASE x \in puts
      BY <2>1, <3>1 DEF ShellInv, DeployedIsHonest
    <3>2. CASE x \notin puts
      BY <1>6, <1>8, <1>9, <2>1, <3>2
    <3> QED
      BY <3>1, <3>2
  <2> QED
    BY <1>1, <2>1 DEF ShellInv, DeployedIsHonest
<1>14. OnlineDraws'
  <2> SUFFICES ASSUME view'.version # 0, view'.clean
               PROVE  view'.version = deployed' /\ view'.script # "document"
    BY DEF OnlineDraws
  <2>1. v = deployed
    BY <1>1, <1>5 DEF ShellInv, OnlineDraws
  <2>2. cached # "document"
    BY <1>3, <2>1 DEF ShellInv, DeployedIsHonest
  <2> QED
    BY <1>1, <1>2, <1>3, <1>4, <1>5, <2>1, <2>2
<1>15. KeptSoFar'
  <2> SUFFICES ASSUME view'.kept PROVE KeptSoFar'
    BY DEF KeptSoFar
  <2>1. /\ view.ours /\ cached = scripts[v] /\ cached # "document"
        /\ documents[Runtime][view.at] = v \/ \E x \in puts : x.at = view.at
        /\ \A x \in puts : x.at = view.at => x.version = v
        /\ \A x \in puts : x.at = "script" /\ x.version = v => x.script = "script"
    BY <1>1, <1>3, <1>5 DEF ShellInv, KeptSoFar
  <2>2. view.at # "script"
    BY <1>2 DEF Urls, Visited, Static
  <2>3. /\ documents[Runtime][view.at] = v \/ \E x \in puts' : x.at = view.at
        /\ \A x \in puts' : x.at = view.at => x.version = v
    BY <1>8, <1>9, <2>1, <2>2
  <2>4. ASSUME got = "script", NEW x \in puts', x.at = "script", x.version = v
        PROVE  x.script = "script"
    <3>1. x \in puts \/ x = new
      BY <1>9
    <3> QED
      BY <1>8, <2>1, <2>4, <3>1
  <2>5. got = "script" => \/ scripts[v] = "script"
                          \/ \E x \in puts' : x.at = "script" /\ x.version = v
    <3>1. ASSUME got = "script", scripts[v] # "script" PROVE new \in puts'
      <4>1. cached = "none"
        BY <1>3, <1>4, <2>1, <3>1
      <4>2. online
        BY <1>4, <3>1, <4>1
      <4> QED
        BY <1>1, <2>1, <4>1, <4>2
    <3> QED
      BY <1>8, <3>1
  <2>6. got # "asked"
    BY <1>4 DEF Bodies
  <2> QED
    BY <1>1, <1>5, <2>1, <2>3, <2>4, <2>5, <2>6 DEF KeptSoFar
<1>16. KeptWhole'
  <2>1. ASSUME NEW u \in sound
        PROVE  LET d == documents[Runtime][u] IN
               /\ d # 0 /\ scripts[d] = "script"
               /\ \A x \in puts' : x.at # u /\ (x.at = "script" => x.version # d)
    <3>1. /\ documents[Runtime][u] # 0 /\ scripts[documents[Runtime][u]] = "script"
          /\ \A x \in puts : x.at # u /\ (x.at = "script" => x.version # documents[Runtime][u])
      BY DEF ShellInv, KeptWhole
    <3>2. keeps => documents[Runtime][u] # v
      BY <1>3, <3>1
    <3>3. u # "script"
      BY DEF ShellInv, ShellTypeOK, Urls, Visited, Static
    <3> QED
      BY <1>8, <1>9, <3>1, <3>2, <3>3
  <2>2. CASE sound' = sound
    BY <1>1, <2>1, <2>2 DEF KeptWhole
  <2>3. CASE sound' # sound
    <3>1. sound' = sound \cup {view.at} /\ view'.kept /\ view'.script = "script" /\ puts' = {}
      BY <1>1, <1>5, <2>3 DEF SoundThen
    <3>2. LET d == documents'[Runtime][view'.at] IN d # 0 /\ scripts'[d] = "script"
      BY <1>15, <3>1 DEF KeptSoFar
    <3> QED
      BY <1>1, <1>5, <2>1, <3>1, <3>2 DEF KeptWhole
  <2> QED
    BY <2>2, <2>3
<1> QED
  BY <1>10, <1>11, <1>12, <1>13, <1>14, <1>15, <1>16 DEF ShellInv

\* A write that lands is of the one visit it was for.
LEMMA PutLandsKeeps ==
  ASSUME ShellInv, NEW x \in puts, PutLands(x)
  PROVE  ShellInv'
<1>1. /\ puts' = puts \ {x} /\ stores' = Opened(Runtime) /\ sound' = SoundThen(view, puts')
      /\ UNCHANGED <<deployed, sw, online, installing, active, view>>
      /\ \/ /\ x.at = "script" /\ documents' = documents
            /\ scripts' = [scripts EXCEPT ![x.version] = x.script]
         \/ /\ x.at # "script" /\ scripts' = scripts
            /\ documents' = [documents EXCEPT ![Runtime][x.at] = x.version]
  BY DEF PutLands, workerVars
<1>2. /\ MaxVersion \in Nat \ {0} /\ deployed \in 1..MaxVersion /\ Versions = 1..MaxVersion
      /\ Runtime \in 0..MaxVersion /\ Runtime \in 0..sw /\ sw \in Nat /\ sw <= sw
      /\ view.at \in Urls /\ x.version \in Versions /\ x.version <= deployed
  BY Numbers DEF ShellInv, Runtime, NotAhead
<1>3. /\ documents \in [0..MaxVersion -> [Urls -> 0..deployed]]
      /\ scripts \in [Versions -> Bodies \cup {"none"}]
      /\ \A s \in 0..MaxVersion : documents[s] # NothingKept => s \in ToSet(stores)
      /\ \A y \in puts : y.version \in Versions
  BY Numbers DEF ShellInv, ShellTypeOK
<1>4. x.at = "script" => x.script \in Bodies
  <2>1. x \in Put /\ "script" \notin Urls
    BY DEF ShellInv, ShellTypeOK, Urls, Visited, Static
  <2> QED
    BY <2>1 DEF Put
<1>5. x.at # "script" => x.at \in Urls
  BY DEF ShellInv, ShellTypeOK, Put
<1>6. /\ stores' \in Seq(0..sw) /\ IsInjective(stores')
      /\ ToSet(stores') = ToSet(stores) \cup {Runtime}
  BY <1>1, <1>2, OpenedHas DEF ShellInv
<1>7. /\ documents' \in [0..MaxVersion -> [Urls -> 0..deployed]]
      /\ \A s \in 0..MaxVersion : s # Runtime => documents'[s] = documents[s]
      /\ \A u \in Urls : documents'[Runtime][u] =
           IF x.at = u THEN x.version ELSE documents[Runtime][u]
  <2>1. CASE x.at = "script"
    <3>1. \A u \in Urls : x.at # u
      BY <2>1 DEF Urls, Visited, Static
    <3> QED
      BY <1>1, <1>3, <2>1, <3>1
  <2>2. CASE x.at # "script"
    <3>1. x.version \in 0..deployed /\ x.at \in Urls
      BY <1>2, <1>5, <2>2
    <3>2. documents' = [documents EXCEPT ![Runtime] = [@ EXCEPT ![x.at] = x.version]]
      BY <1>1, <2>2
    <3> DEFINE new == [documents[Runtime] EXCEPT ![x.at] = x.version]
    <3>3. documents[Runtime] \in [Urls -> 0..deployed]
      BY <1>2, <1>3
    <3>4. /\ new \in [Urls -> 0..deployed]
          /\ \A u \in Urls : new[u] = IF x.at = u THEN x.version ELSE documents[Runtime][u]
      BY <3>1, <3>3
    <3>5. documents' = [documents EXCEPT ![Runtime] = new]
      BY <1>2, <1>3, <3>2
    <3> HIDE DEF new
    <3> QED
      BY <1>2, <1>3, <3>4, <3>5
  <2> QED
    BY <2>1, <2>2
<1>8. /\ scripts' \in [Versions -> Bodies \cup {"none"}]
      /\ \A v \in Versions :
           scripts'[v] = IF x.at = "script" /\ x.version = v THEN x.script ELSE scripts[v]
  BY <1>1, <1>2, <1>3, <1>4
<1>9. ShellTypeOK'
  <2>1. \A s \in 0..MaxVersion : documents'[s] # NothingKept => s \in ToSet(stores')
    BY <1>3, <1>6, <1>7
  <2>2. sound' \subseteq Urls
    BY <1>1, <1>2 DEF SoundThen, ShellInv, ShellTypeOK
  <2> QED
    BY <1>1, <1>6, <1>7, <1>8, <2>1, <2>2 DEF ShellInv, ShellTypeOK
<1>10. Installed'
  BY <1>1, <1>6 DEF ShellInv, Installed
<1>11. OnlyVisits'
  BY <1>7 DEF ShellInv, OnlyVisits
<1>12. NotAhead'
  BY <1>1, <1>2, <1>8 DEF ShellInv, NotAhead
<1>13. DeployedIsHonest' /\ OnlineDraws'
  BY <1>1, <1>2, <1>8 DEF ShellInv, DeployedIsHonest, OnlineDraws
<1>14. KeptSoFar'
  <2> SUFFICES ASSUME view.kept PROVE KeptSoFar'
    BY <1>1 DEF KeptSoFar
  <2> DEFINE v == view.version
  <2>1. /\ view.ours /\ v # 0
        /\ documents[Runtime][view.at] = v \/ \E y \in puts : y.at = view.at
        /\ \A y \in puts : y.at = view.at => y.version = v
        /\ view.script \in {"asked", "script"} =>
             /\ scripts[v] # "document"
             /\ \A y \in puts : y.at = "script" /\ y.version = v => y.script = "script"
        /\ view.script = "script" =>
             \/ scripts[v] = "script"
             \/ \E y \in puts : y.at = "script" /\ y.version = v
    BY DEF ShellInv, KeptSoFar
  <2>2. v \in Versions
    BY <1>2, <2>1, Numbers DEF ShellInv
  <2> HIDE DEF v
  <2>3. documents'[Runtime][view.at] = v \/ \E y \in puts' : y.at = view.at
    <3>1. CASE x.at = view.at
      BY <1>2, <1>7, <2>1, <3>1
    <3>2. CASE x.at # view.at
      BY <1>1, <1>2, <1>7, <2>1, <3>2
    <3> QED
      BY <3>1, <3>2
  <2>4. view.script \in {"asked", "script"} =>
             /\ scripts'[v] # "document"
             /\ \A y \in puts' : y.at = "script" /\ y.version = v => y.script = "script"
    BY <1>1, <1>8, <2>1, <2>2
  <2>5. view.script = "script" =>
             \/ scripts'[v] = "script"
             \/ \E y \in puts' : y.at = "script" /\ y.version = v
    BY <1>1, <1>8, <2>1, <2>2
  <2>6. \A y \in puts' : y.at = view.at => y.version = v
    BY <1>1, <2>1
  <2> QED
    BY <1>1, <2>1, <2>3, <2>4, <2>5, <2>6 DEF KeptSoFar, v
<1>15. KeptWhole'
  <2>1. ASSUME NEW u \in sound
        PROVE  LET d == documents'[Runtime][u] IN
               /\ d # 0 /\ scripts'[d] = "script"
               /\ \A y \in puts' : y.at # u /\ (y.at = "script" => y.version # d)
    <3>1. /\ documents[Runtime][u] # 0 /\ scripts[documents[Runtime][u]] = "script"
          /\ \A y \in puts : y.at # u /\ (y.at = "script" => y.version # documents[Runtime][u])
      BY DEF ShellInv, KeptWhole
    <3>2. u \in Urls
      BY DEF ShellInv, ShellTypeOK
    <3>3. documents[Runtime][u] \in Versions
      BY <1>2, <3>1, <3>2, Numbers DEF ShellInv
    <3>4. documents'[Runtime][u] = documents[Runtime][u]
      BY <1>7, <3>1, <3>2
    <3> QED
      BY <1>1, <1>8, <3>1, <3>3, <3>4
  <2>2. CASE sound' = sound
    BY <2>1, <2>2 DEF KeptWhole
  <2>3. CASE sound' # sound
    <3>1. sound' = sound \cup {view.at} /\ view'.kept /\ view'.script = "script" /\ puts' = {}
      BY <1>1, <2>3 DEF SoundThen
    <3>2. LET d == documents'[Runtime][view'.at] IN d # 0 /\ scripts'[d] = "script"
      BY <1>14, <3>1 DEF KeptSoFar
    <3> QED
      BY <1>1, <2>1, <3>1, <3>2 DEF KeptWhole
  <2> QED
    BY <2>2, <2>3
<1> QED
  BY <1>9, <1>10, <1>11, <1>12, <1>13, <1>14, <1>15 DEF ShellInv

\* Writes that are lost leave the visit on the screen unkept.
LEMMA PutsLostKeep == ShellInv /\ PutsLost => ShellInv'
<1> SUFFICES ASSUME ShellInv, PutsLost PROVE ShellInv'
  OBVIOUS
<1>1. /\ puts' = {} /\ view' = [view EXCEPT !.kept = FALSE]
      /\ UNCHANGED <<deployed, sw, online, installing, active, stores, documents, scripts, sound>>
  BY DEF PutsLost, workerVars
<1>2. view \in View
  BY DEF ShellInv, ShellTypeOK
<1>3. /\ view' \in View /\ ~view'.kept /\ view'.version = view.version
      /\ view'.clean = view.clean /\ view'.script = view.script
  BY <1>1, <1>2 DEF View
<1>4. ShellTypeOK'
  BY <1>1, <1>3 DEF ShellInv, ShellTypeOK
<1>5. Installed' /\ OnlyVisits'
  BY <1>1 DEF ShellInv, Installed, OnlyVisits
<1>6. NotAhead' /\ DeployedIsHonest' /\ OnlineDraws' /\ KeptSoFar'
  BY <1>1, <1>3 DEF ShellInv, NotAhead, DeployedIsHonest, OnlineDraws, KeptSoFar
<1>7. KeptWhole'
  BY <1>1 DEF ShellInv, KeptWhole
<1> QED
  BY <1>4, <1>5, <1>6, <1>7 DEF ShellInv

\* A version is never deployed again: nothing is kept of the new one yet.
LEMMA DeploysKeeps == ShellInv /\ Deploys => ShellInv'
<1> SUFFICES ASSUME ShellInv, Deploys PROVE ShellInv'
  OBVIOUS
<1>1. /\ deployed < MaxVersion /\ deployed' = deployed + 1 /\ sw' \in {sw, deployed'}
      /\ view' = [view EXCEPT !.clean = FALSE]
      /\ UNCHANGED <<online, installing, active, stores, documents, scripts, puts, sound>>
  BY DEF Deploys, workerVars
<1>2. /\ MaxVersion \in Nat \ {0} /\ deployed \in 1..MaxVersion /\ Versions = 1..MaxVersion
      /\ sw \in 1..deployed /\ active \in 0..sw
      /\ view \in View /\ stores \in Seq(0..sw)
      /\ documents \in [0..MaxVersion -> [Urls -> 0..deployed]]
  BY Numbers DEF ShellInv, ShellTypeOK
<1>3. deployed' \in Versions /\ sw' \in 1..deployed' /\ active \in 0..sw' /\ sw <= sw' /\ sw' \in Nat
  BY <1>1, <1>2
<1>4. /\ view' \in View /\ ~view'.clean /\ view'.version = view.version /\ view'.at = view.at
      /\ view'.kept = view.kept /\ view'.script = view.script /\ view'.ours = view.ours
  BY <1>1, <1>2 DEF View
<1>5. stores' \in Seq(0..sw')
  <2>1. Len(stores) \in Nat /\ \A i \in 1..Len(stores) : stores[i] \in 0..sw'
    BY <1>2, <1>3
  <2> QED
    BY <1>1, <1>2, <2>1
<1>6. documents' \in [0..MaxVersion -> [Urls -> 0..deployed']]
  <2>1. 0..deployed \subseteq 0..deployed'
    BY <1>1, <1>2
  <2> QED
    BY <1>1, <1>2, <2>1
<1>7. ShellTypeOK'
  BY <1>1, <1>3, <1>4, <1>5, <1>6 DEF ShellInv, ShellTypeOK
<1>8. Installed'
  <2>1. ASSUME installing # None PROVE installing.sw \in 1..sw' /\ installing.sw \in ToSet(stores)
    <3>1. installing.sw \in 1..sw /\ installing.sw \in ToSet(stores)
      BY <2>1 DEF ShellInv, Installed
    <3> QED
      BY <1>2, <1>3, <3>1
  <2> QED
    BY <1>1, <2>1 DEF Installed
<1>9. NotAhead'
  <2>1. view.version <= deployed'
    BY <1>1, <1>2, Numbers DEF ShellInv, NotAhead
  <2>2. \A x \in puts : x.version <= deployed'
    BY <1>1, <1>2, Numbers DEF ShellInv, NotAhead
  <2>3. \A v \in Versions : v > deployed' => scripts[v] = "none"
    BY <1>1, <1>2 DEF ShellInv, NotAhead
  <2> QED
    BY <1>1, <1>4, <2>1, <2>2, <2>3 DEF NotAhead
<1>10. DeployedIsHonest'
  <2>1. scripts[deployed'] = "none"
    BY <1>1, <1>2, <1>3 DEF ShellInv, NotAhead
  <2>2. \A x \in puts : x.version # deployed'
    BY <1>1, <1>2, Numbers DEF ShellInv, NotAhead
  <2> QED
    BY <1>1, <2>1, <2>2 DEF DeployedIsHonest
<1>11. OnlineDraws' /\ OnlyVisits'
  BY <1>1, <1>4 DEF ShellInv, OnlineDraws, OnlyVisits
<1>12. KeptSoFar'
  BY <1>1, <1>4 DEF ShellInv, KeptSoFar
<1>13. KeptWhole'
  BY <1>1 DEF ShellInv, KeptWhole
<1> QED
  BY <1>7, <1>8, <1>9, <1>10, <1>11, <1>12, <1>13 DEF ShellInv

\* Nothing depends on whether the browser reaches the server.
LEMMA ShellUnchanged ==
  ASSUME ShellInv, online' \in BOOLEAN,
         UNCHANGED <<deployed, sw, workerVars, stores, documents, scripts, view, puts, sound>>
  PROVE  ShellInv'
<1>1. ShellTypeOK'
  BY DEF ShellInv, ShellTypeOK, workerVars
<1>2. Installed' /\ OnlyVisits' /\ NotAhead' /\ DeployedIsHonest' /\ OnlineDraws'
  BY DEF ShellInv, Installed, OnlyVisits, NotAhead, DeployedIsHonest, OnlineDraws, workerVars
<1>3. KeptSoFar' /\ KeptWhole'
  BY DEF ShellInv, KeptSoFar, KeptWhole
<1> QED
  BY <1>1, <1>2, <1>3 DEF ShellInv

\* Every step keeps what is kept.
LEMMA ShellStepKeeps == ShellInv /\ [ShellNext]_shellVars => ShellInv'
<1> SUFFICES ASSUME ShellInv, [ShellNext]_shellVars PROVE ShellInv'
  OBVIOUS
<1>1. CASE Installs \/ Keeps \/ InstallFails \/ Activates
  BY <1>1, InstallsKeep, KeepsKeep, InstallFailsKeeps, ActivatesKeeps
<1>2. CASE \E u \in Visited : OpensOnline(u) \/ OpensKept(u)
  BY <1>2, OpensOnlineKeeps, OpensKeptKeeps
<1>3. CASE ScriptArrives \/ \E x \in puts : PutLands(x)
  BY <1>3, ScriptArrivesKeeps, PutLandsKeeps
<1>4. CASE PutsLost \/ Deploys
  BY <1>4, PutsLostKeep, DeploysKeeps
<1>5. CASE Connects
  BY <1>5, ShellUnchanged DEF Connects
<1>6. CASE UNCHANGED shellVars
  BY <1>6, ShellUnchanged DEF shellVars, ShellInv, ShellTypeOK
<1> QED
  BY <1>1, <1>2, <1>3, <1>4, <1>5, <1>6 DEF ShellNext

\* Of every state: versions, honesty of the caches, and what was visited whole.
LEMMA ShellInvariant == ShellSpec => []ShellInv
<1>1. ASSUME ShellInit PROVE ShellInv
  <2>1. /\ deployed = 1 /\ sw = 1 /\ online = TRUE /\ installing = None /\ active = 0
        /\ stores = <<>> /\ documents = [s \in 0..MaxVersion |-> NothingKept]
        /\ scripts = [v \in Versions |-> "none"]
        /\ view = Blank /\ puts = {} /\ sound = {}
    BY <1>1 DEF ShellInit
  <2>2. MaxVersion \in Nat \ {0} /\ Versions = 1..MaxVersion /\ deployed \in Versions
        /\ sw \in 1..deployed /\ active \in 0..sw
    BY <2>1, ShellAssumption DEF Versions
  <2>3. installing \in [sw : 0..MaxVersion, since : 0..MaxVersion, done : BOOLEAN]
    BY <2>1, <2>2 DEF None
  <2>4. documents \in [0..MaxVersion -> [Urls -> 0..deployed]]
        /\ \A s \in 0..MaxVersion : documents[s] = NothingKept
    BY <2>1, <2>2 DEF NothingKept
  <2>5. view \in View
    BY <2>1, <2>2 DEF Blank, View, Urls, Visited
  <2>6. stores \in Seq(0..sw) /\ IsInjective(stores)
    BY <2>1 DEF IsInjective
  <2>7. scripts \in [Versions -> Bodies \cup {"none"}] /\ online \in BOOLEAN
    BY <2>1
  <2>8. ShellTypeOK
    BY <2>1, <2>2, <2>3, <2>4, <2>5, <2>6, <2>7 DEF ShellTypeOK
  <2>9. Installed /\ NotAhead /\ DeployedIsHonest /\ OnlineDraws
    BY <2>1, <2>2 DEF Installed, NotAhead, DeployedIsHonest, OnlineDraws, Blank
  <2>10. OnlyVisits
    BY <2>4 DEF OnlyVisits, NothingKept
  <2>11. KeptSoFar /\ KeptWhole
    BY <2>1 DEF KeptSoFar, KeptWhole, Blank
  <2> QED
    BY <2>8, <2>9, <2>10, <2>11 DEF ShellInv
<1> QED
  BY <1>1, ShellStepKeeps, PTL DEF ShellSpec

\* A page asked of the server is of the deployed version and has its script, whatever old
\* copies are kept, for any number of releases (sw.js, network first and cache first).
THEOREM OnlineDrawsCorrect == ShellSpec => []OnlineDraws
<1>1. ShellInv => OnlineDraws
  BY DEF ShellInv
<1> QED
  BY <1>1, ShellInvariant, PTL

\* What was visited whole and kept to the end can be visited offline, for any number of
\* releases, workers and writes under way (sw.js, activate and caches.match).
THEOREM VisitedDrawsOfflineCorrect == ShellSpec => []VisitedDrawsOffline
<1>1. ASSUME ShellInv, NEW u \in sound \ Static
      PROVE  Offline(u) # 0 /\ scripts[Offline(u)] = "script"
  <2>1. u \in Urls \ Static /\ Runtime \in 0..MaxVersion
    BY <1>1, Numbers DEF ShellInv, ShellTypeOK, Runtime
  <2>2. documents[Runtime][u] # 0 /\ scripts[documents[Runtime][u]] = "script"
    BY <1>1 DEF ShellInv, KeptWhole
  <2>3. \A s \in 0..MaxVersion : s # Runtime => documents[s][u] = 0
    BY <1>1, <2>1 DEF ShellInv, OnlyVisits
  <2>4. Match(u) = documents[Runtime][u]
    BY <1>1, <2>1, <2>2, <2>3, MatchBounded DEF ShellInv
  <2> QED
    BY <2>2, <2>4 DEF Offline
<1>2. ShellInv => VisitedDrawsOffline
  BY <1>1 DEF VisitedDrawsOffline
<1> QED
  BY <1>2, ShellInvariant, PTL

-----------------------------------------------------------------------------
(* The whole                                                                 *)

\* What is not the own part of a step stays.
LEMMA AsideStays ==
  ASSUME NEW own \in 1..6, Aside(own)
  PROVE  /\ scene' = scene
         /\ own # 1 => UNCHANGED monitoringVars
         /\ own # 2 => UNCHANGED accountsVars
         /\ own # 3 => UNCHANGED rulesVars
         /\ own # 4 => UNCHANGED statementVars
         /\ own # 5 => UNCHANGED deskVars
         /\ own # 6 => UNCHANGED shellVars
<1>1. scene' = scene
  BY DEF Aside
<1>2. own # 1 => UNCHANGED monitoringVars
  <2>1. 1 \in 1..6
    OBVIOUS
  <2> QED
    BY <2>1 DEF Aside
<1>3. own # 2 => UNCHANGED accountsVars
  <2>1. 2 \in 1..6
    OBVIOUS
  <2> QED
    BY <2>1 DEF Aside
<1>4. own # 3 => UNCHANGED rulesVars
  <2>1. 3 \in 1..6
    OBVIOUS
  <2> QED
    BY <2>1 DEF Aside
<1>5. own # 4 => UNCHANGED statementVars
  <2>1. 4 \in 1..6
    OBVIOUS
  <2> QED
    BY <2>1 DEF Aside
<1>6. own # 5 => UNCHANGED deskVars
  <2>1. 5 \in 1..6
    OBVIOUS
  <2> QED
    BY <2>1 DEF Aside
<1>7. own # 6 => UNCHANGED shellVars
  <2>1. 6 \in 1..6
    OBVIOUS
  <2> QED
    BY <2>1 DEF Aside
<1> QED
  BY <1>1, <1>2, <1>3, <1>4, <1>5, <1>6, <1>7

\* Every step of the whole is one of each part, or leaves it as it was.
LEMMA StepOfParts ==
  ASSUME [OfficeNext]_officeVars
  PROVE  /\ scene' = scene
         /\ [MonitoringNext]_monitoringVars /\ [AccountsNext]_accountsVars /\ [RulesNext]_rulesVars
         /\ [StatementNext]_statementVars /\ [DeskNext]_deskVars /\ [ShellNext]_shellVars
<1>1. CASE (Collecting \/ Watching) /\ Aside(1)
  <2>1. MonitoringNext
    BY <1>1 DEF Collecting, Watching, MonitoringNext
  <2>2. 1 \in 1..6
    OBVIOUS
  <2> QED
    BY <1>1, <2>1, <2>2, AsideStays
<1>2. CASE AccountsNext /\ Aside(2)
  <2>1. 2 \in 1..6
    OBVIOUS
  <2> QED
    BY <1>2, <2>1, AsideStays
<1>3. CASE RulesNext /\ Aside(3)
  <2>1. 3 \in 1..6
    OBVIOUS
  <2> QED
    BY <1>3, <2>1, AsideStays
<1>4. CASE StatementNext /\ Aside(4)
  <2>1. 4 \in 1..6
    OBVIOUS
  <2> QED
    BY <1>4, <2>1, AsideStays
<1>5. CASE Dealing /\ Aside(5)
  <2>1. DeskNext
    BY <1>5 DEF Dealing, DeskNext
  <2>2. 5 \in 1..6
    OBVIOUS
  <2> QED
    BY <1>5, <2>1, <2>2, AsideStays
<1>6. CASE ShellNext /\ Aside(6)
  <2>1. 6 \in 1..6
    OBVIOUS
  <2> QED
    BY <1>6, <2>1, AsideStays
<1>7. CASE UNCHANGED officeVars
  BY <1>7 DEF officeVars
<1> QED
  BY <1>1, <1>2, <1>3, <1>4, <1>5, <1>6, <1>7 DEF OfficeNext

\* What MCOffice runs is a behaviour of each of the six parts, so that what is proved of
\* a part holds of the run, whatever the scene.
THEOREM OfficeRunsItsParts ==
  OfficeSpec => MonitoringSpec /\ AccountsSpec /\ RulesSpec /\ StatementSpec /\ DeskSpec /\ ShellSpec
<1>1. OfficeInit => /\ MonitoringInit /\ AccountsInit /\ RulesInit /\ StatementInit /\ DeskInit
                    /\ ShellInit
  BY DEF OfficeInit
<1>2. [OfficeNext]_officeVars =>
        /\ [MonitoringNext]_monitoringVars /\ [AccountsNext]_accountsVars /\ [RulesNext]_rulesVars
        /\ [StatementNext]_statementVars /\ [DeskNext]_deskVars /\ [ShellNext]_shellVars
  BY StepOfParts
<1> QED
  BY <1>1, <1>2, PTL
     DEF OfficeSpec, MonitoringSpec, AccountsSpec, RulesSpec, StatementSpec, DeskSpec, ShellSpec

\* Every part keeps its types, whichever runs.
THEOREM OfficeTypeCorrect == OfficeSpec => []TypeOK
<1>1. OfficeSpec => [](scene \in Scenes)
  <2>1. OfficeInit => scene \in Scenes
    BY DEF OfficeInit
  <2>2. scene \in Scenes /\ [OfficeNext]_officeVars => (scene \in Scenes)'
    BY StepOfParts
  <2> QED
    BY <2>1, <2>2, PTL DEF OfficeSpec
<1>2. RulesInv => RulesTypeOK
  BY DEF RulesInv
<1>3. StatementInv => StatementTypeOK
  BY DEF StatementInv
<1>4. ShellInv => ShellTypeOK
  BY DEF ShellInv
<1>6. DeskSpec => []DeskTypeOK
  BY DeskInitTyped, DeskStepTyped, PTL DEF DeskSpec
<1>5. (/\ MonitoringTypeOK /\ AccountsTypeOK /\ RulesTypeOK /\ StatementTypeOK /\ DeskTypeOK
       /\ ShellTypeOK /\ scene \in Scenes) => TypeOK
  BY DEF TypeOK
<1> QED
  BY <1>1, <1>2, <1>3, <1>4, <1>5, <1>6, OfficeRunsItsParts, MonitoringTypeCorrect,
     AccountsTypeCorrect, RulesInvariant, StatementInvariant, ShellInvariant, PTL
=============================================================================
