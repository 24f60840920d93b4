----------------------------- MODULE Monitoring -----------------------------
(***************************************************************************)
(* What the backend tells about its own health: the collection of metrics  *)
(* every five minutes and its alerts, kept in memory; the readiness probe; *)
(* and the look at the system that goes to the log every half hour.        *)
(*                                                                         *)
(* The timers do not wait for the round before, so rounds may overlap; the *)
(* checks of a round are asked together and answered in any order.         *)
(***************************************************************************)
EXTENDS Integers, Sequences, SequencesExt

CONSTANTS
  Null,         \* nothing yet
  Collections,  \* bound: the slots 1..n for collections under way at once
  Books,        \* what the payments and the banks may add up to
  MaxHistory,   \* MAX_HISTORY of the alerts
  Troubles      \* bound: outages, recoveries and restarts

AlertSeverities == {"WARNING", "ERROR", "CRITICAL"}
Titles == {"Metrics Collection Failed", "Database Connection Lost", "Slow Database Response",
           "Redis Connection Lost", "High Expired Payments", "Low Approval Rate",
           "Critical Collateral Utilization", "High Collateral Utilization",
           "Low Available Collateral"}
Alert == [severity : AlertSeverities, title : Titles]

\* Rows pending beyond their time; approved and all of the last hour; collateral of active banks.
Book == [expired : Nat, approved : Nat, created : Nat, limit : Nat, used : Nat, available : Int]

ASSUME MonitoringAssumption ==
  /\ Collections \subseteq Nat
  /\ MaxHistory \in Nat \ {0} /\ Troubles \in Nat
  /\ Books \subseteq Book

VARIABLES
  database,    \* "fast", "slow" or "down"
  redis,       \* "up" or "down"
  books,       \* what a count finds; it does not move during a behaviour
  collections, \* of a collection: the answers it has, or Null
  latest,      \* latestMetrics, or Null
  alerts,      \* alertHistory
  probe,       \* the readiness probe: "idle", "database", "redis"
  readiness,   \* its last answer
  round,       \* the checks of the half-hourly round still to answer, and what it found
  logged,      \* its last line in the log
  heard,       \* history: titles alerted since a server last changed
  troubles

collectVars == <<collections, latest, alerts, heard>>
probeVars == <<probe, readiness>>
logVars == <<round, logged>>
serverVars == <<database, redis, books, troubles>>
monitoringVars == <<serverVars, collectVars, probeVars, logVars>>

Idle == Null
Waiting == Null
Checks == {"database", "redis", "payments", "collateral"}
Found == {"healthy", "unhealthy", Waiting}

MonitoringTypeOK ==
  /\ database \in {"fast", "slow", "down"} /\ redis \in {"up", "down"}
  /\ books \in Books
  /\ \A c \in Collections : collections[c] = Idle \/ DOMAIN collections[c] = Checks
  /\ latest = Null \/ (DOMAIN latest = Checks /\ \A k \in Checks : latest[k] # Waiting)
  /\ alerts \in Seq(Alert) /\ Len(alerts) <= MaxHistory
  /\ probe \in {"idle", "database", "redis"} /\ readiness \in {"none", "ready", "not ready"}
  /\ round = Idle \/ round \in [database : Found, redis : Found, counted : BOOLEAN]
  /\ logged \in [database : {"none", "healthy", "unhealthy", "error"},
                 redis : {"none", "healthy", "unhealthy", "error"}, failed : BOOLEAN]
  /\ heard \subseteq Titles
  /\ troubles \in 0..Troubles

MonitoringInit ==
  /\ database = "fast" /\ redis = "up" /\ books \in Books
  /\ collections = [c \in Collections |-> Idle]
  /\ latest = Null /\ alerts = <<>> /\ heard = {}
  /\ probe = "idle" /\ readiness = "none"
  /\ round = Idle /\ logged = [database |-> "none", redis |-> "none", failed |-> FALSE]
  /\ troubles = 0

-----------------------------------------------------------------------------
(* Mutants: bugs this code could have had, each caught by a property below. *)
UncutNewest(kept) == kept
SilentFailure == <<>>
DatabaseOnly == TRUE

-----------------------------------------------------------------------------
(* The alert service. *)
Warning(title) == [severity |-> "WARNING", title |-> title]
Error(title) == [severity |-> "ERROR", title |-> title]
Critical(title) == [severity |-> "CRITICAL", title |-> title]

LastOf(s, n) == SubSeq(s, IF Len(s) > n THEN Len(s) - n + 1 ELSE 1, Len(s))

\* storeAlert: the newest MAX_HISTORY are kept.
Newest(kept) == LastOf(kept, MaxHistory)

Send(sent) ==
  /\ alerts' = Newest(alerts \o sent)
  /\ heard' = heard \cup {sent[i].title : i \in DOMAIN sent}

-----------------------------------------------------------------------------
(* The collection. *)

\* toFixed(2) of a percentage, in hundredths.
Share(part, whole) == IF whole > 0 THEN (part * 10000 + whole \div 2) \div whole ELSE 0

\* What a check answers now; the two that count have no handler of their own.
DatabaseAnswer == IF database = "down" THEN "lost" ELSE database
RedisAnswer == IF redis = "down" THEN "lost" ELSE "up"
PaymentFigures ==
  [expired |-> books.expired, rate |-> Share(books.approved, books.created)]
CollateralFigures ==
  [available |-> books.available, use |-> Share(books.used, books.limit)]

When(condition, alert) == IF condition THEN <<alert>> ELSE <<>>

UseAlert(use) ==
  IF use > 9000 THEN <<Critical("Critical Collateral Utilization")>>
  ELSE When(use > 7500, Warning("High Collateral Utilization"))

\* checkAnomalies, in its order.
Anomalies(m) ==
     When(m.database = "lost", Critical("Database Connection Lost"))
  \o When(m.database = "slow", Warning("Slow Database Response"))
  \o When(m.redis = "lost", Critical("Redis Connection Lost"))
  \o When(m.payments.expired > 50, Warning("High Expired Payments"))
  \o When(m.payments.rate < 2000 /\ m.payments.rate > 0, Warning("Low Approval Rate"))
  \o UseAlert(m.collateral.use)
  \o When(m.collateral.available < 10000, Error("Low Available Collateral"))

\* The alert of collectMetrics when it was refused a count.
Failure == <<Error("Metrics Collection Failed")>>

NewLatest(metrics) == metrics

\* The cron of every five minutes; all four checks are sent before any
\* answers. The lowest slot is taken.
Tick(c) ==
  /\ collections[c] = Idle /\ \A d \in Collections : d < c => collections[d] # Idle
  /\ collections' = [collections EXCEPT ![c] = [k \in Checks |-> Waiting]]
  /\ UNCHANGED <<latest, alerts, heard, serverVars, probeVars, logVars>>

Refuses(k) == k \in {"payments", "collateral"} /\ database = "down"

CheckAnswer(k) ==
  CASE k = "database" -> DatabaseAnswer
    [] k = "redis" -> RedisAnswer
    [] k = "payments" -> PaymentFigures
    [] k = "collateral" -> CollateralFigures

\* A count is refused: Promise.all gives up, the metrics stay what they were.
CheckFails(c, k) ==
  /\ collections[c] # Idle /\ collections[c][k] = Waiting /\ Refuses(k)
  /\ collections' = [collections EXCEPT ![c] = Idle]
  /\ Send(Failure)
  /\ UNCHANGED <<latest, serverVars, probeVars, logVars>>

\* A check answers; with the last one the metrics are replaced and looked at.
CheckAnswers(c, k) ==
  /\ collections[c] # Idle /\ collections[c][k] = Waiting /\ ~Refuses(k)
  /\ LET m == [collections[c] EXCEPT ![k] = CheckAnswer(k)] IN
     IF \E other \in Checks : m[other] = Waiting
     THEN /\ collections' = [collections EXCEPT ![c] = m]
          /\ UNCHANGED <<latest, alerts, heard>>
     ELSE /\ collections' = [collections EXCEPT ![c] = Idle]
          /\ latest' = NewLatest(m)
          /\ Send(Anomalies(m))
  /\ UNCHANGED <<serverVars, probeVars, logVars>>

-----------------------------------------------------------------------------
(* GET /health/ready: the database, and Redis only once that answered. *)
RedisIsReady == redis = "up"

ProbeAsks ==
  /\ probe = "idle"
  /\ probe' = "database"
  /\ UNCHANGED <<readiness, serverVars, collectVars, logVars>>

ProbeDatabase ==
  /\ probe = "database"
  /\ IF database = "down" THEN probe' = "idle" /\ readiness' = "not ready"
                          ELSE probe' = "redis" /\ UNCHANGED readiness
  /\ UNCHANGED <<serverVars, collectVars, logVars>>

ProbeRedis ==
  /\ probe = "redis"
  /\ probe' = "idle"
  /\ readiness' = IF RedisIsReady THEN "ready" ELSE "not ready"
  /\ UNCHANGED <<serverVars, collectVars, logVars>>

-----------------------------------------------------------------------------
(* logSystemHealth, every half hour: two pings that are caught and three   *)
(* counts that are not, asked together.                                    *)
RoundBegins ==
  /\ round = Idle
  /\ round' = [database |-> Waiting, redis |-> Waiting, counted |-> FALSE]
  /\ UNCHANGED <<logged, serverVars, collectVars, probeVars>>

FailedLine(db, cache) == "unhealthy" \in {db, cache}

Line(db, cache) == [database |-> db, redis |-> cache, failed |-> FailedLine(db, cache)]

Learns(found) ==
  IF Waiting \in {found.database, found.redis} \/ ~found.counted
  THEN round' = found /\ UNCHANGED logged
  ELSE round' = Idle /\ logged' = Line(found.database, found.redis)

RoundPings(server) ==
  /\ round # Idle /\ round[server] = Waiting
  /\ LET down == IF server = "database" THEN database = "down" ELSE redis = "down" IN
       Learns([round EXCEPT ![server] = IF down THEN "unhealthy" ELSE "healthy"])
  /\ UNCHANGED <<serverVars, collectVars, probeVars>>

\* A refused count makes an "error" of the round, whatever the pings found.
RoundCounts ==
  /\ round # Idle /\ ~round.counted
  /\ IF database = "down"
     THEN round' = Idle /\ logged' = Line("error", "error")
     ELSE Learns([round EXCEPT !.counted = TRUE])
  /\ UNCHANGED <<serverVars, collectVars, probeVars>>

-----------------------------------------------------------------------------
(* The servers and the process. *)
Trouble == troubles < Troubles /\ troubles' = troubles + 1 /\ heard' = {}

DatabaseMoves ==
  /\ Trouble
  /\ database' \in {"fast", "slow", "down"} \ {database}
  /\ UNCHANGED <<redis, books, collections, latest, alerts, probeVars, logVars>>

RedisMoves ==
  /\ Trouble
  /\ redis' \in {"up", "down"} \ {redis}
  /\ UNCHANGED <<database, books, collections, latest, alerts, probeVars, logVars>>

\* The process dies and starts again, which it can only with the database
\* there; metrics and alerts were only in its memory.
Restart ==
  /\ Trouble /\ database # "down"
  /\ collections' = [c \in Collections |-> Idle]
  /\ latest' = Null /\ alerts' = <<>>
  /\ probe' = "idle" /\ round' = Idle
  /\ UNCHANGED <<database, redis, books, readiness, logged>>

Environment == DatabaseMoves \/ RedisMoves \/ Restart

CollectionStep(c) == Tick(c) \/ \E k \in Checks : CheckFails(c, k) \/ CheckAnswers(c, k)
ProbeStep == ProbeAsks \/ ProbeDatabase \/ ProbeRedis
LogStep == RoundBegins \/ RoundCounts \/ \E s \in {"database", "redis"} : RoundPings(s)

MonitoringNext ==
  Environment \/ (\E c \in Collections : CollectionStep(c)) \/ ProbeStep \/ LogStep

MonitoringSpec == MonitoringInit /\ [][MonitoringNext]_monitoringVars

-----------------------------------------------------------------------------
(* What a run of the timers comes to again and again. *)
\* The trouble there is has its alert since a server last changed: each outage
\* anew and as an error or worse, though the collection that meets it may be
\* refused its counts. Banks used beyond 90% are told as critical, no lesser
\* warning comes in its place (collectMetrics, checkAnomalies).
TroubleIsTold ==
  /\ database = "down" =>
       heard \cap {"Metrics Collection Failed", "Database Connection Lost"} # {}
  /\ redis = "down" =>
       heard \cap {"Metrics Collection Failed", "Redis Connection Lost"} # {}
  /\ database # "down" /\ Share(books.used, books.limit) > 9000 =>
       "Critical Collateral Utilization" \in heard

\* With both servers up the metrics do not tell of the outage before, however
\* many collections of it are still under way (GET /health/metrics).
RecoveryIsSeen ==
  database = "fast" /\ redis = "up" =>
    latest # Null /\ latest.database = "fast" /\ latest.redis = "up"

\* The probe says "ready" while both servers are there and "not ready" while one
\* is down (GET /health/ready).
ProbeFollows ==
  readiness = IF database # "down" /\ redis = "up" THEN "ready" ELSE "not ready"

\* An outage of Redis alone is logged as a failed health check, one of the
\* database as a status "error" or "unhealthy" (logSystemHealth).
LogFollows ==
  /\ database # "down" /\ redis = "down" => logged.failed /\ logged.redis = "unhealthy"
  /\ database = "down" => logged.database \in {"error", "unhealthy"}
=============================================================================
