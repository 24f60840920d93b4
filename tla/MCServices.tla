----------------------------- MODULE MCServices -----------------------------
(***************************************************************************)
(* Three services of the backend, one in each behaviour, for they share no *)
(* state: BankSelection with two banks of different limits, so that an     *)
(* amount may fit in one of them, in both or in none; Webhook with two     *)
(* attempts for the code's five; and Monitoring, its collection apart from *)
(* its probe and its log.                                                  *)
(***************************************************************************)
EXTENDS BankSelection, Webhook, Monitoring, TLC

CONSTANTS b1, b2, s1, s2, h1, j1, j2, c1, c2

VARIABLE service

Limits == (b1 :> 1 @@ b2 :> 2)

\* Calm books at the thresholds, and strained ones for the collection.
MCBook(expired, approved, taken) ==
  [expired |-> expired, approved |-> approved, created |-> 10, limit |-> 100000,
   used |-> taken, available |-> 100000 - taken]
MCBooks == {MCBook(50, 2, 75000), MCBook(51, 1, 95000)}

ServicesInit ==
  /\ service \in {"selection", "webhook", "collect", "watch"}
  /\ SelectionInit /\ Init /\ MonitoringInit
  /\ books = IF service = "collect" THEN MCBook(51, 1, 95000) ELSE MCBook(50, 2, 75000)

Selecting == service = "selection" /\ SelectionNext /\ UNCHANGED <<vars, monitoringVars>>
Delivering == service = "webhook" /\ Next /\ UNCHANGED <<selectionVars, monitoringVars>>
Observing ==
  /\ \/ service \in {"collect", "watch"} /\ Environment
     \/ service = "collect" /\ \E c \in Collections : CollectionStep(c)
     \/ service = "watch" /\ (ProbeStep \/ LogStep)
  /\ UNCHANGED <<selectionVars, vars>>

ServicesNext == (Selecting \/ Delivering \/ Observing) /\ UNCHANGED service

\* The timers of the backend go off for ever and checks are answered, though one
\* collection may wait for ever for its own while the others end.
MonitoringFairness ==
  /\ WF_monitoringVars(service = "collect" /\ \E c \in Collections : CollectionStep(c))
  /\ WF_monitoringVars(service = "watch" /\ ProbeStep)
  /\ WF_monitoringVars(service = "watch" /\ LogStep)

\* Selection and webhooks never leave their initial state where they are not the
\* service: nothing of them that is fair can happen there.
ServicesSpec ==
  /\ ServicesInit /\ [][ServicesNext]_<<service, selectionVars, vars, monitoringVars>>
  /\ SelectionFairness /\ Fairness /\ MonitoringFairness

\* Where nothing changes any more, trouble comes to be alerted, the metrics come
\* to show that it is over, and the probe and the log come to say what is so;
\* before, they come to it again and again.
MetricsFollow ==
  /\ []<>(service = "collect" => TroubleIsTold)
  /\ []<>(service = "collect" => RecoveryIsSeen)
ProbesFollow ==
  /\ []<>(service = "watch" => ProbeFollows)
  /\ []<>(service = "watch" => LogFollows)
=============================================================================
