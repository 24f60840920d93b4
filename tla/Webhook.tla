------------------------------ MODULE Webhook -------------------------------
(***************************************************************************)
(* Delivery of webhooks to platforms, webhook/*.ts: a row of webhook_logs  *)
(* for each, a Bull queue that runs handleSendWebhook and repeats it on    *)
(* errors, and retries that put another job into the queue, by an          *)
(* administrator or by the cron job for rows whose next_retry_at is past.  *)
(*                                                                         *)
(* Bull repeats a job after a minute, the row asks for five minutes or     *)
(* more; a slow queue makes either come first, so both are just steps.     *)
(***************************************************************************)
EXTENDS Naturals, FiniteSets

CONSTANTS
  Webhooks, \* rows of webhook_logs
  Jobs,     \* bound: the jobs of the queue that exist at once
  Callers,  \* concurrent enqueues, retries and cron runs
  Nobody,
  Attempts, \* attempts of a job: 5 in the code
  Faults,   \* TRUE: a database or queue call may be rejected or its answer lost
  Crashes   \* TRUE: a process may die

ASSUME WebhookAssumption ==
  /\ Attempts \in Nat \ {0}
  /\ Nobody \notin Webhooks
  /\ Faults \in BOOLEAN /\ Crashes \in BOOLEAN

VARIABLES
  status,   \* webhook_log.status, "NONE" while there is no row
  retry,    \* webhook_log.next_retry_at: "none", "later" or "due"
  stage,    \* of a job: where it is, "free" while there is no such job
  about,    \* of a job: its webhook
  made,     \* of a job: attemptsMade
  at,       \* of a caller: where it stands
  hook,     \* of a caller: the webhook it enqueues or retries
  list,     \* of a cron run: the webhooks it has still to retry
  received, \* history: the webhooks the platform got
  hurt      \* history: the webhooks a rejected call or a crash has touched

rowVars == <<status, retry>>
jobVars == <<stage, about, made>>
callerVars == <<at, hook, list>>
historyVars == <<received, hurt>>
vars == <<rowVars, jobVars, callerVars, historyVars>>

Init ==
  /\ status = [h \in Webhooks |-> "NONE"]
  /\ retry = [h \in Webhooks |-> "none"]
  /\ stage = [j \in Jobs |-> "free"]
  /\ about = [j \in Jobs |-> Nobody]
  /\ made = [j \in Jobs |-> 0]
  /\ at = [c \in Callers |-> "idle"]
  /\ hook = [c \in Callers |-> Nobody]
  /\ list = [c \in Callers |-> {}]
  /\ received = {}
  /\ hurt = {}

\* Row h as the code writes it.
Write(h, new, date) ==
  /\ status' = [status EXCEPT ![h] = new]
  /\ retry' = [retry EXCEPT ![h] = date]

\* A call about webhook h is made, or fails, before its effect or after it.
Made == UNCHANGED hurt
Failed(h) == Faults /\ hurt' = hurt \cup {h}

\* The caller is done with a webhook and goes on with the rest of its list.
Back(c, rest) ==
  /\ at' = [at EXCEPT ![c] = IF rest = {} THEN "idle" ELSE "loop"]
  /\ hook' = [hook EXCEPT ![c] = Nobody]
  /\ list' = [list EXCEPT ![c] = rest]

\* The caller goes on to s about webhook h.
GoesOn(c, s, h) ==
  /\ at' = [at EXCEPT ![c] = s]
  /\ hook' = [hook EXCEPT ![c] = h]

-----------------------------------------------------------------------------
(* Mutants: bugs this code could have had, each caught by a property below.  *)

\* retryWebhook without the check for SENT
UncheckedRetryRead(c, h) == status[h] # "NONE" /\ GoesOn(c, "reset", h)

\* `attemptNumber > maxAttempts`
LateErrorWrite(j) ==
  LET new == IF made[j] >= Attempts \/ stage[j] = "refused" THEN "FAILED" ELSE "PENDING"
  IN Write(about[j], new, IF new = "PENDING" THEN "later" ELSE "none")

\* any answer taken for a delivery
AnyAnswer(j) ==
  \/ stage' = [stage EXCEPT ![j] = "accepted"] /\ received' = received \cup {about[j]}
  \/ stage' = [stage EXCEPT ![j] = "accepted"] /\ UNCHANGED received

-----------------------------------------------------------------------------
(* enqueue and retryWebhook: the row first, then a job for it                *)

Enqueue(c, h) ==
  /\ at[c] = "idle" /\ status[h] = "NONE"
  /\ Write(h, "PENDING", "none")
  /\ GoesOn(c, "add", h)
  /\ UNCHANGED <<jobVars, list, historyVars>>

\* queue.add.  While the queue has no room for a job (a bound) the caller waits.
AddJob(c) ==
  /\ at[c] = "add"
  /\ \/ /\ \E j \in Jobs :
             /\ stage[j] = "free"
             /\ stage' = [stage EXCEPT ![j] = "waiting"]
             /\ about' = [about EXCEPT ![j] = hook[c]]
             /\ made' = [made EXCEPT ![j] = 0]
        /\ Made \/ Failed(hook[c])
     \/ Failed(hook[c]) /\ UNCHANGED jobVars
  /\ Back(c, list[c])
  /\ UNCHANGED <<rowVars, received>>

\* A webhook that was SENT is not retried.
RetryRead(c, h) == status[h] \notin {"NONE", "SENT"} /\ GoesOn(c, "reset", h)

AdminRetry(c, h) ==
  /\ at[c] = "idle"
  /\ RetryRead(c, h)
  /\ UNCHANGED <<rowVars, jobVars, list, historyVars>>

\* The row is reset whatever has become of it since it was read.
Reset(c) ==
  /\ at[c] = "reset"
  /\ \/ /\ Write(hook[c], "PENDING", "none")
        /\ \/ Made /\ GoesOn(c, "add", hook[c]) /\ UNCHANGED list
           \/ Failed(hook[c]) /\ Back(c, list[c])
     \/ Failed(hook[c]) /\ Back(c, list[c]) /\ UNCHANGED rowVars
  /\ UNCHANGED <<jobVars, received>>

\* retryPendingWebhooks
CronFind(c) ==
  LET found == {h \in Webhooks : status[h] = "PENDING" /\ retry[h] = "due"}
  IN /\ at[c] = "idle" /\ found # {}
     /\ at' = [at EXCEPT ![c] = "loop"]
     /\ list' = [list EXCEPT ![c] = found]
     /\ UNCHANGED <<rowVars, jobVars, hook, historyVars>>

\* An error about one webhook is logged and the loop goes on.
CronRetry(c, h) ==
  /\ at[c] = "loop" /\ h \in list[c]
  /\ \/ Made /\ RetryRead(c, h) /\ list' = [list EXCEPT ![c] = @ \ {h}]
     \/ Made /\ status[h] = "SENT" /\ Back(c, list[c] \ {h})
     \/ Failed(h) /\ Back(c, list[c] \ {h})
  /\ UNCHANGED <<rowVars, jobVars, received>>

-----------------------------------------------------------------------------
(* handleSendWebhook *)

Start(j) ==
  /\ stage[j] = "waiting"
  /\ stage' = [stage EXCEPT ![j] = "posting"]
  /\ UNCHANGED <<rowVars, about, made, callerVars, historyVars>>

\* The POST is answered with 2xx; or its answer does not come in thirty seconds;
\* or it does not arrive, or meets 408, 429 or 5xx; or another 4xx refuses it.
Answer(j) ==
  \/ stage' = [stage EXCEPT ![j] = "accepted"] /\ received' = received \cup {about[j]}
  \/ stage' = [stage EXCEPT ![j] = "erring"] /\ received' = received \cup {about[j]}
  \/ stage' = [stage EXCEPT ![j] = "erring"] /\ UNCHANGED received
  \/ stage' = [stage EXCEPT ![j] = "refused"] /\ UNCHANGED received

Post(j) ==
  /\ stage[j] = "posting" /\ Answer(j)
  /\ UNCHANGED <<rowVars, about, made, callerVars, hurt>>

\* updateWebhookSuccess leaves next_retry_at alone.  An error of the database
\* is handled like one of the platform.
RecordSent(j) ==
  /\ stage[j] = "accepted"
  /\ \/ /\ Made
        /\ Write(about[j], "SENT", retry[about[j]])
        /\ stage' = [stage EXCEPT ![j] = "free"]
        /\ about' = [about EXCEPT ![j] = Nobody]
        /\ made' = [made EXCEPT ![j] = 0]
     \/ /\ Failed(about[j])
        /\ Write(about[j], "SENT", retry[about[j]]) \/ UNCHANGED rowVars
        /\ stage' = [stage EXCEPT ![j] = "erring"]
        /\ UNCHANGED <<about, made>>
  /\ UNCHANGED <<callerVars, received>>

\* handleWebhookError
ErrorWrite(j) ==
  LET new == IF made[j] + 1 >= Attempts \/ stage[j] = "refused"
               THEN "FAILED" ELSE "PENDING"
  IN Write(about[j], new, IF new = "PENDING" THEN "later" ELSE "none")

\* The error is thrown on, and Bull repeats the job while it has attempts left,
\* after an error that will not go away as after any other.
NextAttempt(j) ==
  LET again == made[j] + 1 < Attempts
  IN /\ stage' = [stage EXCEPT ![j] = IF again THEN "waiting" ELSE "free"]
     /\ about' = [about EXCEPT ![j] = IF again THEN @ ELSE Nobody]
     /\ made' = [made EXCEPT ![j] = IF again THEN @ + 1 ELSE 0]

RecordError(j) ==
  /\ stage[j] \in {"erring", "refused"}
  /\ \/ ErrorWrite(j) /\ (Made \/ Failed(about[j]))
     \/ UNCHANGED rowVars /\ Failed(about[j])
  /\ NextAttempt(j)
  /\ UNCHANGED <<callerVars, received>>

-----------------------------------------------------------------------------
(* Failures and time *)

Due(h) ==
  /\ retry[h] = "later"
  /\ retry' = [retry EXCEPT ![h] = "due"]
  /\ UNCHANGED <<status, jobVars, callerVars, historyVars>>

\* The process of a job dies: Bull runs the job again, or fails it when it has
\* done so before.
JobDies(j) ==
  /\ Crashes /\ stage[j] \notin {"free", "waiting"}
  /\ \/ /\ stage' = [stage EXCEPT ![j] = "waiting"]
        /\ UNCHANGED <<about, made>>
     \/ /\ stage' = [stage EXCEPT ![j] = "free"]
        /\ about' = [about EXCEPT ![j] = Nobody]
        /\ made' = [made EXCEPT ![j] = 0]
  /\ hurt' = hurt \cup {about[j]}
  /\ UNCHANGED <<rowVars, callerVars, received>>

CallerDies(c) ==
  /\ Crashes /\ at[c] # "idle"
  /\ hurt' = hurt \cup ({hook[c]} \cap Webhooks)
  /\ Back(c, {})
  /\ UNCHANGED <<rowVars, jobVars, received>>

JobStep(j) == Start(j) \/ Post(j) \/ RecordSent(j) \/ RecordError(j)

CallerStep(c) == AddJob(c) \/ Reset(c) \/ \E h \in Webhooks : CronRetry(c, h)

Next ==
  \/ \E c \in Callers, h \in Webhooks : Enqueue(c, h) \/ AdminRetry(c, h)
  \/ \E c \in Callers : CronFind(c) \/ CallerStep(c) \/ CallerDies(c)
  \/ \E j \in Jobs : JobStep(j) \/ JobDies(j)
  \/ \E h \in Webhooks : Due(h)

Spec == Init /\ [][Next]_vars

\* Bull runs its jobs, awaited calls settle, time passes, and the cron job runs
\* every five minutes, whatever administrators do.
Fairness ==
  /\ \A j \in Jobs : WF_vars(JobStep(j))
  /\ \A c \in Callers : WF_vars(CallerStep(c))
  /\ \A h \in Webhooks : WF_vars(Due(h))
  /\ SF_vars(\E c \in Callers : CronFind(c))

FairSpec == Spec /\ Fairness

-----------------------------------------------------------------------------
(* Properties *)

TypeOK ==
  /\ status \in [Webhooks -> {"NONE", "PENDING", "SENT", "FAILED"}]
  /\ retry \in [Webhooks -> {"none", "later", "due"}]
  /\ stage \in [Jobs -> {"free", "waiting", "posting", "accepted", "erring", "refused"}]
  /\ about \in [Jobs -> Webhooks \cup {Nobody}]
  /\ made \in [Jobs -> 0 .. Attempts - 1]
  /\ at \in [Callers -> {"idle", "loop", "reset", "add"}]
  /\ hook \in [Callers -> Webhooks \cup {Nobody}]
  /\ list \in [Callers -> SUBSET Webhooks]
  /\ received \in SUBSET Webhooks
  /\ hurt \in SUBSET Webhooks

\* Somebody still has a hand on the webhook: a job, or a caller on its way to one.
Busy(h) ==
  \/ \E j \in Jobs : about[j] = h
  \/ \E c \in Callers : hook[c] = h

\* A webhook marked SENT was received by the platform, whichever of its jobs said
\* so and however often it was retried or reset in between.
SentWasReceived == \A h \in Webhooks : status[h] = "SENT" => h \in received

\* A webhook that is SENT and that nobody is about to send stays SENT, and is not
\* sent again: neither the cron job, from a list made earlier or from the date
\* updateWebhookSuccess left in the row, nor an administrator starts over.
SentIsFinal ==
  [][\A h \in Webhooks :
       status[h] = "SENT" /\ ~Busy(h) => (status[h] = "SENT" /\ ~Busy(h))']_vars

\* Unless a call failed or a process died on it, a PENDING webhook is not
\* forgotten: it has a job, or a caller about to add one, or a date for the cron.
NotForgotten ==
  \A h \in Webhooks :
    status[h] = "PENDING" /\ h \notin hurt => Busy(h) \/ retry[h] # "none"

\* Unless a call failed or a process died on it, every webhook is sent or given
\* up: PENDING ends.
PendingSettles ==
  \A h \in Webhooks : []<>(status[h] # "PENDING" \/ h \in hurt)
=============================================================================
