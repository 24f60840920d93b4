--------------------------- MODULE WebhookProofs ---------------------------
(***************************************************************************)
(* Theorems about the delivery of webhooks, for any number of rows, jobs   *)
(* and concurrent callers, any number of attempts, with failing calls and  *)
(* dying processes and without.                                            *)
(***************************************************************************)
EXTENDS Webhook, TLAPS

(***************************************************************************)
(* A job has a webhook just while it exists, and what was answered with    *)
(* 2xx was received.  A caller holds a webhook exactly between having read *)
(* or written its row and having added the job.                            *)
(***************************************************************************)
Shape ==
  /\ \A j \in Jobs :
       /\ IF stage[j] = "free" THEN about[j] = Nobody ELSE about[j] \in Webhooks
       /\ stage[j] = "accepted" => about[j] \in received
  /\ \A c \in Callers :
       IF at[c] \in {"reset", "add"} THEN hook[c] \in Webhooks ELSE hook[c] = Nobody

IInv == TypeOK /\ Shape /\ SentWasReceived /\ NotForgotten

\* A behaviour starts with no job and no caller.
LEMMA InitEstablishes == Init => IInv
  BY WebhookAssumption DEF Init, IInv, TypeOK, Shape, SentWasReceived, NotForgotten

\* The steps of a caller.
LEMMA CallersPreserve ==
  ASSUME IInv, NEW c \in Callers,
         \/ \E h \in Webhooks : Enqueue(c, h) \/ AdminRetry(c, h)
         \/ CronFind(c) \/ CallerStep(c) \/ CallerDies(c)
  PROVE  IInv'
<1> USE WebhookAssumption
    DEF IInv, TypeOK, Shape, SentWasReceived, NotForgotten, Busy, rowVars, jobVars,
        callerVars, historyVars, Write, Made, Failed, GoesOn, Back
<1>1. ASSUME NEW h \in Webhooks, Enqueue(c, h) PROVE IInv'
  BY <1>1 DEF Enqueue
<1>2. ASSUME NEW h \in Webhooks, AdminRetry(c, h) PROVE IInv'
  BY <1>2 DEF AdminRetry, RetryRead
<1>3. ASSUME CronFind(c) PROVE IInv'
  BY <1>3 DEF CronFind
<1>4. ASSUME AddJob(c) PROVE IInv'
  BY <1>4 DEF AddJob
<1>5. ASSUME Reset(c) PROVE IInv'
  BY <1>5 DEF Reset
<1>6. ASSUME NEW h \in Webhooks, CronRetry(c, h) PROVE IInv'
  BY <1>6 DEF CronRetry, RetryRead
<1>7. ASSUME CallerDies(c) PROVE IInv'
  BY <1>7 DEF CallerDies
<1> QED
  BY <1>1, <1>2, <1>3, <1>4, <1>5, <1>6, <1>7 DEF CallerStep

\* The steps of a job.
LEMMA JobsPreserve ==
  ASSUME IInv, NEW j \in Jobs, JobStep(j) \/ JobDies(j)
  PROVE  IInv'
<1> USE WebhookAssumption
    DEF IInv, TypeOK, Shape, SentWasReceived, NotForgotten, Busy, rowVars, jobVars,
        callerVars, historyVars, Write, Made, Failed
<1>1. ASSUME Start(j) PROVE IInv'
  BY <1>1 DEF Start
<1>2. ASSUME Post(j) PROVE IInv'
  BY <1>2 DEF Post, Answer
<1>3. ASSUME RecordSent(j) PROVE IInv'
  BY <1>3 DEF RecordSent
<1>4. ASSUME RecordError(j) PROVE IInv'
  BY <1>4 DEF RecordError, ErrorWrite, NextAttempt
<1>5. ASSUME JobDies(j) PROVE IInv'
  BY <1>5 DEF JobDies
<1> QED
  BY <1>1, <1>2, <1>3, <1>4, <1>5 DEF JobStep

LEMMA Inductive == IInv /\ [Next]_vars => IInv'
<1> SUFFICES ASSUME IInv, [Next]_vars PROVE IInv'
  OBVIOUS
<1>1. ASSUME NEW c \in Callers,
             \/ \E h \in Webhooks : Enqueue(c, h) \/ AdminRetry(c, h)
             \/ CronFind(c) \/ CallerStep(c) \/ CallerDies(c)
      PROVE  IInv'
  BY <1>1, CallersPreserve
<1>2. ASSUME NEW j \in Jobs, JobStep(j) \/ JobDies(j) PROVE IInv'
  BY <1>2, JobsPreserve
<1>3. ASSUME NEW h \in Webhooks, Due(h) PROVE IInv'
  BY <1>3 DEF Due, IInv, TypeOK, Shape, SentWasReceived, NotForgotten, Busy, jobVars,
     callerVars, historyVars
<1>4. CASE UNCHANGED vars
  BY <1>4 DEF vars, rowVars, jobVars, callerVars, historyVars, IInv, TypeOK, Shape,
     SentWasReceived, NotForgotten, Busy
<1> QED
  BY <1>1, <1>2, <1>3, <1>4 DEF Next

LEMMA AlwaysIInv == Spec => []IInv
<1> QED
  BY InitEstablishes, Inductive, PTL DEF Spec

\* Rows, jobs and callers stay within the states webhook.service.ts and
\* webhook.processor.ts give them; no job is tried more than its attempts.
THEOREM TypeCorrect == Spec => []TypeOK
<1>1. IInv => TypeOK
  BY DEF IInv
<1> QED
  BY AlwaysIInv, <1>1, PTL

\* updateWebhookSuccess writes SENT only for what the platform received, with any
\* number of jobs, retries and resets of one row interleaved.
THEOREM SentWasReceivedCorrect == Spec => []SentWasReceived
<1>1. IInv => SentWasReceived
  BY DEF IInv
<1> QED
  BY AlwaysIInv, <1>1, PTL

\* A PENDING row no failure has touched has a job, a caller about to add one, or a
\* next_retry_at that retryPendingWebhooks will find.
THEOREM NotForgottenCorrect == Spec => []NotForgotten
<1>1. IInv => NotForgotten
  BY DEF IInv
<1> QED
  BY AlwaysIInv, <1>1, PTL

\* What was SENT with nothing of it left in the queue is never sent again: the
\* check for SENT in retryWebhook stops the cron job and administrators alike.
THEOREM SentIsFinalCorrect == Spec => SentIsFinal
<1> DEFINE Stays(h) == status[h] = "SENT" /\ ~Busy(h) => (status[h] = "SENT" /\ ~Busy(h))'
<1>1. ASSUME IInv, [Next]_vars, NEW h \in Webhooks, status[h] = "SENT", ~Busy(h)
      PROVE  (status[h] = "SENT" /\ ~Busy(h))'
  <2> USE <1>1, WebhookAssumption
      DEF IInv, TypeOK, Shape, Busy, rowVars, jobVars, callerVars, historyVars, Write,
          Made, Failed, GoesOn, Back
  <2>1. ASSUME NEW c \in Callers, NEW g \in Webhooks,
               Enqueue(c, g) \/ AdminRetry(c, g) \/ CronRetry(c, g)
        PROVE  (status[h] = "SENT" /\ ~Busy(h))'
    BY <2>1 DEF Enqueue, AdminRetry, CronRetry, RetryRead
  <2>2. ASSUME NEW c \in Callers, CronFind(c) \/ AddJob(c) \/ Reset(c) \/ CallerDies(c)
        PROVE  (status[h] = "SENT" /\ ~Busy(h))'
    BY <2>2 DEF CronFind, AddJob, Reset, CallerDies
  <2>3. ASSUME NEW j \in Jobs, Start(j) \/ Post(j) \/ RecordSent(j) \/ RecordError(j) \/ JobDies(j)
        PROVE  (status[h] = "SENT" /\ ~Busy(h))'
    BY <2>3 DEF Start, Post, Answer, RecordSent, RecordError, ErrorWrite, NextAttempt, JobDies
  <2>4. ASSUME NEW g \in Webhooks, Due(g) PROVE (status[h] = "SENT" /\ ~Busy(h))'
    BY <2>4 DEF Due
  <2>5. CASE UNCHANGED vars
    BY <2>5 DEF vars
  <2> QED
    BY <2>1, <2>2, <2>3, <2>4, <2>5 DEF Next, CallerStep, JobStep
<1>2. IInv /\ [Next]_vars => [\A h \in Webhooks : Stays(h)]_vars
  BY <1>1
<1> QED
  BY AlwaysIInv, <1>2, PTL DEF Spec, SentIsFinal
=============================================================================
