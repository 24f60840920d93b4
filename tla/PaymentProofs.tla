--------------------------- MODULE PaymentProofs ---------------------------
(***************************************************************************)
(* Theorems about the life of payments, for any number of banks, payments  *)
(* and concurrent calls and any set of handlers, with failing calls, dying *)
(* processes and keys that lapse under their holders.                      *)
(***************************************************************************)
EXTENDS Payment, CollateralProofs

(***************************************************************************)
(* The composition.  The handlers reach the collateral only through the    *)
(* calls of its service; a worker that makes no call has no locals of one, *)
(* so that one that dies between its calls leaves no trace in the service. *)
(***************************************************************************)
Rested ==
  \A w \in Workers : pc[w] = "idle" =>
    pay[w] = Nobody /\ at[w] = Nobody /\ saw[w] = FALSE /\ todo[w] = {} /\ job[w] = "call"

\* Every step of the service clears the locals of the call it ends.
LEMMA RestedInductive == TypeOK /\ Rested /\ [Next]_vars => Rested'
<1> SUFFICES ASSUME TypeOK, Rested, [Next]_vars PROVE Rested'
  OBVIOUS
<1> USE DEF TypeOK, Rested, Goes, callVars
<1>1. ASSUME NEW w \in Workers, LockStep(w) PROVE Rested'
  BY <1>1, AfterCases DEF LockStep, TakeKey, KeyRefused, BankAccepts, BankRefuses,
     LockCommit, LockAbort, Tell, FreeKey, FreeKeyFails
<1>2. ASSUME NEW w \in Workers, ReleaseStep(w) PROVE Rested'
  BY <1>2, AfterCases DEF ReleaseStep, ReadLock, ReleaseWrite, ReleaseCommit, ReleaseAbort
<1>3. ASSUME NEW w \in Workers, SweepStep(w) PROVE Rested'
  <2>1. CASE SweepFind(w) \/ SweepNext(w)
    BY <2>1 DEF SweepFind, SweepNext
  <2>2. CASE SweepDone(w)
    BY <2>2 DEF SweepDone, Forget
  <2>3. ASSUME NEW t \in Payments, SweepMark(w, t) \/ SweepMarkFails(w, t) PROVE Rested'
    BY <2>3 DEF SweepMark, SweepMarkFails
  <2> QED BY <1>3, <2>1, <2>2, <2>3 DEF SweepStep
<1>4. ASSUME NEW w \in Workers, Call(w) PROVE Rested'
  BY <1>4 DEF Call, CallLock, CallRelease, CallSweep
<1>5. ASSUME NEW w \in Workers, Return(w) \/ Crash(w) PROVE Rested'
  BY <1>5 DEF Return, Crash, Forget
<1>6. CASE Clock
  BY <1>6 DEF Clock, KeyLapse, LockDue
<1>7. CASE UNCHANGED vars
  BY <1>7 DEF vars
<1> QED
  BY <1>1, <1>2, <1>3, <1>4, <1>5, <1>6, <1>7 DEF Next, Step

\* The steps of the handlers that leave the collateral service alone.
Aside(w) ==
  \/ ConfirmUpdate(w) \/ ConfirmEnqueue(w) \/ ConfirmAnnounce(w)
  \/ TimeoutUpdate(w) \/ ApproveUpdate(w) \/ RejectUpdate(w)
  \/ OwnerApproveUpdate(w) \/ OwnerRejectUpdate(w) \/ OwnerTell(w)
  \/ OrphanFindOld(w) \/ OrphanDone(w) \/ Fails(w) \/ ExpireFind(w) \/ OrphanFind(w)
  \/ \E t \in Payments :
       \/ ConfirmRead(w, t) \/ ApproveRead(w, t) \/ RejectRead(w, t)
       \/ OwnerApproveRead(w, t) \/ OwnerRejectRead(w, t) \/ TimeoutRead(w, t)

\* Those that call releaseCollateral about payment t.
Releases(w, t) ==
  \/ t = mine[w] /\ (TimeoutTell(w) \/ ApproveRelease(w) \/ ReleaseOnce(w))
  \/ t \in Payments /\ (ExpireOne(w, t) \/ OrphanRelease(w, t))

\* Those that take the service's answer.
Returns(w) ==
  \/ PaymentCreated(w) \/ TimeoutDone(w) \/ ApproveReleased(w) \/ ReleasedOnce(w)
  \/ ExpiredOne(w) \/ OrphanReleased(w) \/ OldReleased(w)

\* Every step of the system is one of these.
LEMMA PaymentCases ==
  ASSUME PaymentNext
  PROVE  \/ \E w \in Workers : Step(w) /\ UNCHANGED payVars
         \/ \E w \in Workers : Aside(w)
         \/ \E w \in Workers, b \in Banks, t \in Payments : CreatePayment(w, b, t)
         \/ \E w \in Workers : \E t : Releases(w, t)
         \/ \E w \in Workers : Returns(w)
         \/ \E w \in Workers : Free(w) /\ CallSweep(w) /\ UNCHANGED payVars
         \/ \E w \in Workers : Dies(w)
         \/ \E t \in Payments : Passes(t)
         \/ \E t \in Payments : LockPasses(t)
         \/ \E b \in Banks : Lapse(b)
<1>1. ASSUME NEW w \in Workers, HandlerStep(w)
      PROVE  \/ Step(w) /\ UNCHANGED payVars
             \/ Aside(w) \/ Returns(w) \/ \E t : Releases(w, t)
  BY <1>1 DEF HandlerStep, Aside, Returns, Releases
<1>2. ASSUME NEW w \in Workers, Request(w)
      PROVE  Aside(w) \/ \E b \in Banks, t \in Payments : CreatePayment(w, b, t)
  BY <1>2 DEF Request, Aside
<1>3. ASSUME NEW w \in Workers, Cron(w)
      PROVE  Aside(w) \/ (Free(w) /\ CallSweep(w) /\ UNCHANGED payVars)
  BY <1>3 DEF Cron, Aside
<1>4. ASSUME NEW w \in Workers, NEW t \in Payments, TimeoutRead(w, t) PROVE Aside(w)
  BY <1>4 DEF Aside
<1> QED
  BY <1>1, <1>2, <1>3, <1>4 DEF PaymentNext

(***************************************************************************)
(* The handlers.  One that is about a payment knows it, and an approval    *)
(* counts its attempts to release.                                         *)
(***************************************************************************)
About == Requests \cup {"create", "timeout", "timedOut", "timeoutRelease", "releasing3",
                        "releasing"}

Handling ==
  \A w \in Workers :
    /\ stage[w] \in About => mine[w] \in Payments
    /\ stage[w] \notin {"release3", "releasing3"} => tries[w] = 0
    /\ stage[w] = "release3" => tries[w] < MaxAttempts

\* Every step of a handler keeps the types, its payment and its count of attempts.
LEMMA HandlingInductive ==
  PaymentTypeOK /\ Handling /\ [PaymentNext]_allVars => PaymentTypeOK' /\ Handling'
<1> SUFFICES ASSUME PaymentTypeOK, Handling, [PaymentNext]_allVars
             PROVE  PaymentTypeOK' /\ Handling'
  OBVIOUS
<1> USE DEF PaymentTypeOK, Handling, Stages, About, Requests, Open, Terminal, MaxAttempts,
        handlerVars, txVars
<1>1. ASSUME UNCHANGED payVars PROVE PaymentTypeOK' /\ Handling'
  BY <1>1 DEF payVars
<1>2. ASSUME NEW w \in Workers, Aside(w) PROVE PaymentTypeOK' /\ Handling'
  <2>1. CASE ConfirmUpdate(w) \/ ApproveUpdate(w) \/ RejectUpdate(w)
    BY <2>1 DEF ConfirmUpdate, ApproveUpdate, RejectUpdate, Claim, Enter
  <2>2. CASE OwnerApproveUpdate(w) \/ OwnerRejectUpdate(w)
    BY <2>2 DEF OwnerApproveUpdate, OwnerRejectUpdate, Claim, Enter
  <2>3. CASE ConfirmEnqueue(w) \/ TimeoutUpdate(w)
    BY <2>3 DEF ConfirmEnqueue, TimeoutUpdate, Enter
  <2>4. CASE ConfirmAnnounce(w) \/ OwnerTell(w)
    BY <2>4 DEF ConfirmAnnounce, OwnerTell, Publish, Enter
  <2>5. CASE OrphanFindOld(w) \/ OrphanDone(w) \/ ExpireFind(w) \/ OrphanFind(w)
    BY <2>5 DEF OrphanFindOld, OrphanDone, ExpireFind, OrphanFind, Enter, Loop, Free, Orphans,
       OldPending
  <2>6. CASE Fails(w)
    BY <2>6 DEF Fails, Enter, Loop, Take
  <2>7. ASSUME NEW t \in Payments,
               \/ ConfirmRead(w, t) \/ ApproveRead(w, t) \/ RejectRead(w, t)
               \/ OwnerApproveRead(w, t) \/ OwnerRejectRead(w, t)
        PROVE  PaymentTypeOK' /\ Handling'
    BY <2>7 DEF ConfirmRead, ApproveRead, RejectRead, OwnerApproveRead, OwnerRejectRead,
       Begin, Free
  <2>8. ASSUME NEW t \in Payments, TimeoutRead(w, t) PROVE PaymentTypeOK' /\ Handling'
    BY <2>8 DEF TimeoutRead, Free
  <2> QED
    BY <1>2, <2>1, <2>2, <2>3, <2>4, <2>5, <2>6, <2>7, <2>8 DEF Aside
<1>3. ASSUME NEW w \in Workers, NEW b \in Banks, NEW t \in Payments, CreatePayment(w, b, t)
      PROVE  PaymentTypeOK' /\ Handling'
  BY <1>3 DEF CreatePayment, Free
<1>4. ASSUME NEW w \in Workers, NEW t, Releases(w, t) PROVE PaymentTypeOK' /\ Handling'
  <2>1. CASE TimeoutTell(w) \/ ApproveRelease(w) \/ ReleaseOnce(w)
    BY <2>1 DEF TimeoutTell, ApproveRelease, ReleaseOnce, ReleaseMine, Publish, Enter
  <2>2. CASE t \in Payments /\ (ExpireOne(w, t) \/ OrphanRelease(w, t))
    BY <2>2 DEF ExpireOne, OrphanRelease, Take
  <2> QED
    BY <1>4, <2>1, <2>2 DEF Releases
<1>5. ASSUME NEW w \in Workers, Returns(w) PROVE PaymentTypeOK' /\ Handling'
  <2>1. CASE PaymentCreated(w)
    <3>1. issued' \in SUBSET Payments
      BY <2>1, AfterCases DEF PaymentCreated
    <3> QED BY <2>1, <3>1 DEF PaymentCreated, Enter
  <2>2. CASE TimeoutDone(w) \/ ReleasedOnce(w)
    BY <2>2 DEF TimeoutDone, ReleasedOnce, Enter
  <2>3. CASE ApproveReleased(w)
    BY <2>3 DEF ApproveReleased, Enter, MayRetry
  <2>4. CASE ExpiredOne(w)
    <3>1. told' \in [Payments -> SUBSET {"approved", "rejected", "expired"}]
      BY <2>4, AfterCases DEF ExpiredOne
    <3> QED BY <2>4, <3>1 DEF ExpiredOne, Loop
  <2>5. CASE OrphanReleased(w) \/ OldReleased(w)
    BY <2>5 DEF OrphanReleased, OldReleased
  <2> QED
    BY <1>5, <2>1, <2>2, <2>3, <2>4, <2>5 DEF Returns
<1>6. ASSUME NEW w \in Workers, Dies(w) PROVE PaymentTypeOK' /\ Handling'
  BY <1>6 DEF Dies, Enter
<1>7. ASSUME NEW t \in Payments, Passes(t) PROVE PaymentTypeOK' /\ Handling'
  BY <1>7 DEF Passes
<1>8. CASE UNCHANGED allVars
  BY <1>1, <1>8 DEF allVars
<1> QED
  BY <1>1, <1>2, <1>3, <1>4, <1>5, <1>6, <1>7, <1>8, PaymentCases DEF LockPasses, Lapse

\* What a step of the system is to the collateral service: a step of its own, a call,
\* a return, a death, or nothing.
LEMMA StepOfService ==
  TypeOK /\ Rested /\ Handling /\ [PaymentNext]_allVars => [Next]_vars
<1> SUFFICES ASSUME TypeOK, Rested, Handling, [PaymentNext]_allVars PROVE [Next]_vars
  OBVIOUS
<1>1. ASSUME NEW w \in Workers, Aside(w) PROVE UNCHANGED vars
  BY <1>1 DEF Aside, ConfirmUpdate, ConfirmEnqueue, ConfirmAnnounce, TimeoutUpdate,
     ApproveUpdate, RejectUpdate, OwnerApproveUpdate, OwnerRejectUpdate, OwnerTell,
     OrphanFindOld, OrphanDone, Fails, ExpireFind, OrphanFind, ConfirmRead, ApproveRead,
     RejectRead, OwnerApproveRead, OwnerRejectRead, TimeoutRead, Claim, Begin
<1>2. ASSUME NEW w \in Workers, NEW b \in Banks, NEW t \in Payments, CreatePayment(w, b, t)
      PROVE  Next
  BY <1>2 DEF CreatePayment, Next, Call
<1>3. ASSUME NEW w \in Workers, NEW t, Releases(w, t) PROVE Next
  <2>1. t \in Payments
    BY <1>3 DEF Releases, TimeoutTell, ApproveRelease, ReleaseOnce, Handling, About, Requests
  <2>2. CallRelease(w, t)
    BY <1>3 DEF Releases, TimeoutTell, ApproveRelease, ReleaseOnce, ReleaseMine, ExpireOne,
       OrphanRelease
  <2> QED BY <2>1, <2>2 DEF Next, Call
<1>4. ASSUME NEW w \in Workers, Returns(w) PROVE Next
  BY <1>4 DEF Returns, PaymentCreated, TimeoutDone, ApproveReleased, ReleasedOnce, ExpiredOne,
     OrphanReleased, OldReleased, Next
<1>5. ASSUME NEW w \in Workers, Dies(w) PROVE Next \/ UNCHANGED vars
  <2>1. CASE pc[w] # "idle"
    BY <1>5, <2>1 DEF Dies, Crash, Next, bankVars, lockVars
  <2>2. CASE pc[w] = "idle"
    <3>1. UNCHANGED <<pc, pay, at, saw, todo, job>>
      BY <1>5, <2>2 DEF Dies, Forget, Rested, TypeOK
    <3> QED BY <1>5, <3>1 DEF Dies, vars, callVars
  <2> QED BY <2>1, <2>2
<1>6. ASSUME NEW t \in Payments, Passes(t) PROVE UNCHANGED vars
  BY <1>6 DEF Passes
<1>7. ASSUME NEW t \in Payments, LockPasses(t) PROVE Next
  BY <1>7 DEF LockPasses, Next, Clock
<1>8. ASSUME NEW b \in Banks, Lapse(b) PROVE Next
  BY <1>8 DEF Lapse, Next, Clock
<1>9. ASSUME NEW w \in Workers, Step(w) \/ CallSweep(w) PROVE Next
  BY <1>9 DEF Next, Call
<1> QED
  BY <1>1, <1>2, <1>3, <1>4, <1>5, <1>6, <1>7, <1>8, <1>9, PaymentCases DEF allVars

Typed == TypeOK /\ Shape /\ Rested /\ PaymentTypeOK /\ Handling

\* Types, shapes and locals are right throughout the system.
LEMMA AlwaysTyped == PaymentSpec => []Typed
<1>1. PaymentInit => Typed
  <2> SUFFICES ASSUME PaymentInit PROVE Typed
    OBVIOUS
  <2> USE DEF PaymentInit, Init
  <2>1. TypeOK /\ Shape /\ Rested
    BY MoneyAssumption DEF TypeOK, Shape, Rested, PCs, Section, Releasing
  <2>2. PaymentTypeOK /\ Handling
    BY DEF PaymentTypeOK, Handling, Stages, About, Requests, Open, MaxAttempts
  <2> QED BY <2>1, <2>2 DEF Typed
<1>2. Typed /\ [PaymentNext]_allVars => Typed'
  BY StepOfService, ShapeInductive, RestedInductive, HandlingInductive DEF Typed
<1> QED
  BY <1>1, <1>2, PTL DEF PaymentSpec

\* The variables of the handlers and of what they handle keep their types, whatever
\* fails or dies; in particular no approval tries to release a fourth time.
THEOREM PaymentTypeCorrect == PaymentSpec => []PaymentTypeOK
  BY AlwaysTyped, PTL DEF Typed

\* The handlers, the queue, the cron jobs, the clocks and the deaths of processes use the
\* collateral service as its specification has it, and nothing but its service writes
\* the collateral: what holds of the service holds of the system.
THEOREM UsesCollateral == PaymentSpec => Spec
<1>1. PaymentInit => Init
  BY DEF PaymentInit
<1>2. Typed /\ [PaymentNext]_allVars => [Next]_vars
  BY StepOfService DEF Typed
<1> QED
  BY <1>1, <1>2, AlwaysTyped, PTL DEF PaymentSpec, Spec

\* So the counters of every bank add up in the whole system, and, if no call outlives its
\* key, no bank has more locked than its limit.
THEOREM SystemKeepsCollateral ==
  /\ PaymentSpec => [](Conservation /\ FullIsSuspended /\ StatusTellsCredit)
  /\ SlowAt = {} => (PaymentSpec => [](MutualExclusion /\ NoOvercommit))
<1>1. PaymentSpec => [](Conservation /\ FullIsSuspended /\ StatusTellsCredit)
  BY UsesCollateral, CountersCorrect, PTL
<1>2. ASSUME SlowAt = {} PROVE PaymentSpec => [](MutualExclusion /\ NoOvercommit)
  BY <1>2, UsesCollateral, OvercommitExcluded, PTL
<1> QED
  BY <1>1, <1>2

-----------------------------------------------------------------------------
(***************************************************************************)
(* The status.                                                             *)
(***************************************************************************)

\* Where a step may take the status of a payment: on from where it is, or to EXPIRED.
Onward(from, to) ==
  \/ to = from
  \/ from = "NONE" /\ to = "PENDING"
  \/ from = "PENDING" /\ to \in {"WAITING", "APPROVED", "REJECTED"}
  \/ from = "WAITING" /\ to \in {"APPROVED", "REJECTED"}
  \/ from # "NONE" /\ to = "EXPIRED"

\* A loop of a cron job has found payments that exist.
Listed == \A w \in Workers : \A t \in list[w] : txStatus[t] # "NONE"

\* Each step moves the status of each payment onward, and lists stay lists of payments
\* that exist.
LEMMA StatusMoves ==
  ASSUME PaymentTypeOK, Handling, Listed, [PaymentNext]_allVars
  PROVE  /\ \A t \in Payments : Onward(txStatus[t], txStatus'[t])
         /\ Listed'
<1> USE DEF PaymentTypeOK, Handling, Listed, Onward, About, Requests, Open, Terminal, Stages,
        handlerVars, txVars
<1> DEFINE Goal == (\A t \in Payments : Onward(txStatus[t], txStatus'[t])) /\ Listed'
<1>1. ASSUME UNCHANGED <<txStatus, list>> PROVE Goal
  BY <1>1
<1>2. ASSUME NEW w \in Workers, Aside(w) PROVE Goal
  <2>1. CASE ConfirmUpdate(w) \/ ApproveUpdate(w) \/ RejectUpdate(w)
    BY <2>1 DEF ConfirmUpdate, ApproveUpdate, RejectUpdate, Claim
  <2>2. CASE OwnerApproveUpdate(w) \/ OwnerRejectUpdate(w) \/ TimeoutUpdate(w)
    BY <2>2 DEF OwnerApproveUpdate, OwnerRejectUpdate, TimeoutUpdate, Claim
  <2>3. CASE \/ ConfirmEnqueue(w) \/ ConfirmAnnounce(w) \/ OwnerTell(w) \/ OrphanDone(w)
             \/ \E t \in Payments :
                  \/ ConfirmRead(w, t) \/ ApproveRead(w, t) \/ RejectRead(w, t)
                  \/ OwnerApproveRead(w, t) \/ OwnerRejectRead(w, t) \/ TimeoutRead(w, t)
    BY <1>1, <2>3 DEF ConfirmEnqueue, ConfirmAnnounce, OwnerTell, OrphanDone, ConfirmRead,
       ApproveRead, RejectRead, OwnerApproveRead, OwnerRejectRead, TimeoutRead, Begin
  <2>4. CASE OrphanFindOld(w) \/ ExpireFind(w) \/ OrphanFind(w)
    BY <2>4 DEF OrphanFindOld, ExpireFind, OrphanFind, Loop, Orphans, OldPending
  <2>5. CASE Fails(w)
    BY <2>5 DEF Fails, Loop, Take
  <2> QED
    BY <1>2, <2>1, <2>2, <2>3, <2>4, <2>5 DEF Aside
<1>3. ASSUME NEW w \in Workers, NEW b \in Banks, NEW t \in Payments, CreatePayment(w, b, t)
      PROVE  Goal
  BY <1>3 DEF CreatePayment
<1>4. ASSUME NEW w \in Workers, NEW t, Releases(w, t) PROVE Goal
  <2>1. CASE TimeoutTell(w) \/ ApproveRelease(w) \/ ReleaseOnce(w)
    BY <1>1, <2>1 DEF TimeoutTell, ApproveRelease, ReleaseOnce
  <2>2. CASE t \in Payments /\ (ExpireOne(w, t) \/ OrphanRelease(w, t))
    BY <2>2 DEF ExpireOne, OrphanRelease, Take
  <2> QED
    BY <1>4, <2>1, <2>2 DEF Releases
<1>5. ASSUME NEW w \in Workers, Returns(w) PROVE Goal
  BY <1>5 DEF Returns, PaymentCreated, TimeoutDone, ApproveReleased, ReleasedOnce, ExpiredOne,
     OrphanReleased, OldReleased, Loop
<1>6. ASSUME NEW w \in Workers, Dies(w) PROVE Goal
  BY <1>6 DEF Dies
<1>7. ASSUME NEW t \in Payments, Passes(t) PROVE Goal
  BY <1>1, <1>7 DEF Passes
<1>8. CASE UNCHANGED payVars \/ UNCHANGED allVars
  BY <1>1, <1>8 DEF payVars, allVars
<1> QED
  BY <1>2, <1>3, <1>4, <1>5, <1>6, <1>7, <1>8, PaymentCases DEF LockPasses, Lapse

\* No list of a cron job names a payment without a row.
LEMMA AlwaysListed == PaymentSpec => []Listed
<1>1. PaymentInit => Listed
  BY DEF PaymentInit, Listed
<1>2. Typed /\ Listed /\ [PaymentNext]_allVars => Listed'
  BY StatusMoves DEF Typed
<1> QED
  BY <1>1, <1>2, AlwaysTyped, PTL DEF PaymentSpec

\* No approval turns into a rejection or back, nothing decided is open again, and what
\* has expired stays expired, however many handlers decide at once.
THEOREM NeverFlipsCorrect == PaymentSpec => NeverFlips
<1> DEFINE Kept ==
      \A t \in Payments :
        /\ txStatus[t] = "APPROVED" => txStatus'[t] \in {"APPROVED", "EXPIRED"}
        /\ txStatus[t] = "REJECTED" => txStatus'[t] \in {"REJECTED", "EXPIRED"}
        /\ txStatus[t] = "EXPIRED" => txStatus'[t] = "EXPIRED"
<1>1. Typed /\ Listed /\ [PaymentNext]_allVars => Kept
  <2> SUFFICES ASSUME Typed, Listed, [PaymentNext]_allVars PROVE Kept
    OBVIOUS
  <2>1. \A t \in Payments : Onward(txStatus[t], txStatus'[t])
    BY StatusMoves DEF Typed
  <2> QED BY <2>1 DEF Onward
<1>2. Typed /\ Listed /\ [PaymentNext]_allVars => [Kept]_allVars
  BY <1>1
<1> QED
  BY <1>2, AlwaysTyped, AlwaysListed, PTL DEF PaymentSpec, NeverFlips

-----------------------------------------------------------------------------
(***************************************************************************)
(* Where the handlers and the service stand: a handler that waits for the  *)
(* service is in the call it made, and any other call is a sweep's.        *)
(***************************************************************************)
ReleaseStages ==
  {"timeoutRelease", "releasing3", "releasing", "expireRelease", "orphanRelease", "oldRelease"}

Locking == Section \cup {"take", "ok", "threw"}
InRelease == Releasing \cup {"ok", "threw"}

Standing ==
  \A w \in Workers :
    /\ pc[w] \in {"find", "mark"} => job[w] = "sweep"
    /\ job[w] = "sweep" => stage[w] = "idle"
    /\ stage[w] = "create" => pc[w] \in Locking
    /\ stage[w] \in ReleaseStages => pc[w] \in InRelease
    /\ stage[w] \notin ReleaseStages \cup {"create"} /\ pc[w] # "idle" => job[w] = "sweep"

\* A step inside the service: of a lock, of a release, or of a sweep.
LEMMA StepKinds ==
  ASSUME NEW w \in Workers, Step(w)
  PROVE  \/ /\ pc[w] \in Section \cup {"take"}
            /\ \E next \in Section \cup {"ok", "threw"} : pc' = [pc EXCEPT ![w] = next]
            /\ UNCHANGED <<pay, at, job>>
         \/ /\ pc[w] \in Releasing
            /\ \E next \in {"rwrite", "rcommit", "ok", "threw"} : pc' = [pc EXCEPT ![w] = next]
            /\ UNCHANGED <<pay, at, job>>
         \/ SweepStep(w)
<1> USE DEF Goes, callVars
<1>1. CASE LockStep(w)
  BY <1>1, AfterCases DEF LockStep, TakeKey, KeyRefused, BankAccepts, BankRefuses, LockCommit,
     LockAbort, Tell, FreeKey, FreeKeyFails, Section
<1>2. CASE ReleaseStep(w)
  BY <1>2, AfterCases DEF ReleaseStep, ReadLock, ReleaseWrite, ReleaseCommit, ReleaseAbort,
     Releasing
<1> QED
  BY <1>1, <1>2 DEF Step

\* A step of one handler leaves the others where they are.
Elsewhere(w) ==
  \A v \in Workers \ {w} :
    stage'[v] = stage[v] /\ mine'[v] = mine[v] /\ list'[v] = list[v]

\* Such a step ends outside the stages that wait for the service, and touches no other handler.
LEMMA AsideStays ==
  ASSUME PaymentTypeOK, NEW w \in Workers, Aside(w)
  PROVE  /\ stage'[w] \notin ReleaseStages \cup {"create"}
         /\ Elsewhere(w)
         /\ UNCHANGED vars
<1> USE DEF PaymentTypeOK, ReleaseStages, Elsewhere, handlerVars
<1>1. CASE \/ ConfirmUpdate(w) \/ ApproveUpdate(w) \/ RejectUpdate(w)
           \/ OwnerApproveUpdate(w) \/ OwnerRejectUpdate(w)
  BY <1>1 DEF ConfirmUpdate, ApproveUpdate, RejectUpdate, OwnerApproveUpdate,
     OwnerRejectUpdate, Claim, Enter
<1>2. CASE \/ ConfirmEnqueue(w) \/ ConfirmAnnounce(w) \/ OwnerTell(w) \/ TimeoutUpdate(w)
           \/ OrphanFindOld(w) \/ OrphanDone(w) \/ ExpireFind(w) \/ OrphanFind(w)
  BY <1>2 DEF ConfirmEnqueue, ConfirmAnnounce, OwnerTell, TimeoutUpdate, OrphanFindOld,
     OrphanDone, ExpireFind, OrphanFind, Enter, Loop
<1>3. CASE Fails(w)
  BY <1>3 DEF Fails, Enter, Loop, Take, Requests
<1>4. ASSUME NEW t \in Payments,
             \/ ConfirmRead(w, t) \/ ApproveRead(w, t) \/ RejectRead(w, t)
             \/ OwnerApproveRead(w, t) \/ OwnerRejectRead(w, t) \/ TimeoutRead(w, t)
      PROVE  /\ stage'[w] \notin ReleaseStages \cup {"create"}
             /\ Elsewhere(w)
             /\ UNCHANGED vars
  BY <1>4 DEF ConfirmRead, ApproveRead, RejectRead, OwnerApproveRead, OwnerRejectRead,
     TimeoutRead, Begin, Free
<1> QED BY <1>1, <1>2, <1>3, <1>4 DEF Aside

\* A handler that takes such a step is not inside the service.
LEMMA AsideIdle ==
  ASSUME PaymentTypeOK, Standing, NEW w \in Workers, Aside(w)
  PROVE  pc[w] = "idle"
<1> USE DEF Standing, ReleaseStages, Free, Requests
<1>1. CASE \/ ConfirmUpdate(w) \/ ConfirmEnqueue(w) \/ ConfirmAnnounce(w)
           \/ TimeoutUpdate(w) \/ ApproveUpdate(w) \/ RejectUpdate(w)
           \/ OwnerApproveUpdate(w) \/ OwnerRejectUpdate(w) \/ OwnerTell(w)
           \/ OrphanFindOld(w) \/ OrphanDone(w)
  BY <1>1 DEF ConfirmUpdate, ConfirmEnqueue, ConfirmAnnounce, TimeoutUpdate, ApproveUpdate,
     RejectUpdate, OwnerApproveUpdate, OwnerRejectUpdate, OwnerTell, OrphanFindOld, OrphanDone,
     Claim
<1>2. CASE ~ \/ ConfirmUpdate(w) \/ ConfirmEnqueue(w) \/ ConfirmAnnounce(w)
             \/ TimeoutUpdate(w) \/ ApproveUpdate(w) \/ RejectUpdate(w)
             \/ OwnerApproveUpdate(w) \/ OwnerRejectUpdate(w) \/ OwnerTell(w)
             \/ OrphanFindOld(w) \/ OrphanDone(w)
  BY <1>2 DEF Aside, Fails, ExpireFind, OrphanFind, ConfirmRead, ApproveRead, RejectRead,
     OwnerApproveRead, OwnerRejectRead, TimeoutRead, Begin
<1> QED BY <1>1, <1>2

\* A step of the system keeps handlers and service in step.
LEMMA StandingInductive == Typed /\ Standing /\ [PaymentNext]_allVars => Standing'
<1> SUFFICES ASSUME Typed, Standing, [PaymentNext]_allVars PROVE Standing'
  OBVIOUS
<1> USE DEF Typed, TypeOK, PaymentTypeOK, Standing, ReleaseStages, Locking, InRelease, Section,
        Releasing, handlerVars
<1>1. ASSUME UNCHANGED <<pc, job, stage>> PROVE Standing'
  BY <1>1
<1>2. ASSUME NEW w \in Workers, Step(w), UNCHANGED payVars PROVE Standing'
  <2>1. CASE SweepStep(w)
    <3> USE DEF Goes, Forget, callVars
    <3>1. UNCHANGED stage
      BY <1>2 DEF payVars
    <3>2. CASE SweepFind(w) \/ SweepNext(w)
      BY <3>1, <3>2 DEF SweepFind, SweepNext
    <3>3. CASE SweepDone(w)
      BY <3>1, <3>3 DEF SweepDone
    <3>4. ASSUME NEW t \in Payments, SweepMark(w, t) \/ SweepMarkFails(w, t) PROVE Standing'
      BY <3>1, <3>4 DEF SweepMark, SweepMarkFails
    <3> QED BY <2>1, <3>2, <3>3, <3>4 DEF SweepStep
  <2>2. CASE ~SweepStep(w)
    BY <1>2, <2>2, StepKinds DEF payVars
  <2> QED BY <2>1, <2>2
<1>3. ASSUME NEW w \in Workers, Aside(w) PROVE Standing'
  <2>1. pc[w] = "idle"
    BY <1>3, AsideIdle
  <2>2. job[w] = "call"
    BY <2>1 DEF Rested
  <2> QED BY <1>3, <2>1, <2>2, AsideStays DEF Elsewhere, vars, callVars
<1>4. ASSUME NEW w \in Workers, NEW b \in Banks, NEW t \in Payments, CreatePayment(w, b, t)
      PROVE  Standing'
  BY <1>4 DEF CreatePayment, CallLock, Goes, Rested
<1>5. ASSUME NEW w \in Workers, NEW t, Releases(w, t) PROVE Standing'
  BY <1>5 DEF Releases, TimeoutTell, ApproveRelease, ReleaseOnce, ReleaseMine, ExpireOne,
     OrphanRelease, CallRelease, Enter, Goes, Rested
<1>6. ASSUME NEW w \in Workers, Returns(w) PROVE Standing'
  <2>1. Return(w)
    BY <1>6 DEF Returns, PaymentCreated, TimeoutDone, ApproveReleased, ReleasedOnce, ExpiredOne,
       OrphanReleased, OldReleased
  <2>2. /\ stage'[w] \notin ReleaseStages \cup {"create"}
        /\ \A v \in Workers \ {w} : stage'[v] = stage[v]
    <3>1. CASE PaymentCreated(w) \/ TimeoutDone(w) \/ ApproveReleased(w) \/ ReleasedOnce(w)
      BY <3>1 DEF PaymentCreated, TimeoutDone, ApproveReleased, ReleasedOnce, Enter
    <3>2. CASE ExpiredOne(w) \/ OrphanReleased(w) \/ OldReleased(w)
      BY <3>2 DEF ExpiredOne, OrphanReleased, OldReleased, Loop
    <3> QED BY <1>6, <3>1, <3>2 DEF Returns
  <2>3. /\ pc'[w] = "idle" /\ job'[w] = "call"
        /\ \A v \in Workers \ {w} : pc'[v] = pc[v] /\ job'[v] = job[v]
    BY <2>1 DEF Return, Forget, Goes
  <2> QED BY <2>2, <2>3
<1>7. ASSUME NEW w \in Workers, Free(w), CallSweep(w), UNCHANGED payVars PROVE Standing'
  BY <1>7 DEF Free, CallSweep, Goes, payVars
<1>8. ASSUME NEW w \in Workers, Dies(w) PROVE Standing'
  BY <1>8 DEF Dies, Enter, Forget
<1>9. ASSUME NEW t \in Payments, Passes(t) \/ LockPasses(t) PROVE Standing'
  BY <1>1, <1>9 DEF Passes, LockPasses, LockDue, vars, callVars, payVars
<1>10. ASSUME NEW b \in Banks, Lapse(b) PROVE Standing'
  BY <1>1, <1>10 DEF Lapse, KeyLapse, callVars, payVars
<1>11. CASE UNCHANGED allVars
  BY <1>1, <1>11 DEF allVars, vars, callVars, payVars
<1> QED
  BY <1>2, <1>3, <1>4, <1>5, <1>6, <1>7, <1>8, <1>9, <1>10, <1>11, PaymentCases

\* Handlers and service are in step throughout.
LEMMA AlwaysStanding == PaymentSpec => []Standing
<1>1. PaymentInit => Standing
  BY DEF PaymentInit, Init, Standing, ReleaseStages
<1>2. Typed /\ Standing /\ [PaymentNext]_allVars => Standing'
  BY StandingInductive
<1> QED
  BY <1>1, <1>2, AlwaysTyped, PTL DEF PaymentSpec

\* A step inside the service leaves the other calls where they are.
LEMMA StepElsewhere ==
  ASSUME TypeOK, NEW w \in Workers, Step(w), NEW v \in Workers, v # w
  PROVE  pc'[v] = pc[v] /\ pay'[v] = pay[v] /\ at'[v] = at[v] /\ job'[v] = job[v]
<1> USE DEF TypeOK, Goes, Forget, callVars
<1>1. CASE SweepStep(w)
  BY <1>1 DEF SweepStep, SweepFind, SweepNext, SweepDone, SweepMark, SweepMarkFails
<1>2. CASE ~SweepStep(w)
  BY <1>2, StepKinds
<1> QED BY <1>1, <1>2

-----------------------------------------------------------------------------
(***************************************************************************)
(* What the handlers know of the payments they are about.  Once a handler  *)
(* tells or releases, its payment is over, by its own update or by that of *)
(* whoever was faster; the jobs that release payments from a list were     *)
(* given decided ones or have just expired them; and the sweep never gives *)
(* anything back, because it marks the lock first.                         *)
(***************************************************************************)
Deciding ==
  {"timedOut", "timeoutRelease", "release3", "releasing3", "tellApproved", "tellRejected",
   "release", "releasing"}

Sound(w) ==
  /\ stage[w] \in Deciding => txStatus[mine[w]] \in Terminal
  /\ stage[w] = "timeout" => txStatus[mine[w]] \in {"WAITING"} \cup Terminal
  /\ stage[w] \in {"orphan", "orphanRelease"} => \A t \in list[w] : txStatus[t] \in Terminal
  /\ stage[w] = "expireRelease" => pay[w] \in Payments /\ txStatus[pay[w]] = "EXPIRED"
  /\ pc[w] \in Releasing /\ job[w] = "call" => txStatus[pay[w]] \in Terminal
  /\ pc[w] \in Releasing /\ job[w] = "sweep" =>
       pc[w] = "rread" /\ lockStatus[pay[w]] \in {"RELEASED", "EXPIRED"}

Decided == \A w \in Workers : Sound(w)

\* No step makes a handler act on a payment that is not over.
LEMMA DecidedInductive ==
  Typed /\ Listed /\ Standing /\ Decided /\ [PaymentNext]_allVars => Decided'
<1> SUFFICES ASSUME Typed, Listed, Standing, Decided, [PaymentNext]_allVars PROVE Decided'
  OBVIOUS
<1>a. \A t \in Payments : /\ txStatus[t] \in Terminal => txStatus'[t] \in Terminal
                          /\ txStatus[t] = "EXPIRED" => txStatus'[t] = "EXPIRED"
                          /\ txStatus[t] = "WAITING" => txStatus'[t] \in {"WAITING"} \cup Terminal
  BY StatusMoves DEF Typed, Onward, Terminal
<1>b. \A t \in Payments : lockStatus[t] \in {"RELEASED", "EXPIRED"} =>
                            lockStatus'[t] \in {"RELEASED", "EXPIRED"}
  BY StepOfService, RowsMoveOn DEF Typed
<1> USE DEF Typed, TypeOK, Shape, PaymentTypeOK, Handling, About, Requests, Standing, Decided,
        Sound, Deciding, ReleaseStages, Terminal, Releasing, handlerVars, txVars, callVars
<1>c. ASSUME NEW v \in Workers, pc'[v] = pc[v], pay'[v] = pay[v], job'[v] = job[v],
             stage'[v] = stage[v], mine'[v] = mine[v], list'[v] = list[v]
      PROVE  Sound(v)'
  BY <1>a, <1>b, <1>c
<1>1. ASSUME NEW w \in Workers, Step(w), UNCHANGED payVars PROVE Decided'
  <2>1. ASSUME NEW v \in Workers, v # w PROVE Sound(v)'
    BY <1>1, <1>c, <2>1, StepElsewhere DEF payVars
  <2>2. Sound(w)'
    <3>1. stage'[w] = stage[w] /\ mine'[w] = mine[w] /\ list'[w] = list[w] /\ txStatus' = txStatus
      BY <1>1 DEF payVars
    <3>2. CASE SweepStep(w)
      <4> USE DEF Goes, Forget
      <4>1. CASE SweepFind(w) \/ SweepNext(w) \/ SweepDone(w)
        BY <3>1, <4>1 DEF SweepFind, SweepNext, SweepDone
      <4>2. ASSUME NEW t \in Payments, SweepMark(w, t) \/ SweepMarkFails(w, t) PROVE Sound(w)'
        BY <3>1, <4>2 DEF SweepMark, SweepMarkFails
      <4> QED BY <3>2, <4>1, <4>2 DEF SweepStep
    <3>3. CASE ReleaseStep(w)
      <4> USE DEF Goes
      <4>1. CASE ReadLock(w)
        <5>1. /\ pc[w] = "rread" /\ pc'[w] \in {"threw", "ok", "rwrite"}
              /\ pc'[w] = "rwrite" => lockStatus[pay[w]] = "ACTIVE"
              /\ pay'[w] = pay[w] /\ job'[w] = job[w]
          BY <4>1 DEF ReadLock
        <5> QED BY <3>1, <5>1
      <4>2. CASE ReleaseWrite(w)
        BY <3>1, <4>2 DEF ReleaseWrite
      <4>3. CASE ReleaseCommit(w)
        BY <3>1, <4>3, AfterCases DEF ReleaseCommit
      <4>4. CASE ReleaseAbort(w)
        BY <3>1, <4>4 DEF ReleaseAbort
      <4> QED BY <3>3, <4>1, <4>2, <4>3, <4>4 DEF ReleaseStep
    <3>4. CASE LockStep(w)
      <4>1. pc[w] \in Section \cup {"take"}
        BY <3>4 DEF LockStep, TakeKey, KeyRefused, BankAccepts, BankRefuses, LockCommit,
           LockAbort, Tell, FreeKey, FreeKeyFails, Goes, Section
      <4>2. pc'[w] \notin Releasing
        BY <3>4, AfterCases DEF LockStep, TakeKey, KeyRefused, BankAccepts, BankRefuses,
           LockCommit, LockAbort, Tell, FreeKey, FreeKeyFails, Goes
      <4>3. stage[w] # "expireRelease"
        BY <4>1 DEF InRelease, Section
      <4> QED BY <3>1, <4>2, <4>3
    <3> QED BY <1>1, <3>2, <3>3, <3>4 DEF Step
  <2> QED BY <2>1, <2>2
<1>2. ASSUME NEW w \in Workers, Aside(w) PROVE Decided'
  <2>1. UNCHANGED <<pc, pay, job, lockStatus>> /\ pc[w] = "idle"
    BY <1>2, AsideStays, AsideIdle DEF vars, lockVars
  <2>2. ASSUME Sound(w)' PROVE Decided'
    BY <1>2, <1>c, <2>1, <2>2, AsideStays DEF Elsewhere
  <2> USE <2>1 DEF InRelease
  <2>3. CASE \/ ConfirmUpdate(w) \/ ApproveUpdate(w) \/ RejectUpdate(w)
             \/ OwnerApproveUpdate(w) \/ OwnerRejectUpdate(w)
    BY <2>2, <2>3 DEF ConfirmUpdate, ApproveUpdate, RejectUpdate, OwnerApproveUpdate,
       OwnerRejectUpdate, Claim, Enter
  <2>4. CASE ConfirmEnqueue(w) \/ ConfirmAnnounce(w) \/ OwnerTell(w)
    BY <2>2, <2>4 DEF ConfirmEnqueue, ConfirmAnnounce, OwnerTell, Enter
  <2>5. CASE TimeoutUpdate(w)
    BY <1>a, <2>2, <2>5 DEF TimeoutUpdate, Enter
  <2>6. CASE OrphanFindOld(w) \/ OrphanDone(w) \/ ExpireFind(w)
    BY <2>2, <2>6 DEF OrphanFindOld, OrphanDone, ExpireFind, Enter, Loop
  <2>7. CASE OrphanFind(w)
    BY <2>2, <2>7 DEF OrphanFind, Orphans
  <2>8. CASE Fails(w)
    BY <2>2, <2>8 DEF Fails, Enter, Loop, Take
  <2>9. ASSUME NEW t \in Payments,
               \/ ConfirmRead(w, t) \/ ApproveRead(w, t) \/ RejectRead(w, t)
               \/ OwnerApproveRead(w, t) \/ OwnerRejectRead(w, t) \/ TimeoutRead(w, t)
        PROVE  Decided'
    BY <2>2, <2>9 DEF ConfirmRead, ApproveRead, RejectRead, OwnerApproveRead,
       OwnerRejectRead, TimeoutRead, Begin, Free
  <2> QED BY <1>2, <2>3, <2>4, <2>5, <2>6, <2>7, <2>8, <2>9 DEF Aside
<1>3. ASSUME NEW w \in Workers, NEW b \in Banks, NEW t \in Payments, CreatePayment(w, b, t)
      PROVE  Decided'
  <2>1. Sound(w)'
    BY <1>3 DEF CreatePayment, CallLock, Goes
  <2> QED BY <1>3, <1>c, <2>1 DEF CreatePayment, CallLock, Goes
<1>4. ASSUME NEW w \in Workers, NEW t, Releases(w, t) PROVE Decided'
  <2>1. CASE t = mine[w] /\ (TimeoutTell(w) \/ ApproveRelease(w) \/ ReleaseOnce(w))
    <3>1. mine[w] \in Payments
      BY <2>1 DEF TimeoutTell, ApproveRelease, ReleaseOnce
    <3>2. Sound(w)'
      BY <2>1, <3>1 DEF TimeoutTell, ApproveRelease, ReleaseOnce, ReleaseMine, Enter,
         CallRelease, Goes, Rested
    <3> QED BY <1>c, <2>1, <3>2 DEF TimeoutTell, ApproveRelease, ReleaseOnce, ReleaseMine,
         Enter, CallRelease, Goes
  <2>2. CASE t \in Payments /\ (ExpireOne(w, t) \/ OrphanRelease(w, t))
    <3>1. Sound(w)'
      BY <1>a, <2>2 DEF ExpireOne, OrphanRelease, Take, CallRelease, Goes, Rested
    <3> QED BY <1>c, <2>2, <3>1 DEF ExpireOne, OrphanRelease, Take, CallRelease, Goes
  <2> QED
    BY <1>4, <2>1, <2>2 DEF Releases
<1>5. ASSUME NEW w \in Workers, Returns(w) PROVE Decided'
  <2>1. Return(w) /\ UNCHANGED txStatus
    BY <1>5 DEF Returns, PaymentCreated, TimeoutDone, ApproveReleased, ReleasedOnce, ExpiredOne,
       OrphanReleased, OldReleased
  <2>2. Sound(w)'
    BY <1>5, <2>1 DEF Returns, PaymentCreated, TimeoutDone, ApproveReleased, ReleasedOnce,
       ExpiredOne, OrphanReleased, OldReleased, Return, Forget, Enter, Loop, Goes
  <2> QED BY <1>5, <1>c, <2>1, <2>2 DEF Returns, PaymentCreated, TimeoutDone, ApproveReleased,
       ReleasedOnce, ExpiredOne, OrphanReleased, OldReleased, Return, Forget, Enter, Loop, Goes
<1>6. ASSUME NEW w \in Workers, Free(w), CallSweep(w), UNCHANGED payVars PROVE Decided'
  <2>1. Sound(w)'
    BY <1>6 DEF Free, CallSweep, Goes, payVars
  <2> QED BY <1>6, <1>c, <2>1 DEF CallSweep, Goes, payVars
<1>7. ASSUME NEW w \in Workers, Dies(w) PROVE Decided'
  <2>1. Sound(w)'
    BY <1>7 DEF Dies, Enter, Forget
  <2> QED BY <1>7, <1>c, <2>1 DEF Dies, Enter, Forget
<1>8. ASSUME UNCHANGED <<pc, callVars, handlerVars>> PROVE Decided'
  BY <1>8, <1>c
<1> QED
  BY <1>1, <1>2, <1>3, <1>4, <1>5, <1>6, <1>7, <1>8, PaymentCases
     DEF Passes, LockPasses, LockDue, Lapse, KeyLapse, allVars, payVars, vars

\* No handler ever acts on a payment that is not over.
LEMMA AlwaysDecided == PaymentSpec => []Decided
<1>1. PaymentInit => Decided
  BY DEF PaymentInit, Init, Decided, Sound, Deciding, Releasing
<1>2. Typed /\ Listed /\ Standing /\ Decided /\ [PaymentNext]_allVars => Decided'
  BY DecidedInductive
<1> QED
  BY <1>1, <1>2, AlwaysTyped, AlwaysListed, AlwaysStanding, PTL DEF PaymentSpec

\* Whoever commits a release, about whatever payment, finds that payment over.
LEMMA ReleasesWhatIsOver ==
  ASSUME Typed, Decided, NEW w \in Workers, ReleaseCommit(w)
  PROVE  pay[w] \in Payments /\ txStatus[pay[w]] \in Terminal
  BY DEF ReleaseCommit, Goes, Typed, Shape, TypeOK, Decided, Sound, Releasing

\* Which step counts as giving collateral back, and which as telling.
LEMMA Promising ==
  ASSUME Typed, Standing, Decided, [PaymentNext]_allVars
  PROVE  /\ \/ UNCHANGED credits
            \/ \E w \in Workers : ReleaseCommit(w) /\ UNCHANGED txStatus
         /\ \A t \in Payments :
              /\ "rejected" \in told'[t] \ told[t] => txStatus[t] \in Terminal
              /\ "expired" \in told'[t] \ told[t] => txStatus[t] = "EXPIRED"
<1> DEFINE Credited == \/ UNCHANGED credits
                       \/ \E w \in Workers : ReleaseCommit(w) /\ UNCHANGED txStatus
           Telling == \A t \in Payments :
                        /\ "rejected" \in told'[t] \ told[t] => txStatus[t] \in Terminal
                        /\ "expired" \in told'[t] \ told[t] => txStatus[t] = "EXPIRED"
<1>1. ASSUME NEW w \in Workers, Step(w), UNCHANGED payVars PROVE Credited /\ Telling
  <2>1. Telling
    BY <1>1 DEF payVars
  <2>2. CASE ReleaseCommit(w)
    BY <1>1, <2>1, <2>2 DEF payVars, txVars
  <2>3. CASE ~ReleaseCommit(w)
    BY <1>1, <2>1, <2>3 DEF Step, LockStep, ReleaseStep, SweepStep, TakeKey, KeyRefused,
       BankAccepts, BankRefuses, LockCommit, LockAbort, Tell, FreeKey, FreeKeyFails, ReadLock,
       ReleaseWrite, ReleaseAbort, SweepFind, SweepNext, SweepDone, SweepMark, SweepMarkFails,
       lockVars
  <2> QED BY <2>2, <2>3
<1>2. ASSUME NEW w \in Workers, Aside(w) PROVE Credited /\ Telling
  <2>1. UNCHANGED credits
    BY <1>2 DEF Aside, ConfirmUpdate, ConfirmEnqueue, ConfirmAnnounce, TimeoutUpdate,
       ApproveUpdate, RejectUpdate, OwnerApproveUpdate, OwnerRejectUpdate, OwnerTell,
       OrphanFindOld, OrphanDone, Fails, ExpireFind, OrphanFind, ConfirmRead, ApproveRead,
       RejectRead, OwnerApproveRead, OwnerRejectRead, TimeoutRead, Claim, Begin, vars, lockVars
  <2>2. CASE ConfirmAnnounce(w) \/ OwnerTell(w)
    BY <2>1, <2>2 DEF ConfirmAnnounce, OwnerTell, Publish, Typed, PaymentTypeOK, Handling,
       About, Requests, Decided, Sound, Deciding
  <2>3. CASE ~ConfirmAnnounce(w) /\ ~OwnerTell(w)
    <3>1. UNCHANGED told
      BY <1>2, <2>3 DEF Aside, ConfirmUpdate, ConfirmEnqueue, TimeoutUpdate, ApproveUpdate,
         RejectUpdate, OwnerApproveUpdate, OwnerRejectUpdate, OrphanFindOld, OrphanDone, Fails,
         ExpireFind, OrphanFind, ConfirmRead, ApproveRead, RejectRead, OwnerApproveRead,
         OwnerRejectRead, TimeoutRead, Claim, Begin
    <3> QED BY <2>1, <3>1
  <2> QED BY <2>2, <2>3
<1>3. ASSUME NEW w \in Workers, NEW b \in Banks, NEW t \in Payments, CreatePayment(w, b, t)
      PROVE  Credited /\ Telling
  BY <1>3 DEF CreatePayment, CallLock, lockVars
<1>4. ASSUME NEW w \in Workers, NEW t, Releases(w, t) PROVE Credited /\ Telling
  BY <1>4 DEF Releases, TimeoutTell, ApproveRelease, ReleaseOnce, ReleaseMine, ExpireOne,
     OrphanRelease, CallRelease, Publish, lockVars, Typed, PaymentTypeOK, Handling, About,
     Requests, Decided, Sound, Deciding
<1>5. ASSUME NEW w \in Workers, Returns(w) PROVE Credited /\ Telling
  <2>1. UNCHANGED credits
    BY <1>5 DEF Returns, PaymentCreated, TimeoutDone, ApproveReleased, ReleasedOnce, ExpiredOne,
       OrphanReleased, OldReleased, Return, lockVars
  <2>2. CASE ExpiredOne(w)
    BY <2>1, <2>2, AfterCases DEF ExpiredOne, Typed, PaymentTypeOK, Decided, Sound
  <2>3. CASE ~ExpiredOne(w)
    BY <1>5, <2>1, <2>3 DEF Returns, PaymentCreated, TimeoutDone, ApproveReleased, ReleasedOnce,
       OrphanReleased, OldReleased
  <2> QED BY <2>2, <2>3
<1>6. ASSUME NEW w \in Workers, Dies(w) PROVE Credited /\ Telling
  BY <1>6 DEF Dies, lockVars
<1>7. ASSUME UNCHANGED <<credits, told>> PROVE Credited /\ Telling
  BY <1>7
<1> QED
  BY <1>1, <1>2, <1>3, <1>4, <1>5, <1>6, <1>7, PaymentCases
     DEF Passes, LockPasses, LockDue, Lapse, KeyLapse, CallSweep, allVars, payVars, vars, lockVars

\* Collateral is given back only when the payment is over, and a message that tells of a
\* rejection or an expiry is true and stays true, whichever handlers race.
THEOREM PromisesCorrect == PaymentSpec => [](GivenBackWhenOver /\ ToldWhenOver)
<1>1. PaymentInit => GivenBackWhenOver /\ ToldWhenOver
  BY DEF PaymentInit, Init, GivenBackWhenOver, ToldWhenOver
<1>2. Typed /\ Listed /\ Standing /\ Decided /\ GivenBackWhenOver /\ ToldWhenOver
        /\ [PaymentNext]_allVars
      => GivenBackWhenOver' /\ ToldWhenOver'
  <2> SUFFICES ASSUME Typed, Listed, Standing, Decided, GivenBackWhenOver, ToldWhenOver,
                      [PaymentNext]_allVars
               PROVE  GivenBackWhenOver' /\ ToldWhenOver'
    OBVIOUS
  <2>1. \A t \in Payments : /\ txStatus[t] \in Terminal => txStatus'[t] \in Terminal
                            /\ txStatus[t] = "EXPIRED" => txStatus'[t] = "EXPIRED"
    BY StatusMoves DEF Typed, Onward, Terminal
  <2>2. ToldWhenOver'
    BY <2>1, Promising DEF ToldWhenOver
  <2>3. GivenBackWhenOver'
    <3>1. CASE UNCHANGED credits
      BY <2>1, <3>1 DEF GivenBackWhenOver
    <3>2. ASSUME NEW w \in Workers, ReleaseCommit(w), UNCHANGED txStatus
          PROVE  GivenBackWhenOver'
      BY <3>2, ReleasesWhatIsOver DEF GivenBackWhenOver, ReleaseCommit, Typed, TypeOK
    <3> QED BY <3>1, <3>2, Promising
  <2> QED BY <2>2, <2>3
<1> QED
  BY <1>1, <1>2, AlwaysTyped, AlwaysListed, AlwaysStanding, AlwaysDecided, PTL DEF PaymentSpec

\* Who is told that a payment was rejected or has expired can rely on it: it is over, and what
\* was announced as expired is, though a timeout announces what it decided on an older row.
THEOREM ToldWhenOverCorrect == PaymentSpec => []ToldWhenOver
BY PromisesCorrect, PTL

-----------------------------------------------------------------------------
(***************************************************************************)
(* The answer of a creation.  While the handler waits for its lock, the    *)
(* row it inserted names the bank it locks in; once the lock is committed  *)
(* both stay as they are.                                                  *)
(***************************************************************************)
Backed(t) == lockStatus[t] # "NONE" /\ lockBank[t] = txBank[t]

Creating(w) ==
  stage[w] = "create" =>
    /\ pay[w] = mine[w] /\ at[w] = txBank[mine[w]] /\ txStatus[mine[w]] # "NONE"
    /\ pc[w] \in {"tell", "freeOk", "ok"} => Backed(mine[w])

Secured ==
  /\ \A w \in Workers : Creating(w)
  /\ \A t \in issued : txStatus[t] # "NONE" /\ Backed(t)

\* The bank of a payment is chosen when its row is inserted, and never again; and only
\* the end of a creation makes a payment known.
LEMMA BankStays ==
  ASSUME PaymentTypeOK, [PaymentNext]_allVars
  PROVE  /\ \A t \in Payments : txStatus[t] # "NONE" => txBank'[t] = txBank[t]
         /\ UNCHANGED issued \/ \E w \in Workers : PaymentCreated(w)
<1> DEFINE Goal == /\ \A t \in Payments : txStatus[t] # "NONE" => txBank'[t] = txBank[t]
                   /\ UNCHANGED issued \/ \E w \in Workers : PaymentCreated(w)
<1>1. ASSUME UNCHANGED <<txBank, issued>> PROVE Goal
  BY <1>1
<1>2. ASSUME NEW w \in Workers, Aside(w) PROVE Goal
  BY <1>1, <1>2 DEF Aside, ConfirmUpdate, ConfirmEnqueue, ConfirmAnnounce, TimeoutUpdate,
     ApproveUpdate, RejectUpdate, OwnerApproveUpdate, OwnerRejectUpdate, OwnerTell,
     OrphanFindOld, OrphanDone, Fails, ExpireFind, OrphanFind, ConfirmRead, ApproveRead,
     RejectRead, OwnerApproveRead, OwnerRejectRead, TimeoutRead, Claim, Begin, txVars
<1>3. ASSUME NEW w \in Workers, NEW b \in Banks, NEW t \in Payments, CreatePayment(w, b, t)
      PROVE  Goal
  BY <1>3 DEF CreatePayment, PaymentTypeOK
<1>4. ASSUME NEW w \in Workers, NEW t, Releases(w, t) PROVE Goal
  BY <1>1, <1>4 DEF Releases, TimeoutTell, ApproveRelease, ReleaseOnce, ExpireOne,
     OrphanRelease, txVars
<1>5. ASSUME NEW w \in Workers, Returns(w) PROVE Goal
  BY <1>5 DEF Returns, PaymentCreated, TimeoutDone, ApproveReleased, ReleasedOnce, ExpiredOne,
     OrphanReleased, OldReleased, txVars
<1>6. ASSUME NEW w \in Workers, Dies(w) PROVE Goal
  BY <1>1, <1>6 DEF Dies, txVars
<1> QED
  BY <1>1, <1>2, <1>3, <1>4, <1>5, <1>6, PaymentCases
     DEF Passes, LockPasses, Lapse, allVars, payVars, txVars

\* No step parts a payment from the bank its collateral is locked in.
LEMMA SecuredInductive == Typed /\ Listed /\ Standing /\ Secured /\ [PaymentNext]_allVars => Secured'
<1> SUFFICES ASSUME Typed, Listed, Standing, Secured, [PaymentNext]_allVars PROVE Secured'
  OBVIOUS
<1>a. \A t \in Payments : txStatus[t] # "NONE" => txStatus'[t] # "NONE" /\ txBank'[t] = txBank[t]
  BY StatusMoves, BankStays DEF Typed, Onward
<1>b. \A t \in Payments : lockStatus[t] # "NONE" =>
                            lockStatus'[t] # "NONE" /\ lockBank'[t] = lockBank[t]
  BY StepOfService, RowsMoveOn DEF Typed, TypeOK
<1>c. \A t \in Payments : txStatus[t] # "NONE" /\ Backed(t) => txStatus'[t] # "NONE" /\ Backed(t)'
  BY <1>a, <1>b DEF Backed
<1> USE DEF Typed, TypeOK, PaymentTypeOK, Handling, About, Backed
<1>d. ASSUME NEW v \in Workers, pc'[v] = pc[v], pay'[v] = pay[v], at'[v] = at[v],
             stage'[v] = stage[v], mine'[v] = mine[v]
      PROVE  Creating(v)'
  <2>1. CASE stage[v] = "create"
    <3>1. /\ mine[v] \in Payments
          /\ pay[v] = mine[v] /\ at[v] = txBank[mine[v]] /\ txStatus[mine[v]] # "NONE"
          /\ pc[v] \in {"tell", "freeOk", "ok"} => Backed(mine[v])
      BY <2>1 DEF Secured, Creating
    <3>2. /\ txStatus'[mine[v]] # "NONE" /\ txBank'[mine[v]] = txBank[mine[v]]
          /\ Backed(mine[v]) => lockStatus'[mine[v]] # "NONE" /\ lockBank'[mine[v]] = txBank'[mine[v]]
      BY <1>a, <1>b, <3>1
    <3> QED BY <1>d, <3>1, <3>2 DEF Creating
  <2>2. CASE stage[v] # "create"
    BY <1>d, <2>2 DEF Creating
  <2> QED BY <2>1, <2>2
<1>1. \A t \in issued' : txStatus'[t] # "NONE" /\ Backed(t)'
  <2>1. CASE UNCHANGED issued
    BY <1>c, <2>1 DEF Secured
  <2>2. ASSUME NEW w \in Workers, PaymentCreated(w)
        PROVE  \A t \in issued' : txStatus'[t] # "NONE" /\ Backed(t)'
    <3>1. issued' \subseteq issued \cup (IF pc[w] = "ok" THEN {mine[w]} ELSE {})
      BY <2>2, AfterCases DEF PaymentCreated
    <3>2. pc[w] = "ok" => txStatus[mine[w]] # "NONE" /\ Backed(mine[w]) /\ mine[w] \in Payments
      BY <2>2 DEF PaymentCreated, Secured, Creating
    <3>3. pc[w] = "ok" => txStatus'[mine[w]] # "NONE" /\ lockStatus'[mine[w]] # "NONE"
                           /\ lockBank'[mine[w]] = txBank'[mine[w]]
      BY <1>a, <1>b, <3>2
    <3>4. ASSUME NEW t \in issued' PROVE txStatus'[t] # "NONE" /\ Backed(t)'
      <4>1. CASE t \in issued
        BY <1>c, <4>1 DEF Secured
      <4>2. CASE t \notin issued
        BY <3>1, <3>3, <4>2
      <4> QED BY <4>1, <4>2
    <3> QED BY <3>4
  <2> QED BY <2>1, <2>2, BankStays
<1>2. \A w \in Workers : Creating(w)'
  <2>1. ASSUME NEW w \in Workers, Step(w), UNCHANGED payVars PROVE \A v \in Workers : Creating(v)'
    <3>1. ASSUME NEW v \in Workers, v # w PROVE Creating(v)'
      BY <1>d, <2>1, <3>1, StepElsewhere DEF payVars, handlerVars
    <3>2. ASSUME stage[w] = "create" PROVE Creating(w)'
      <4>1. /\ pay[w] = mine[w] /\ at[w] = txBank[mine[w]] /\ txStatus[mine[w]] # "NONE"
            /\ mine[w] \in Payments
            /\ pc[w] \in Locking
            /\ pc[w] \in {"tell", "freeOk", "ok"} => Backed(mine[w])
            /\ job[w] = "call"
        <5>1. Creating(w) /\ pc[w] \in Locking /\ mine[w] \in Payments
          BY <3>2 DEF Secured, Standing
        <5>2. job[w] = "call"
          BY <3>2 DEF Standing
        <5> QED BY <3>2, <5>1, <5>2 DEF Creating
      <4>2. ~SweepStep(w) /\ ~ReleaseStep(w)
        <5>1. SweepStep(w) => pc[w] \in {"find", "mark"} \/ job[w] = "sweep"
          BY DEF SweepStep, SweepFind, SweepNext, SweepDone, SweepMark, SweepMarkFails, Goes
        <5>2. ReleaseStep(w) => pc[w] \in Releasing
          BY DEF ReleaseStep, ReadLock, ReleaseWrite, ReleaseCommit, ReleaseAbort, Goes, Releasing
        <5> QED BY <4>1, <5>1, <5>2 DEF Locking, Section, Releasing
      <4>3. LockStep(w) /\ stage' = stage /\ mine' = mine /\ pay' = pay /\ at' = at
        BY <2>1, <4>2 DEF Step, payVars, handlerVars, LockStep, TakeKey, KeyRefused, BankAccepts,
           BankRefuses, LockCommit, LockAbort, Tell, FreeKey, FreeKeyFails, callVars
      <4>4. pc'[w] \in {"tell", "freeOk", "ok"} => Backed(mine[w])'
        <5>1. CASE LockCommit(w)
          BY <4>1, <4>3, <2>1, <5>1 DEF LockCommit, Backed, payVars, txVars
        <5>2. CASE ~LockCommit(w)
          <6>1. pc'[w] \in {"tell", "freeOk", "ok"} => pc[w] \in {"tell", "freeOk"}
            BY <4>3, <5>2, AfterCases DEF LockStep, TakeKey, KeyRefused, BankAccepts,
               BankRefuses, LockAbort, Tell, FreeKey, FreeKeyFails, Goes
          <6> QED BY <1>c, <4>1, <4>3, <6>1
        <5> QED BY <5>1, <5>2
      <4> QED BY <1>a, <4>1, <4>3, <4>4 DEF Creating
    <3>3. ASSUME stage[w] # "create" PROVE Creating(w)'
      BY <2>1, <3>3 DEF payVars, handlerVars, Creating
    <3> QED BY <3>1, <3>2, <3>3
  <2>2. ASSUME NEW w \in Workers, stage'[w] # "create",
               \A v \in Workers \ {w} :
                 /\ pc'[v] = pc[v] /\ pay'[v] = pay[v] /\ at'[v] = at[v]
                 /\ stage'[v] = stage[v] /\ mine'[v] = mine[v]
        PROVE  \A v \in Workers : Creating(v)'
    BY <1>d, <2>2 DEF Creating
  <2>3. ASSUME NEW w \in Workers, Aside(w) PROVE \A v \in Workers : Creating(v)'
    BY <2>2, <2>3, AsideStays DEF Elsewhere, vars, callVars
  <2>4. ASSUME NEW w \in Workers, NEW b \in Banks, NEW t \in Payments, CreatePayment(w, b, t)
        PROVE  \A v \in Workers : Creating(v)'
    <3>1. Creating(w)'
      BY <2>4 DEF CreatePayment, CallLock, Goes, Creating
    <3> QED BY <1>d, <2>4, <3>1 DEF CreatePayment, CallLock, Goes
  <2>5. ASSUME NEW w \in Workers, NEW t, Releases(w, t) PROVE \A v \in Workers : Creating(v)'
    BY <2>2, <2>5 DEF Releases, TimeoutTell, ApproveRelease, ReleaseOnce, ReleaseMine, Enter,
       ExpireOne, OrphanRelease, CallRelease, Goes
  <2>6. ASSUME NEW w \in Workers, Returns(w) PROVE \A v \in Workers : Creating(v)'
    <3>1. Return(w)
      BY <2>6 DEF Returns, PaymentCreated, TimeoutDone, ApproveReleased, ReleasedOnce, ExpiredOne,
         OrphanReleased, OldReleased
    <3>2. Elsewhere(w) /\ stage'[w] # "create"
      BY <2>6 DEF Returns, PaymentCreated, TimeoutDone, ApproveReleased, ReleasedOnce, ExpiredOne,
         OrphanReleased, OldReleased, Enter, Loop, Elsewhere
    <3> QED BY <2>2, <3>1, <3>2 DEF Return, Forget, Goes, Elsewhere
  <2>7. ASSUME NEW w \in Workers, Free(w), CallSweep(w), UNCHANGED payVars
        PROVE  \A v \in Workers : Creating(v)'
    BY <2>2, <2>7 DEF Free, CallSweep, Goes, payVars, handlerVars
  <2>8. ASSUME NEW w \in Workers, Dies(w) PROVE \A v \in Workers : Creating(v)'
    BY <2>2, <2>8 DEF Dies, Enter, Forget
  <2>9. ASSUME UNCHANGED <<pc, callVars, handlerVars>> PROVE \A v \in Workers : Creating(v)'
    BY <1>d, <2>9 DEF callVars, handlerVars
  <2> QED
    BY <2>1, <2>3, <2>4, <2>5, <2>6, <2>7, <2>8, <2>9, PaymentCases
       DEF Passes, LockPasses, LockDue, Lapse, KeyLapse, allVars, payVars, vars
<1> QED BY <1>1, <1>2 DEF Secured

\* A client that was given a payment's id pays into the bank that holds its collateral.
THEOREM IssuedIsSecuredCorrect == PaymentSpec => []IssuedIsSecured
<1>1. PaymentInit => Secured
  BY DEF PaymentInit, Secured, Creating
<1>2. Typed /\ Listed /\ Standing /\ Secured /\ [PaymentNext]_allVars => Secured'
  BY SecuredInductive
<1>3. Secured => IssuedIsSecured
  BY DEF Secured, Backed, IssuedIsSecured
<1> QED
  BY <1>1, <1>2, <1>3, AlwaysTyped, AlwaysListed, AlwaysStanding, PTL DEF PaymentSpec

-----------------------------------------------------------------------------
(***************************************************************************)
(* The timeout job of a confirmed payment.  It is queued after the         *)
(* confirmation was written, so when it runs it finds the payment waiting  *)
(* or over, never PENDING.                                                 *)
(***************************************************************************)
Confirmed(t) == txStatus[t] \in {"WAITING"} \cup Terminal

Timed ==
  /\ WaitingIsTimed
  /\ \A t \in Payments : timer[t] = "queued" => Confirmed(t)
  /\ \A w \in Workers : stage[w] = "enqueue" => Confirmed(mine[w])

\* Where nothing fails and nothing dies, no step leaves a waiting payment without its job.
LEMMA TimedInductive ==
  ASSUME Faults = FALSE, Crashes = FALSE
  PROVE  Typed /\ Listed /\ Standing /\ Decided /\ Timed /\ [PaymentNext]_allVars => Timed'
<1> SUFFICES ASSUME Typed, Listed, Standing, Decided, Timed, [PaymentNext]_allVars
             PROVE  Timed'
  OBVIOUS
<1>a. \A t \in Payments : Confirmed(t) => Confirmed(t)'
  BY StatusMoves DEF Typed, Onward, Terminal, Confirmed
<1>b. \A t \in Payments : txStatus'[t] = "WAITING" => txStatus[t] \in Open
  BY StatusMoves DEF Typed, Onward, Open, Terminal, PaymentTypeOK
<1> USE DEF Typed, PaymentTypeOK, Handling, About, Requests, Confirmed, Timed, WaitingIsTimed,
        Open, Terminal
<1>d. ASSUME NEW w \in Workers, Elsewhere(w), UNCHANGED timer,
             stage[w] # "enqueue", stage'[w] # "enqueue",
             \A t \in Payments : txStatus'[t] = "WAITING" => txStatus[t] = "WAITING"
      PROVE  Timed'
  <2>1. \A v \in Workers : stage'[v] = "enqueue" <=> stage[v] = "enqueue"
    BY <1>d DEF Elsewhere
  <2>2. \A v \in Workers : stage[v] = "enqueue" => mine'[v] = mine[v]
    BY <1>d DEF Elsewhere
  <2>3. \A v \in Workers : stage[v] = "enqueue" => mine[v] \in Payments /\ Confirmed(mine[v])
    OBVIOUS
  <2>4. \A v \in Workers : stage'[v] = "enqueue" => Confirmed(mine[v])'
    BY <1>a, <2>1, <2>2, <2>3
  <2> QED BY <1>a, <1>d, <2>1, <2>2, <2>4
<1>c. ASSUME NEW w \in Workers, Elsewhere(w), UNCHANGED <<timer, txStatus>>,
             stage[w] # "enqueue", stage'[w] # "enqueue"
      PROVE  Timed'
  BY <1>c, <1>d
<1>1. ASSUME NEW w \in Workers, Aside(w) PROVE Timed'
  <2>0. Elsewhere(w)
    BY <1>1, AsideStays
  <2>1. CASE ConfirmUpdate(w)
    <3>1. CASE txStatus[mine[w]] = "PENDING"
      BY <1>a, <1>b, <2>0, <2>1, <3>1 DEF ConfirmUpdate, Claim, Enter, Elsewhere
    <3>2. CASE txStatus[mine[w]] # "PENDING"
      BY <1>c, <2>0, <2>1, <3>2 DEF ConfirmUpdate, Claim, Enter
    <3> QED BY <3>1, <3>2
  <2>2. CASE ApproveUpdate(w) \/ RejectUpdate(w) \/ OwnerApproveUpdate(w) \/ OwnerRejectUpdate(w)
    <3>1. /\ stage[w] # "enqueue" /\ stage'[w] # "enqueue" /\ UNCHANGED timer
          /\ \A t \in Payments : txStatus'[t] = "WAITING" => txStatus[t] = "WAITING"
      BY <2>2 DEF ApproveUpdate, RejectUpdate, OwnerApproveUpdate, OwnerRejectUpdate, Claim, Enter
    <3> QED BY <1>d, <2>0, <3>1
  <2>3. CASE TimeoutUpdate(w)
    <3>1. /\ stage[w] # "enqueue" /\ stage'[w] # "enqueue" /\ UNCHANGED timer
          /\ \A t \in Payments : txStatus'[t] = "WAITING" => txStatus[t] = "WAITING"
      BY <2>3 DEF TimeoutUpdate, Enter
    <3> QED BY <1>d, <2>0, <3>1
  <2>4. CASE ConfirmEnqueue(w)
    BY <1>a, <2>0, <2>4 DEF ConfirmEnqueue, Enter, Elsewhere, txVars
  <2>5. ASSUME NEW t \in Payments, TimeoutRead(w, t) PROVE Timed'
    BY <2>0, <2>5 DEF TimeoutRead, Free, Elsewhere, txVars
  <2>6. CASE \/ ConfirmAnnounce(w) \/ OwnerTell(w) \/ OrphanFindOld(w) \/ OrphanDone(w)
             \/ ExpireFind(w) \/ OrphanFind(w)
    BY <1>c, <2>0, <2>6 DEF ConfirmAnnounce, OwnerTell, OrphanFindOld, OrphanDone, ExpireFind,
       OrphanFind, Enter, Loop, Free, txVars
  <2>7. ASSUME NEW t \in Payments,
               \/ ConfirmRead(w, t) \/ ApproveRead(w, t) \/ RejectRead(w, t)
               \/ OwnerApproveRead(w, t) \/ OwnerRejectRead(w, t)
        PROVE  Timed'
    BY <1>c, <2>0, <2>7 DEF ConfirmRead, ApproveRead, RejectRead, OwnerApproveRead,
       OwnerRejectRead, Begin, Free, txVars
  <2> QED
    BY <1>1, <2>1, <2>2, <2>3, <2>4, <2>5, <2>6, <2>7 DEF Aside, Fails
<1>2. ASSUME NEW w \in Workers, NEW b \in Banks, NEW t \in Payments, CreatePayment(w, b, t)
      PROVE  Timed'
  <2>1. /\ stage[w] # "enqueue" /\ stage'[w] # "enqueue" /\ UNCHANGED timer /\ Elsewhere(w)
        /\ \A s \in Payments : txStatus'[s] = "WAITING" => txStatus[s] = "WAITING"
    BY <1>2 DEF CreatePayment, Free, Elsewhere
  <2> QED BY <1>d, <2>1
<1>3. ASSUME NEW w \in Workers, NEW t, Releases(w, t) PROVE Timed'
  <2>1. /\ stage[w] # "enqueue" /\ stage'[w] # "enqueue" /\ UNCHANGED timer /\ Elsewhere(w)
        /\ \A s \in Payments : txStatus'[s] = "WAITING" => txStatus[s] = "WAITING"
    BY <1>3 DEF Releases, TimeoutTell, ApproveRelease, ReleaseOnce, ReleaseMine, ExpireOne,
       OrphanRelease, Take, Enter, Elsewhere, txVars
  <2> QED BY <1>d, <2>1
<1>4. ASSUME NEW w \in Workers, Returns(w) PROVE Timed'
  <2>1. CASE TimeoutDone(w)
    <3>1. txStatus[mine[w]] \in Terminal /\ mine[w] \in Payments
      BY <2>1 DEF TimeoutDone, Decided, Sound, Deciding
    <3> QED BY <2>1, <3>1 DEF TimeoutDone, Enter, txVars
  <2>2. CASE ~TimeoutDone(w)
    <3>1. /\ stage[w] # "enqueue" /\ stage'[w] # "enqueue" /\ UNCHANGED <<timer, txStatus>>
          /\ Elsewhere(w)
      BY <1>4, <2>2 DEF Returns, PaymentCreated, ApproveReleased, ReleasedOnce, ExpiredOne,
         OrphanReleased, OldReleased, Enter, Loop, Elsewhere, txVars
    <3> QED BY <1>c, <3>1
  <2> QED BY <2>1, <2>2
<1>5. ASSUME UNCHANGED <<stage, mine, timer, txStatus>> PROVE Timed'
  BY <1>5
<1> QED
  BY <1>1, <1>2, <1>3, <1>4, <1>5, PaymentCases
     DEF Dies, Passes, LockPasses, Lapse, allVars, payVars, handlerVars, txVars

\* Where nothing fails, a confirmed payment the owner is asked about always has a job that
\* will decide it, whoever else handles it meanwhile.
THEOREM WaitingIsTimedCorrect ==
  ASSUME Faults = FALSE, Crashes = FALSE
  PROVE  PaymentSpec => []WaitingIsTimed
<1>1. PaymentInit => Timed
  BY DEF PaymentInit, Timed, WaitingIsTimed, Confirmed
<1>2. Typed /\ Listed /\ Standing /\ Decided /\ Timed /\ [PaymentNext]_allVars => Timed'
  BY TimedInductive
<1>3. Timed => WaitingIsTimed
  BY DEF Timed
<1> QED
  BY <1>1, <1>2, <1>3, AlwaysTyped, AlwaysListed, AlwaysStanding, AlwaysDecided, PTL
     DEF PaymentSpec

-----------------------------------------------------------------------------
(***************************************************************************)
(* The promise of the life cycle.                                          *)
(***************************************************************************)
Moving(t, from, to) == txStatus[t] = from /\ txStatus' = [txStatus EXCEPT ![t] = to]

\* While no list of a cron job is stale, a step changes the status of one payment at most,
\* and only a payment that is open is decided.
LEMMA OneMoves ==
  ASSUME Typed, ~StaleList, [PaymentNext]_allVars
  PROVE  \/ UNCHANGED txStatus
         \/ \E t \in Payments :
              \/ Moving(t, "NONE", "PENDING")
              \/ Moving(t, "PENDING", "WAITING")
              \/ \E to \in Terminal : Moving(t, "PENDING", to)
              \/ \E to \in {"APPROVED", "REJECTED"} : Moving(t, "WAITING", to)
<1> DEFINE Goal == \/ UNCHANGED txStatus
                   \/ \E t \in Payments :
                        \/ Moving(t, "NONE", "PENDING")
                        \/ Moving(t, "PENDING", "WAITING")
                        \/ \E to \in Terminal : Moving(t, "PENDING", to)
                        \/ \E to \in {"APPROVED", "REJECTED"} : Moving(t, "WAITING", to)
<1> USE DEF Moving, Terminal, Typed, Handling, About, Requests
<1>1. ASSUME NEW w \in Workers, Aside(w) PROVE Goal
  <2>1. CASE ConfirmUpdate(w) \/ ApproveUpdate(w) \/ RejectUpdate(w)
    BY <2>1 DEF ConfirmUpdate, ApproveUpdate, RejectUpdate, Claim
  <2>2. CASE OwnerApproveUpdate(w) \/ OwnerRejectUpdate(w) \/ TimeoutUpdate(w)
    BY <2>2 DEF OwnerApproveUpdate, OwnerRejectUpdate, TimeoutUpdate, Claim
  <2>3. CASE ~ \/ ConfirmUpdate(w) \/ ApproveUpdate(w) \/ RejectUpdate(w)
               \/ OwnerApproveUpdate(w) \/ OwnerRejectUpdate(w) \/ TimeoutUpdate(w)
    BY <1>1, <2>3 DEF Aside, ConfirmEnqueue, ConfirmAnnounce, OwnerTell, OrphanFindOld,
       OrphanDone, Fails, ExpireFind, OrphanFind, ConfirmRead, ApproveRead, RejectRead,
       OwnerApproveRead, OwnerRejectRead, TimeoutRead, Begin, txVars
  <2> QED BY <2>1, <2>2, <2>3
<1>2. ASSUME NEW w \in Workers, NEW b \in Banks, NEW t \in Payments, CreatePayment(w, b, t)
      PROVE  Goal
  BY <1>2 DEF CreatePayment
<1>3. ASSUME NEW w \in Workers, NEW t, Releases(w, t) PROVE Goal
  <2>1. CASE TimeoutTell(w) \/ ApproveRelease(w) \/ ReleaseOnce(w) \/ OrphanRelease(w, t)
    BY <2>1 DEF TimeoutTell, ApproveRelease, ReleaseOnce, OrphanRelease, txVars
  <2>2. CASE t \in Payments /\ ExpireOne(w, t)
    <3>1. txStatus[t] = "PENDING"
      BY <2>2 DEF ExpireOne, Take, StaleList
    <3> QED BY <2>2, <3>1 DEF ExpireOne
  <2> QED BY <1>3, <2>1, <2>2 DEF Releases
<1>4. ASSUME NEW w \in Workers, Returns(w) PROVE Goal
  BY <1>4 DEF Returns, PaymentCreated, TimeoutDone, ApproveReleased, ReleasedOnce, ExpiredOne,
     OrphanReleased, OldReleased, txVars
<1>5. ASSUME NEW w \in Workers, Dies(w) PROVE Goal
  BY <1>5 DEF Dies, txVars
<1>6. ASSUME UNCHANGED txStatus PROVE Goal
  BY <1>6
<1> QED
  BY <1>1, <1>2, <1>3, <1>4, <1>5, <1>6, PaymentCases
     DEF Passes, LockPasses, Lapse, allVars, payVars, txVars

\* As long as no cron job works from an outdated list and no two releases of a payment
\* overlap, payments live as the platform promises: decided once and for all, and given
\* back what they had locked once, afterwards.
THEOREM ImplementsLifecycle == OrderlySpec => LifecycleSpec
<1> DEFINE OrderlyNext == PaymentNext /\ ~StaleList' /\ ~Overlap'
<1>1. PaymentInit => Init /\ Life!Init /\ ~StaleList
  BY DEF PaymentInit, Init, Life!Init, StaleList
<1>2. [OrderlyNext]_allVars => [PaymentNext]_allVars
  OBVIOUS
<1>3. ~StaleList /\ [OrderlyNext]_allVars => ~StaleList'
  BY DEF StaleList, allVars, payVars, handlerVars, txVars
<1>4. Typed /\ [OrderlyNext]_allVars => [Next /\ ~Overlap']_vars
  BY StepOfService DEF Typed, allVars
<1>5. Typed /\ Standing /\ Decided /\ Serial /\ ~StaleList /\ [PaymentNext]_allVars
      => [Life!Next]_Life!vars
  <2> SUFFICES ASSUME Typed, Standing, Decided, Serial, ~StaleList, [PaymentNext]_allVars
               PROVE  Life!Next \/ UNCHANGED Life!vars
    OBVIOUS
  <2>1. CASE UNCHANGED credits
    BY <2>1, OneMoves DEF Moving, Terminal, Life!Next, Life!vars, Life!Create, Life!Confirm,
       Life!Decide, Life!Moves
  <2>2. ASSUME NEW w \in Workers, ReleaseCommit(w), UNCHANGED txStatus
        PROVE  Life!Next \/ UNCHANGED Life!vars
    <3>1. pay[w] \in Payments /\ txStatus[pay[w]] \in Terminal
      BY <2>2, ReleasesWhatIsOver
    <3>2. credits[pay[w]] = 0
      BY <2>2, <3>1 DEF ReleaseCommit, Goes, Serial, Unspent
    <3>3. credits' = [credits EXCEPT ![pay[w]] = 1]
      BY <2>2, <3>1, <3>2 DEF ReleaseCommit, Typed, TypeOK
    <3> QED
      BY <2>2, <3>1, <3>2, <3>3 DEF Terminal, Life!Next, Life!GiveBack
  <2> QED BY <2>1, <2>2, Promising
<1>6. OrderlySpec => PaymentSpec
  BY <1>2, PTL DEF OrderlySpec, PaymentSpec
<1>7. OrderlySpec => SerialSpec
  BY <1>1, <1>4, <1>6, AlwaysTyped, PTL DEF OrderlySpec, SerialSpec
<1> QED
  BY <1>1, <1>2, <1>3, <1>5, <1>6, <1>7, AlwaysTyped, AlwaysStanding, AlwaysDecided,
     AlwaysSerial, PTL DEF OrderlySpec, LifecycleSpec, Life!Spec
=============================================================================
