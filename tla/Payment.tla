------------------------------ MODULE Payment -------------------------------
(***************************************************************************)
(* The life of a payment on top of the collateral service: creation        *)
(* (PaymentCreatorService), the customer's confirmation and its five       *)
(* minute job (PaymentConfirmationService, the Bull queue), the decisions  *)
(* of the administrator (PaymentApprovalService,                           *)
(* PaymentCancellationService) and of the bank owner (BankOwnerService),   *)
(* and the cron jobs that expire payments and clean up orphans.            *)
(*                                                                         *)
(* A worker of Collateral runs one handler.  stage is where the handler    *)
(* stands; while it waits for the collateral service, pc is not "idle".    *)
(* A handler whose first read throws does nothing and is no step.          *)
(***************************************************************************)
EXTENDS Collateral

CONSTANT Handlers  \* the handlers that run in this instance
ASSUME HandlersAssumption ==
  Handlers \subseteq {"create", "confirm", "approve", "reject", "ownerApprove",
                      "ownerReject", "timeout", "expire", "orphan", "sweep"}

VARIABLES
  txStatus, \* transaction.status, "NONE" while there is no row
  txBank,   \* transaction.bank_id
  past,     \* past[t]: which of t's times are over, see Passes
  timer,    \* timer[t]: Bull job timeout-<t>
  issued,   \* the payments whose creation answered: clients know their id
  stage,    \* where the handler of a worker stands
  mine,     \* the payment it handles
  list,     \* what the loop of a cron job has still to handle
  tries,    \* attempts to release an approved payment's collateral
  told      \* history: told[t]: payment:<...> messages published about t

txVars == <<txStatus, txBank>>
handlerVars == <<stage, mine, list, tries>>
payVars == <<txVars, past, timer, issued, handlerVars, told>>
allVars == <<vars, payVars>>

Open == {"PENDING", "WAITING"}      \* WAITING_BANK_OWNER_APPROVAL
Terminal == {"APPROVED", "REJECTED", "EXPIRED"}

PaymentInit ==
  /\ Init
  /\ txStatus = [t \in Payments |-> "NONE"]
  /\ txBank = [t \in Payments |-> Nobody]
  /\ past = [t \in Payments |-> {}]
  /\ timer = [t \in Payments |-> "none"]
  /\ issued = {}
  /\ stage = [w \in Workers |-> "idle"]
  /\ mine = [w \in Workers |-> Nobody]
  /\ list = [w \in Workers |-> {}]
  /\ tries = [w \in Workers |-> 0]
  /\ told = [t \in Payments |-> {}]

-----------------------------------------------------------------------------
(* Building blocks of the handlers *)

Free(w) == stage[w] = "idle" /\ pc[w] = "idle"

\* The handler goes on to stage s, or ends.
Enter(w, s) ==
  /\ stage' = [stage EXCEPT ![w] = s]
  /\ mine' = IF s = "idle" THEN [mine EXCEPT ![w] = Nobody] ELSE mine

\* A handler about payment t starts, its first read having satisfied its checks.
Begin(w, handler, t) ==
  /\ handler \in Handlers /\ Free(w)
  /\ stage' = [stage EXCEPT ![w] = handler]
  /\ mine' = [mine EXCEPT ![w] = t]
  /\ UNCHANGED <<vars, txVars, past, timer, issued, list, tries, told>>

\* Mutant: the status re-checked in memory, and the update by id alone
ClaimById(w, from, old, new, next) ==
  /\ stage[w] = from
  /\ txStatus' = [txStatus EXCEPT ![mine[w]] = new]
  /\ Enter(w, next)
  /\ UNCHANGED <<vars, txBank, past, timer, issued, list, tries, told>>

\* updateMany where id and status match: it changes the status, and the handler
\* goes on to next, or it finds another status, and the handler throws.
Claim(w, from, old, new, next) ==
  /\ stage[w] = from
  /\ \/ /\ txStatus[mine[w]] = old
        /\ txStatus' = [txStatus EXCEPT ![mine[w]] = new]
        /\ Enter(w, next)
     \/ /\ txStatus[mine[w]] # old
        /\ Enter(w, "idle")
        /\ UNCHANGED txStatus
  /\ UNCHANGED <<vars, txBank, past, timer, issued, list, tries, told>>

\* A message about payment t on one of the payment channels.
Publish(t, message) == told' = [told EXCEPT ![t] = @ \cup {message}]

\* A cron job goes on with item t of its list.
Take(w, t) == t \in list[w] /\ list' = [list EXCEPT ![w] = @ \ {t}]

\* An approval tries to release at most three times.
MaxAttempts == 3

\* The handler calls releaseCollateral for its payment and waits in stage s.
ReleaseMine(w, s) == Enter(w, s) /\ CallRelease(w, mine[w])

-----------------------------------------------------------------------------
(* Mutants: bugs this code could have had, each caught by a property below.  *)

\* the payment returned although its collateral could not be locked
UncheckedPaymentCreated(w) ==
  /\ stage[w] = "create"
  /\ issued' = issued \cup {mine[w]}
  /\ Enter(w, "idle") /\ Return(w)
  /\ UNCHANGED <<txVars, past, timer, list, tries, told>>

\* payments without an ACTIVE lock passed over by the jobs that expire payments
ExpireLockedOne(w, t) ==
  /\ stage[w] \in {"expire", "orphanOld"} /\ Take(w, t)
  /\ txStatus' = IF lockStatus[t] = "ACTIVE" THEN [txStatus EXCEPT ![t] = "EXPIRED"] ELSE txStatus
  /\ stage' = [stage EXCEPT ![w] = IF @ = "expire" THEN "expireRelease" ELSE "oldRelease"]
  /\ CallRelease(w, t)
  /\ UNCHANGED <<txBank, past, timer, issued, mine, tries, told>>

\* the expiry's update limited to PENDING payments, and its count not looked at
GuardedExpireOne(w, t) ==
  /\ stage[w] \in {"expire", "orphanOld"} /\ Take(w, t)
  /\ txStatus' = IF txStatus[t] = "PENDING" THEN [txStatus EXCEPT ![t] = "EXPIRED"] ELSE txStatus
  /\ stage' = [stage EXCEPT ![w] = IF @ = "expire" THEN "expireRelease" ELSE "oldRelease"]
  /\ CallRelease(w, t)
  /\ UNCHANGED <<txBank, past, timer, issued, mine, tries, told>>

\* the cleanup takes every payment that is not PENDING for one that is over
ConfirmedOrphans == {t \in Payments : lockStatus[t] = "ACTIVE" /\ txStatus[t] \notin {"NONE", "PENDING"}}

\* the cleanup forgets expired payments
DecidedOrphans == {t \in Payments : lockStatus[t] = "ACTIVE" /\ txStatus[t] \in {"APPROVED", "REJECTED"}}

-----------------------------------------------------------------------------
(* createPayment *)

\* selectBestBank last looked at a bank that is not suspended and has enough
\* left; the row is inserted with that bank, and lockCollateral is called.  When
\* the lock throws, the PENDING row stays.
CreatePayment(w, b, t) ==
  /\ "create" \in Handlers /\ Free(w)
  /\ txStatus[t] = "NONE"
  /\ ~suspended[b] /\ avail[b] >= Amount[t]
  /\ txStatus' = [txStatus EXCEPT ![t] = "PENDING"]
  /\ txBank' = [txBank EXCEPT ![t] = b]
  /\ stage' = [stage EXCEPT ![w] = "create"]
  /\ mine' = [mine EXCEPT ![w] = t]
  /\ CallLock(w, b, t)
  /\ UNCHANGED <<past, timer, issued, list, tries, told>>

\* The payment is cached and its event written before the answer; if that
\* fails, the lock stays and the client gets an error.
PaymentCreated(w) ==
  /\ stage[w] = "create"
  /\ IF pc[w] = "ok" THEN \E answer \in After({mine[w]}, {}) : issued' = issued \cup answer
                     ELSE UNCHANGED issued
  /\ Enter(w, "idle")
  /\ Return(w)
  /\ UNCHANGED <<txVars, past, timer, list, tries, told>>

-----------------------------------------------------------------------------
(* confirmPaymentSent and handleApprovalTimeout *)

ConfirmRead(w, t) ==
  /\ Begin(w, "confirm", t)
  /\ t \in issued /\ txStatus[t] = "PENDING" /\ "expiry" \notin past[t]

ConfirmUpdate(w) == Claim(w, "confirm", "PENDING", "WAITING", "enqueue")

\* paymentQueue.add with a delay of five minutes
ConfirmEnqueue(w) ==
  /\ stage[w] = "enqueue"
  /\ timer' = [timer EXCEPT ![mine[w]] = "queued"]
  /\ Enter(w, "announce")
  /\ UNCHANGED <<vars, txVars, past, issued, list, tries, told>>

\* The customer is told on the channel payment:approved that the owner is asked.
ConfirmAnnounce(w) ==
  /\ stage[w] = "announce"
  /\ Publish(mine[w], "approved")
  /\ Enter(w, "idle")
  /\ UNCHANGED <<vars, txVars, past, timer, issued, list, tries>>

\* The delay is over: the job runs, and has nothing to do unless it reads that
\* the owner is still waited for.
TimeoutRead(w, t) ==
  /\ "timeout" \in Handlers /\ Free(w)
  /\ timer[t] = "queued" /\ "deadline" \in past[t]
  /\ \/ /\ txStatus[t] = "WAITING"
        /\ stage' = [stage EXCEPT ![w] = "timeout"]
        /\ mine' = [mine EXCEPT ![w] = t]
        /\ timer' = [timer EXCEPT ![t] = "active"]
     \/ /\ txStatus[t] # "WAITING"
        /\ timer' = [timer EXCEPT ![t] = "done"]
        /\ UNCHANGED <<stage, mine>>
  /\ UNCHANGED <<vars, txVars, past, issued, list, tries, told>>

\* The count of updateMany is not looked at.
TimeoutUpdate(w) ==
  /\ stage[w] = "timeout"
  /\ txStatus' = IF txStatus[mine[w]] = "WAITING"
                   THEN [txStatus EXCEPT ![mine[w]] = "REJECTED"] ELSE txStatus
  /\ Enter(w, "timedOut")
  /\ UNCHANGED <<vars, txBank, past, timer, issued, list, tries, told>>

TimeoutTell(w) ==
  /\ stage[w] = "timedOut"
  /\ Publish(mine[w], "rejected")
  /\ ReleaseMine(w, "timeoutRelease")
  /\ UNCHANGED <<txVars, past, timer, issued, list, tries>>

TimeoutDone(w) ==
  /\ stage[w] = "timeoutRelease"
  /\ timer' = [timer EXCEPT ![mine[w]] = "done"]
  /\ Enter(w, "idle")
  /\ Return(w)
  /\ UNCHANGED <<txVars, past, issued, list, tries, told>>

-----------------------------------------------------------------------------
(* The administrator's decision on a PENDING payment *)

ApproveRead(w, t) ==
  /\ Begin(w, "approve", t)
  /\ txStatus[t] = "PENDING" /\ "expiry" \notin past[t]

ApproveUpdate(w) == Claim(w, "approve", "PENDING", "APPROVED", "release3")

\* releaseCollateralWithRetry
MayRetry(w) == tries[w] < MaxAttempts

ApproveRelease(w) ==
  /\ stage[w] = "release3"
  /\ tries' = [tries EXCEPT ![w] = @ + 1]
  /\ ReleaseMine(w, "releasing3")
  /\ UNCHANGED <<txVars, past, timer, issued, list, told>>

ApproveReleased(w) ==
  /\ stage[w] = "releasing3"
  /\ \/ /\ pc[w] = "threw" /\ MayRetry(w)
        /\ Enter(w, "release3")
        /\ UNCHANGED tries
     \/ /\ pc[w] = "ok" \/ ~MayRetry(w)
        /\ Enter(w, "idle")
        /\ tries' = [tries EXCEPT ![w] = 0]
  /\ Return(w)
  /\ UNCHANGED <<txVars, past, timer, issued, list, told>>

\* No check of the expiry here.
RejectRead(w, t) == Begin(w, "reject", t) /\ txStatus[t] = "PENDING"

RejectUpdate(w) == Claim(w, "reject", "PENDING", "REJECTED", "release")

-----------------------------------------------------------------------------
(* The bank owner's decision on a confirmed payment *)

OwnerApproveRead(w, t) ==
  /\ Begin(w, "ownerApprove", t)
  /\ txStatus[t] = "WAITING" /\ "deadline" \notin past[t]

OwnerApproveUpdate(w) == Claim(w, "ownerApprove", "WAITING", "APPROVED", "tellApproved")

\* No check of the deadline here.
OwnerRejectRead(w, t) == Begin(w, "ownerReject", t) /\ txStatus[t] = "WAITING"

OwnerRejectUpdate(w) == Claim(w, "ownerReject", "WAITING", "REJECTED", "tellRejected")

\* The messages are awaited before the release: if Redis refuses, it is skipped.
OwnerTell(w) ==
  /\ \/ stage[w] = "tellApproved" /\ Publish(mine[w], "approved")
     \/ stage[w] = "tellRejected" /\ Publish(mine[w], "rejected")
  /\ Enter(w, "release")
  /\ UNCHANGED <<vars, txVars, past, timer, issued, list, tries>>

\* Rejections and owners' decisions try to release once and ignore a failure.
ReleaseOnce(w) ==
  /\ stage[w] = "release"
  /\ ReleaseMine(w, "releasing")
  /\ UNCHANGED <<txVars, past, timer, issued, list, tries, told>>

ReleasedOnce(w) ==
  /\ stage[w] = "releasing"
  /\ Enter(w, "idle")
  /\ Return(w)
  /\ UNCHANGED <<txVars, past, timer, issued, list, tries, told>>

-----------------------------------------------------------------------------
(* The cron jobs: expirePayments, detectAndCleanup *)

\* A cron job has found the payments in found and loops over them in stage s.
Loop(w, s, found) ==
  /\ stage' = [stage EXCEPT ![w] = IF found = {} THEN "idle" ELSE s]
  /\ list' = [list EXCEPT ![w] = found]

ExpireFind(w) ==
  /\ "expire" \in Handlers /\ Free(w)
  /\ \E t \in Payments : txStatus[t] = "PENDING" /\ "expiry" \in past[t]
  /\ Loop(w, "expire",
          {t \in Payments : txStatus[t] = "PENDING" /\ "expiry" \in past[t]})
  /\ UNCHANGED <<vars, txVars, past, timer, issued, mine, tries, told>>

\* The update names the id only: the status may have changed since it was read.
ExpireOne(w, t) ==
  /\ stage[w] \in {"expire", "orphanOld"} /\ Take(w, t)
  /\ txStatus' = [txStatus EXCEPT ![t] = "EXPIRED"]
  /\ stage' = [stage EXCEPT ![w] =
                 IF @ = "expire" THEN "expireRelease" ELSE "oldRelease"]
  /\ CallRelease(w, t)
  /\ UNCHANGED <<txBank, past, timer, issued, mine, tries, told>>

\* An error skips the rest of the item, the message included.
ExpiredOne(w) ==
  /\ stage[w] = "expireRelease"
  /\ Loop(w, "expire", list[w])
  /\ IF pc[w] = "ok" THEN \E m \in After({"expired"}, {}) :
                            told' = [told EXCEPT ![pay[w]] = @ \cup m]
                     ELSE UNCHANGED told
  /\ Return(w)
  /\ UNCHANGED <<txVars, past, timer, issued, mine, tries>>

\* First pass: ACTIVE locks of payments that are over.
Orphans == {t \in Payments : lockStatus[t] = "ACTIVE" /\ txStatus[t] \in Terminal}

\* Second pass: PENDING payments created more than ten minutes ago.
OldPending == {t \in Payments : txStatus[t] = "PENDING" /\ "old" \in past[t]}

OrphanFind(w) ==
  /\ "orphan" \in Handlers /\ Free(w)
  /\ stage' = [stage EXCEPT ![w] = "orphan"]
  /\ list' = [list EXCEPT ![w] = Orphans]
  /\ UNCHANGED <<vars, txVars, past, timer, issued, mine, tries, told>>

OrphanRelease(w, t) ==
  /\ stage[w] = "orphan" /\ Take(w, t)
  /\ stage' = [stage EXCEPT ![w] = "orphanRelease"]
  /\ CallRelease(w, t)
  /\ UNCHANGED <<txVars, past, timer, issued, mine, tries, told>>

OrphanReleased(w) ==
  /\ stage[w] = "orphanRelease" /\ stage' = [stage EXCEPT ![w] = "orphan"]
  /\ Return(w)
  /\ UNCHANGED <<txVars, past, timer, issued, mine, list, tries, told>>

\* Whether it went well or not, the next old payment follows; nobody is told.
OldReleased(w) ==
  /\ stage[w] = "oldRelease" /\ stage' = [stage EXCEPT ![w] = "orphanOld"]
  /\ Return(w)
  /\ UNCHANGED <<txVars, past, timer, issued, mine, list, tries, told>>

OrphanFindOld(w) ==
  /\ stage[w] = "orphan" /\ list[w] = {}
  /\ stage' = [stage EXCEPT ![w] = "orphanOld"]
  /\ list' = [list EXCEPT ![w] = OldPending]
  /\ UNCHANGED <<vars, txVars, past, timer, issued, mine, tries, told>>

\* The third pass asks for a relation collateral_locks, which the schema does
\* not have: the query is refused and the job ends.
OrphanDone(w) ==
  /\ stage[w] = "orphanOld" \/ (Faults /\ stage[w] = "orphan")
  /\ list[w] = {}
  /\ Enter(w, "idle")
  /\ UNCHANGED <<vars, txVars, past, timer, issued, list, tries, told>>

-----------------------------------------------------------------------------
(* Failures and time *)

\* The awaits of a request of its own, before a write of its own or after one.
Requests == {"confirm", "enqueue", "announce", "approve", "release3", "reject",
             "ownerApprove", "ownerReject", "tellApproved", "tellRejected", "release"}

\* A rejected database or Redis call ends a request with an error and leaves a
\* job in the queue's failed set; a cron job goes on with the next item.
Fails(w) ==
  /\ Faults /\ pc[w] = "idle"
  /\ \/ /\ stage[w] \in Requests
        /\ tries[w] = 0
        /\ Enter(w, "idle")
        /\ UNCHANGED <<timer, list>>
     \/ /\ stage[w] \in {"timeout", "timedOut"}
        /\ timer' = [timer EXCEPT ![mine[w]] = "done"]
        /\ Enter(w, "idle")
        /\ UNCHANGED list
     \/ /\ stage[w] = "expire"
        /\ \E t \in list[w] : Loop(w, "expire", list[w] \ {t})
        /\ UNCHANGED <<mine, timer>>
     \/ /\ stage[w] = "orphanOld"
        /\ \E t \in list[w] : Take(w, t)
        /\ UNCHANGED <<stage, mine, timer>>
  /\ UNCHANGED <<vars, txVars, past, issued, tries, told>>

\* The process dies.  Bull hands the job of a dead worker to another one, or
\* fails it when it has done so before.
Dies(w) ==
  /\ Crashes /\ ~Free(w)
  /\ pc' = [pc EXCEPT ![w] = "idle"]
  /\ Forget(w)
  /\ Enter(w, "idle")
  /\ list' = [list EXCEPT ![w] = {}]
  /\ tries' = [tries EXCEPT ![w] = 0]
  /\ IF stage[w] \in {"timeout", "timedOut", "timeoutRelease"}
       THEN \E next \in {"queued", "done"} : timer' = [timer EXCEPT ![mine[w]] = next]
       ELSE UNCHANGED timer
  /\ UNCHANGED <<bankVars, lockVars, due, key, txVars, past, issued, told>>

\* expires_at of a payment is five minutes after its creation, "old" ten; its
\* approval_deadline is five minutes after its confirmation.  A lock expires
\* five minutes after it was taken, so after its payment and before a deadline.
Passes(t) ==
  /\ txStatus[t] # "NONE"
  /\ \/ /\ "expiry" \notin past[t]
        /\ past' = [past EXCEPT ![t] = @ \cup {"expiry"}]
     \/ /\ "expiry" \in past[t] /\ "old" \notin past[t]
        /\ past' = [past EXCEPT ![t] = @ \cup {"old"}]
     \/ /\ t \in due /\ "deadline" \notin past[t]
        /\ txStatus[t] = "WAITING" \/ timer[t] = "queued"
        /\ past' = [past EXCEPT ![t] = @ \cup {"deadline"}]
  /\ UNCHANGED <<vars, txVars, timer, issued, handlerVars, told>>

LockPasses(t) == "expiry" \in past[t] /\ LockDue(t) /\ UNCHANGED payVars

Lapse(b) == KeyLapse(b) /\ UNCHANGED payVars

-----------------------------------------------------------------------------
\* The steps of a handler that runs, its calls of the collateral service included
HandlerStep(w) ==
  \/ Step(w) /\ UNCHANGED payVars
  \/ PaymentCreated(w)
  \/ ConfirmUpdate(w) \/ ConfirmEnqueue(w) \/ ConfirmAnnounce(w)
  \/ TimeoutUpdate(w) \/ TimeoutTell(w) \/ TimeoutDone(w)
  \/ ApproveUpdate(w) \/ ApproveRelease(w) \/ ApproveReleased(w)
  \/ RejectUpdate(w) \/ OwnerApproveUpdate(w) \/ OwnerRejectUpdate(w)
  \/ OwnerTell(w) \/ ReleaseOnce(w) \/ ReleasedOnce(w)
  \/ \E t \in Payments : ExpireOne(w, t) \/ OrphanRelease(w, t)
  \/ ExpiredOne(w) \/ OrphanReleased(w) \/ OldReleased(w) \/ OrphanFindOld(w) \/ OrphanDone(w)
  \/ Fails(w)

\* What people do
Request(w) ==
  \E t \in Payments :
    \/ \E b \in Banks : CreatePayment(w, b, t)
    \/ ConfirmRead(w, t) \/ ApproveRead(w, t) \/ RejectRead(w, t)
    \/ OwnerApproveRead(w, t) \/ OwnerRejectRead(w, t)

\* What the scheduler and the queue start
Cron(w) ==
  \/ ExpireFind(w) \/ OrphanFind(w)
  \/ "sweep" \in Handlers /\ Free(w) /\ CallSweep(w) /\ UNCHANGED payVars

PaymentNext ==
  \/ \E w \in Workers : HandlerStep(w) \/ Request(w) \/ Cron(w) \/ Dies(w)
  \/ \E w \in Workers, t \in Payments : TimeoutRead(w, t)
  \/ \E t \in Payments : Passes(t) \/ LockPasses(t)
  \/ \E b \in Banks : Lapse(b)

PaymentSpec == PaymentInit /\ [][PaymentNext]_allVars

\* Handlers that run go on, time passes, and the scheduler and the queue do not
\* wait for people.  Failures are not systematic: what fails or dies again and
\* again succeeds at some time.
PaymentFairness ==
  /\ \A t \in Payments : WF_allVars(Passes(t)) /\ WF_allVars(LockPasses(t))
  /\ \A b \in Banks : WF_allVars(Lapse(b))
  /\ \A w \in Workers : WF_allVars(HandlerStep(w))
  /\ SF_allVars(\E w \in Workers : ExpireFind(w))
  /\ SF_allVars(\E w \in Workers : OrphanFind(w))
  /\ SF_allVars(\E w \in Workers, t \in Payments : ExpireOne(w, t))
  /\ SF_allVars(\E w \in Workers, t \in Payments : OrphanRelease(w, t))
  /\ SF_allVars(\E w \in Workers, t \in Payments : TimeoutRead(w, t))
  /\ SF_allVars(\E w \in Workers : TimeoutUpdate(w))
  /\ SF_allVars(\E w \in Workers : ReadLock(w) /\ UNCHANGED payVars)
  /\ SF_allVars(\E w \in Workers : ReleaseWrite(w) /\ UNCHANGED payVars)
  /\ SF_allVars(\E w \in Workers : ReleaseCommit(w) /\ UNCHANGED payVars)

FairPaymentSpec == PaymentSpec /\ PaymentFairness

\* The behaviours in which no cron job holds a payment that is no longer PENDING
\* and no two releases of a payment overlap.
StaleList ==
  \E w \in Workers : /\ stage[w] \in {"expire", "expireRelease", "orphanOld", "oldRelease"}
                     /\ \E t \in list[w] : txStatus[t] # "PENDING"

OrderlySpec == PaymentInit /\ [][PaymentNext /\ ~StaleList' /\ ~Overlap']_allVars

-----------------------------------------------------------------------------
(* Properties *)

Stages == Requests \cup
  {"idle", "create", "timeout", "timedOut", "timeoutRelease", "releasing3",
   "releasing", "expire", "expireRelease", "orphan", "orphanRelease", "orphanOld",
   "oldRelease"}

PaymentTypeOK ==
  /\ txStatus \in [Payments -> {"NONE"} \cup Open \cup Terminal]
  /\ txBank \in [Payments -> Banks \cup {Nobody}]
  /\ past \in [Payments -> SUBSET {"expiry", "old", "deadline"}]
  /\ timer \in [Payments -> {"none", "queued", "active", "done"}]
  /\ issued \in SUBSET Payments
  /\ stage \in [Workers -> Stages]
  /\ mine \in [Workers -> Payments \cup {Nobody}]
  /\ list \in [Workers -> SUBSET Payments]
  /\ tries \in [Workers -> 0 .. MaxAttempts]
  /\ told \in [Payments -> SUBSET {"approved", "rejected", "expired"}]

\* An approval never turns into a rejection nor a rejection into an approval, an
\* expired payment stays expired, and no payment that was decided is open again,
\* whoever else decides at the same time.
NeverFlips ==
  [][\A t \in Payments :
       /\ txStatus[t] = "APPROVED" => txStatus'[t] \in {"APPROVED", "EXPIRED"}
       /\ txStatus[t] = "REJECTED" => txStatus'[t] \in {"REJECTED", "EXPIRED"}
       /\ txStatus[t] = "EXPIRED" => txStatus'[t] = "EXPIRED"]_allVars

\* Collateral goes back to the bank only after the payment it secures is over.
GivenBackWhenOver ==
  \A t \in Payments : credits[t] > 0 => txStatus[t] \in Terminal

\* A client that holds a payment's id has a payment with collateral in the bank
\* it was told to pay to.
IssuedIsSecured ==
  \A t \in issued : lockStatus[t] # "NONE" /\ lockBank[t] = txBank[t]

\* Who hears that a payment was rejected or has expired can rely on it: it is
\* over, and what was announced as expired stays expired (an announced rejection
\* may be the timeout job's of a payment the owner has just approved).
ToldWhenOver ==
  \A t \in Payments :
    /\ "rejected" \in told[t] => txStatus[t] \in Terminal
    /\ "expired" \in told[t] => txStatus[t] = "EXPIRED"

\* A payment that waits for its bank owner, with nobody just scheduling its
\* timeout, has a timeout job that will still decide it (without failures).
WaitingIsTimed ==
  \A t \in Payments :
    txStatus[t] = "WAITING" =>
      \/ timer[t] \in {"queued", "active"}
      \/ \E w \in Workers : stage[w] = "enqueue" /\ mine[w] = t

\* Every payment stops being PENDING.
PendingEnds == \A t \in Payments : txStatus[t] = "PENDING" ~> txStatus[t] # "PENDING"

\* A payment that waits and that no timeout will ever reject: its process died, or its
\* call of the queue failed, after the confirmation was written.
Forgotten(t) ==
  /\ txStatus[t] = "WAITING" /\ timer[t] \notin {"queued", "active"}
  /\ \A w \in Workers : ~ (stage[w] = "enqueue" /\ mine[w] = t)

\* Collateral that was locked comes back to its bank in the end, whatever fails or dies
\* on the way and whenever the sweep runs, with two exceptions: the payment is forgotten,
\* or the sweep has marked its lock EXPIRED (see CollateralReturns).
ReturnsUnlessLost ==
  \A t \in Payments :
    lockStatus[t] = "ACTIVE" ~> credits[t] > 0 \/ lockStatus[t] = "EXPIRED" \/ Forgotten(t)

\* A lock left ACTIVE by a payment that is over does not stay ACTIVE: what a
\* failed release leaves behind is found by the orphan cleanup.
OrphansSettle ==
  \A t \in Payments :
    txStatus[t] \in Terminal /\ lockStatus[t] = "ACTIVE" ~> lockStatus[t] # "ACTIVE"

\* Up to stale lists and overlapping releases, payments live as they should.
Life == INSTANCE Lifecycle WITH
          status <- txStatus,
          returned <- credits

LifecycleSpec == Life!Spec

\* What the sweep is there to make sure of, as its scheduler says: collateral that was
\* locked comes back to its bank in the end.
CollateralReturns ==
  \A t \in Payments : lockStatus[t] = "ACTIVE" ~> credits[t] > 0

\* canTransitionTo: nothing follows a final status.
FinalStays ==
  [][\A t \in Payments : txStatus[t] \in Terminal => txStatus'[t] = txStatus[t]]_allVars
=============================================================================
