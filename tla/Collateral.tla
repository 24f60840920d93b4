----------------------------- MODULE Collateral -----------------------------
(***************************************************************************)
(* The collateral service, collateral/collateral.service.ts: every payment *)
(* locks its amount against the limit of one bank account (lockCollateral) *)
(* and gives it back when it is over (releaseCollateral); a cron sweep     *)
(* (releaseExpiredLocks) handles locks whose five minutes are up.          *)
(*                                                                         *)
(* A worker is one asynchronous call of the Node processes; pc is the      *)
(* await it stands at.  The database runs READ COMMITTED: the reads of a   *)
(* transaction come before its writes and see committed rows only, and the *)
(* first write locks the row it writes until commit.  So a transaction is  *)
(* a read step and a commit step, and the one that does other work between *)
(* its writes and its commit (a release, which talks to Redis) has a step  *)
(* in between during which it holds its rows.                              *)
(***************************************************************************)
EXTENDS Integers, FiniteSets, Sums

CONSTANTS
  Banks, Payments,
  Workers,  \* concurrent calls
  Nobody,   \* not a worker, payment or bank
  Amount,   \* Amount[t]: what payment t locks
  Limit,    \* Limit[b]: collateral_limit of bank b
  SlowAt,   \* awaits a key holder may spend more than the key's TTL at
  Faults,   \* TRUE: a database or Redis call may be rejected or its answer lost
  Crashes   \* TRUE: a process may die in the middle of a call

ASSUME NobodyAssumption == Nobody \notin Workers \cup Payments \cup Banks
ASSUME MoneyAssumption ==
  /\ Amount \in [Payments -> Nat \ {0}]
  /\ Limit \in [Banks -> Nat \ {0}]
ASSUME FlagAssumption == Faults \in BOOLEAN /\ Crashes \in BOOLEAN

VARIABLES
  used,        \* bank.used_collateral
  avail,       \* bank.available_collateral
  suspended,   \* bank.is_suspended
  lockStatus,  \* collateral_lock.status, "NONE" while there is no row
  lockBank,    \* collateral_lock.bank_id
  due,         \* the payments whose collateral_lock.expires_at has passed
  key,         \* Redis key lock:bank:<id>: the call that set it, or Nobody
  pc, pay, at, \* of a call: where it stands, its payment, its bank
  saw,         \* of a release: bank.is_suspended as it read it
  todo,        \* of a sweep: the expired locks it has still to handle
  job,         \* "call", or "sweep" for a release made inside a sweep
  credits      \* history: how often payment t's amount was given back

bankVars == <<used, avail, suspended>>
lockVars == <<lockStatus, lockBank, credits>>
callVars == <<pay, at, saw, todo, job>>
vars == <<bankVars, lockVars, due, key, pc, callVars>>

-----------------------------------------------------------------------------
\* A call stands at one of these awaits between taking the key and the end of
\* the finally block that deletes it.
Section == {"read", "write", "tell", "freeOk", "freeErr"}
Releasing == {"rread", "rwrite", "rcommit"}
PCs == {"idle", "take", "ok", "threw", "find", "mark"} \cup Section \cup Releasing

InSection(w, b) == pc[w] \in Section /\ at[w] = b

\* A release that has written and not yet committed holds the rows of its lock
\* and of its bank.
HoldsLockRow(w, t) == pc[w] = "rcommit" /\ pay[w] = t
RowHeld(b) == \E w \in Workers : pc[w] = "rcommit" /\ lockBank[pay[w]] = b

Init ==
  /\ used = [b \in Banks |-> 0]
  /\ avail = Limit
  /\ suspended = [b \in Banks |-> FALSE]
  /\ lockStatus = [t \in Payments |-> "NONE"]
  /\ lockBank = [t \in Payments |-> Nobody]
  /\ credits = [t \in Payments |-> 0]
  /\ due = {}
  /\ key = [b \in Banks |-> Nobody]
  /\ pc = [w \in Workers |-> "idle"]
  /\ pay = [w \in Workers |-> Nobody]
  /\ at = [w \in Workers |-> Nobody]
  /\ saw = [w \in Workers |-> FALSE]
  /\ todo = [w \in Workers |-> {}]
  /\ job = [w \in Workers |-> "call"]

Goes(w, from, to) == pc[w] = from /\ pc' = [pc EXCEPT ![w] = to]

\* Where a call goes after an await that may fail: a rejected or lost answer
\* leads to bad, after the effect of the call or without it.
After(good, bad) == IF Faults THEN {good, bad} ELSE {good}

\* The locals of a finished call are gone.
Forget(w) ==
  /\ pay' = [pay EXCEPT ![w] = Nobody]
  /\ at' = [at EXCEPT ![w] = Nobody]
  /\ saw' = [saw EXCEPT ![w] = FALSE]
  /\ todo' = [todo EXCEPT ![w] = {}]
  /\ job' = [job EXCEPT ![w] = "call"]

-----------------------------------------------------------------------------
(* Mutants: bugs this code could have had, each caught by a property below.  *)

\* SET without NX
PlainTakeKey(w) ==
  /\ Goes(w, "take", "read")
  /\ key' = [key EXCEPT ![at[w]] = w]
  /\ UNCHANGED <<bankVars, lockVars, due, callVars>>

\* the updates of a release made one by one, without $transaction
HalfReleaseAbort(w) ==
  /\ Faults /\ Goes(w, "rcommit", "threw")
  /\ used' = [used EXCEPT ![lockBank[pay[w]]] = @ - Amount[pay[w]]]
  /\ UNCHANGED <<avail, suspended, lockVars, due, key, callVars>>

\* the sweep marks a lock as if it had been released
SweepMarkReleased(w, t) ==
  /\ Goes(w, "mark", "rread") /\ t \in todo[w]
  /\ lockStatus' = [lockStatus EXCEPT ![t] = "RELEASED"]
  /\ pay' = [pay EXCEPT ![w] = t] /\ todo' = [todo EXCEPT ![w] = @ \ {t}]
  /\ UNCHANGED <<bankVars, lockBank, credits, due, key, at, saw, job>>

-----------------------------------------------------------------------------
(* lockCollateral *)

CallLock(w, b, t) ==
  /\ Goes(w, "idle", "take")
  /\ pay' = [pay EXCEPT ![w] = t]
  /\ at' = [at EXCEPT ![w] = b]
  /\ UNCHANGED <<bankVars, lockVars, due, key, saw, todo, job>>

\* SET lock:bank:<id> <payment> EX 10 NX.  When its answer is lost the call
\* throws, and the key stays.
TakeKey(w) ==
  /\ \E next \in After("read", "threw") : Goes(w, "take", next)
  /\ key[at[w]] = Nobody
  /\ key' = [key EXCEPT ![at[w]] = w]
  /\ UNCHANGED <<bankVars, lockVars, due, callVars>>

\* The key is taken, or SET is rejected: thrown before the try, nothing to undo.
KeyRefused(w) ==
  /\ Goes(w, "take", "threw")
  /\ Faults \/ key[at[w]] # Nobody
  /\ UNCHANGED <<bankVars, lockVars, due, key, callVars>>

BankAccepts(w) ==
  /\ Goes(w, "read", "write")
  /\ ~suspended[at[w]]
  /\ avail[at[w]] >= Amount[pay[w]]
  /\ UNCHANGED <<bankVars, lockVars, due, key, callVars>>

BankRefuses(w) ==
  /\ Goes(w, "read", "freeErr")
  /\ suspended[at[w]] \/ avail[at[w]] < Amount[pay[w]]
  /\ UNCHANGED <<bankVars, lockVars, due, key, callVars>>

\* transaction_id is unique in the table of locks.
NoRow(t) == lockStatus[t] = "NONE"

\* A bank with this much left is suspended.
Full(left) == left <= 0

\* The row of the lock, the bank's two counters and the suspension of a bank
\* that is full become visible together.
LockCommit(w) ==
  LET b == at[w]
      t == pay[w]
      left == avail[b] - Amount[t]
  IN /\ \E next \in After("tell", "freeErr") : Goes(w, "write", next)
     /\ NoRow(t)
     /\ ~RowHeld(b)
     /\ lockStatus' = [lockStatus EXCEPT ![t] = "ACTIVE"]
     /\ lockBank' = [lockBank EXCEPT ![t] = b]
     /\ used' = [used EXCEPT ![b] = @ + Amount[t]]
     /\ avail' = [avail EXCEPT ![b] = left]
     /\ suspended' = [suspended EXCEPT ![b] = @ \/ Full(left)]
     /\ UNCHANGED <<credits, due, key, callVars>>

\* A second row for a payment is refused.  Any transaction may also time out or
\* lose its connection.
LockAbort(w) ==
  /\ \/ Goes(w, "write", "freeErr") /\ ~NoRow(pay[w])
     \/ Faults /\ \E from \in {"read", "write"} : Goes(w, from, "freeErr")
  /\ UNCHANGED <<bankVars, lockVars, due, key, callVars>>

\* updateBankCache and the collateral:locked message, after the commit
Tell(w) ==
  /\ \E next \in After("freeOk", "freeErr") : Goes(w, "tell", next)
  /\ UNCHANGED <<bankVars, lockVars, due, key, callVars>>

\* The finally block deletes the key, whoever set it.
FreeKey(w) ==
  /\ Goes(w, "freeOk", "ok") \/ Goes(w, "freeErr", "threw")
  /\ key' = [key EXCEPT ![at[w]] = Nobody]
  /\ UNCHANGED <<bankVars, lockVars, due, callVars>>

FreeKeyFails(w) ==
  /\ Faults
  /\ \E from \in {"freeOk", "freeErr"} : Goes(w, from, "threw")
  /\ UNCHANGED <<bankVars, lockVars, due, key, callVars>>

\* The TTL of a key runs out.  Under a call that still is in its section only
\* if that call may be slow where it stands.
KeyLapse(b) ==
  /\ key[b] # Nobody
  /\ InSection(key[b], b) => pc[key[b]] \in SlowAt
  /\ key' = [key EXCEPT ![b] = Nobody]
  /\ UNCHANGED <<bankVars, lockVars, due, pc, callVars>>

-----------------------------------------------------------------------------
(* releaseCollateral *)

CallRelease(w, t) ==
  /\ Goes(w, "idle", "rread")
  /\ pay' = [pay EXCEPT ![w] = t]
  /\ UNCHANGED <<bankVars, lockVars, due, key, at, saw, todo, job>>

ReadLock(w) ==
  LET t == pay[w]
  IN /\ \/ /\ Goes(w, "rread", "threw")     \* LockNotFoundException
           /\ lockStatus[t] = "NONE"
           /\ UNCHANGED saw
        \/ /\ Goes(w, "rread", "ok")        \* a warning, and done
           /\ lockStatus[t] \notin {"NONE", "ACTIVE"}
           /\ UNCHANGED saw
        \/ /\ Goes(w, "rread", "rwrite")
           /\ lockStatus[t] = "ACTIVE"
           /\ saw' = [saw EXCEPT ![w] = suspended[lockBank[t]]]
     /\ UNCHANGED <<bankVars, lockVars, due, key, pay, at, todo, job>>

\* The updates are made and hold their rows; then, still inside the
\* transaction, the cache is written and collateral:released published.
ReleaseWrite(w) ==
  /\ Goes(w, "rwrite", "rcommit")
  /\ ~RowHeld(lockBank[pay[w]])
  /\ UNCHANGED <<bankVars, lockVars, due, key, callVars>>

\* None of the updates looks at the lock's status again.
ReleaseCommit(w) ==
  LET t == pay[w]
      b == lockBank[t]
      left == avail[b] + Amount[t]
  IN /\ \E next \in After("ok", "threw") : Goes(w, "rcommit", next)
     /\ lockStatus' = [lockStatus EXCEPT ![t] = "RELEASED"]
     /\ used' = [used EXCEPT ![b] = @ - Amount[t]]
     /\ avail' = [avail EXCEPT ![b] = left]
     /\ suspended' = [suspended EXCEPT ![b] = @ /\ ~(saw[w] /\ left > 0)]
     /\ credits' = [credits EXCEPT ![t] = @ + 1]
     /\ UNCHANGED <<lockBank, due, key, callVars>>

\* Rolled back: a read or write failed, Redis refused, or five seconds passed.
ReleaseAbort(w) ==
  /\ Faults
  /\ \E from \in Releasing : Goes(w, from, "threw")
  /\ UNCHANGED <<bankVars, lockVars, due, key, callVars>>

-----------------------------------------------------------------------------
(* releaseExpiredLocks *)

\* Five minutes after locking, expires_at is in the past.
LockDue(t) ==
  /\ lockStatus[t] # "NONE" /\ t \notin due
  /\ due' = due \cup {t}
  /\ UNCHANGED <<bankVars, lockVars, key, pc, callVars>>

CallSweep(w) ==
  /\ Goes(w, "idle", "find")
  /\ job' = [job EXCEPT ![w] = "sweep"]
  /\ UNCHANGED <<bankVars, lockVars, due, key, pay, at, saw, todo>>

SweepFind(w) ==
  /\ Goes(w, "find", "mark")
  /\ todo' = [todo EXCEPT ![w] = {t \in due : lockStatus[t] = "ACTIVE"}]
  /\ UNCHANGED <<bankVars, lockVars, due, key, pay, at, saw, job>>

\* Mark the lock EXPIRED, whatever it is by now, then release it.
SweepMark(w, t) ==
  /\ Goes(w, "mark", "rread")
  /\ t \in todo[w]
  /\ \A v \in Workers : ~HoldsLockRow(v, t)
  /\ lockStatus' = [lockStatus EXCEPT ![t] = "EXPIRED"]
  /\ pay' = [pay EXCEPT ![w] = t]
  /\ todo' = [todo EXCEPT ![w] = @ \ {t}]
  /\ UNCHANGED <<bankVars, lockBank, credits, due, key, at, saw, job>>

\* An error on one lock is logged and the loop goes on.
SweepMarkFails(w, t) ==
  /\ Faults /\ pc[w] = "mark" /\ t \in todo[w]
  /\ todo' = [todo EXCEPT ![w] = @ \ {t}]
  /\ UNCHANGED <<bankVars, lockVars, due, key, pc, pay, at, saw, job>>

SweepNext(w) ==
  /\ job[w] = "sweep"
  /\ \E from \in {"ok", "threw"} : Goes(w, from, "mark")
  /\ UNCHANGED <<bankVars, lockVars, due, key, callVars>>

SweepDone(w) ==
  /\ \/ Goes(w, "mark", "idle") /\ todo[w] = {}
     \/ Goes(w, "find", "idle") /\ Faults
  /\ Forget(w)
  /\ UNCHANGED <<bankVars, lockVars, due, key>>

-----------------------------------------------------------------------------
\* The caller takes the result or the exception.
Return(w) ==
  /\ job[w] = "call"
  /\ \E from \in {"ok", "threw"} : Goes(w, from, "idle")
  /\ Forget(w)
  /\ UNCHANGED <<bankVars, lockVars, due, key>>

\* The process dies: its transaction is rolled back, its key stays.
Crash(w) ==
  /\ Crashes /\ pc[w] # "idle"
  /\ pc' = [pc EXCEPT ![w] = "idle"]
  /\ Forget(w)
  /\ UNCHANGED <<bankVars, lockVars, due, key>>

LockStep(w) ==
  \/ TakeKey(w) \/ KeyRefused(w) \/ BankAccepts(w) \/ BankRefuses(w)
  \/ LockCommit(w) \/ LockAbort(w) \/ Tell(w) \/ FreeKey(w) \/ FreeKeyFails(w)

ReleaseStep(w) ==
  ReadLock(w) \/ ReleaseWrite(w) \/ ReleaseCommit(w) \/ ReleaseAbort(w)

SweepStep(w) ==
  \/ SweepFind(w) \/ SweepNext(w) \/ SweepDone(w)
  \/ \E t \in Payments : SweepMark(w, t) \/ SweepMarkFails(w, t)

Step(w) == LockStep(w) \/ ReleaseStep(w) \/ SweepStep(w)

Clock ==
  \/ \E b \in Banks : KeyLapse(b)
  \/ \E t \in Payments : LockDue(t)

Call(w) ==
  \/ \E b \in Banks, t \in Payments : CallLock(w, b, t)
  \/ \E t \in Payments : CallRelease(w, t)
  \/ CallSweep(w)

Next ==
  \/ Clock
  \/ \E w \in Workers : Step(w) \/ Call(w) \/ Return(w) \/ Crash(w)

Spec == Init /\ [][Next]_vars

\* The behaviours in which no two releases of one payment are in flight at once.
Overlap ==
  \E v, w \in Workers :
    v # w /\ pc[v] \in Releasing /\ pc[w] \in Releasing /\ pay[v] = pay[w]

SerialSpec == Init /\ [][Next /\ ~Overlap']_vars
-----------------------------------------------------------------------------
(* Properties *)

TypeOK ==
  /\ used \in [Banks -> Int]
  /\ avail \in [Banks -> Int]
  /\ suspended \in [Banks -> BOOLEAN]
  /\ lockStatus \in [Payments -> {"NONE", "ACTIVE", "RELEASED", "EXPIRED"}]
  /\ lockBank \in [Payments -> Banks \cup {Nobody}]
  /\ credits \in [Payments -> Nat]
  /\ due \in SUBSET Payments
  /\ key \in [Banks -> Workers \cup {Nobody}]
  /\ pc \in [Workers -> PCs]
  /\ pay \in [Workers -> Payments \cup {Nobody}]
  /\ at \in [Workers -> Banks \cup {Nobody}]
  /\ saw \in [Workers -> BOOLEAN]
  /\ todo \in [Workers -> SUBSET Payments]
  /\ job \in [Workers -> {"call", "sweep"}]

\* The two counters of a bank always add up to its limit, however locks,
\* releases, sweeps, rollbacks and lost answers interleave
\* (schema.prisma: available_collateral is limit - used).
Conservation == \A b \in Banks : used[b] + avail[b] = Limit[b]

\* used_collateral is exactly what the lock rows account for: every amount
\* locked, less every amount given back (no increment is lost or half done).
LocksOf(b) == {t \in Payments : lockStatus[t] # "NONE" /\ lockBank[t] = b}
Held == [t \in Payments |-> Amount[t] * (1 - credits[t])]
AccountingExact == \A b \in Banks : used[b] = SumOver(Held, LocksOf(b))

\* Two calls are never between the SET NX and the DEL of one bank's key.
MutualExclusion ==
  \A b \in Banks : \A v, w \in Workers :
    InSection(v, b) /\ InSection(w, b) => v = w

\* A bank never has more locked than its limit: what lockCollateral checked
\* before its writes still holds when it commits.
NoOvercommit == \A b \in Banks : avail[b] >= 0

\* A bank without collateral left is suspended, also while a release that read
\* an older row decides whether to lift the suspension.
FullIsSuspended == \A b \in Banks : avail[b] <= 0 => suspended[b]

\* The status of a lock row tells whether its amount went back to the bank:
\* ACTIVE not yet, RELEASED at least once.
StatusTellsCredit ==
  \A t \in Payments :
    /\ lockStatus[t] \in {"NONE", "ACTIVE"} => credits[t] = 0
    /\ lockStatus[t] = "RELEASED" => credits[t] > 0

\* A payment locks collateral once: its row never becomes ACTIVE again.
LockedOnce ==
  [][\A t \in Payments :
       lockStatus[t] # "NONE" => lockStatus'[t] \in {lockStatus[t], "RELEASED", "EXPIRED"}]_vars

\* Two releases of a payment that do not overlap give its amount back once: the
\* status check at the start of releaseCollateral suffices between them.
CreditOnce == \A t \in Payments : credits[t] <= 1

\* The service implements the ledger.
L == INSTANCE Ledger WITH
       place <- lockBank,
       account <- [t \in Payments |->
                     IF lockStatus[t] = "NONE" THEN "free"
                     ELSE IF credits[t] = 0 THEN "held" ELSE "returned"]

LedgerSpec == L!Spec
=============================================================================
