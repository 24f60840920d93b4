-------------------------- MODULE CollateralProofs --------------------------
(***************************************************************************)
(* Theorems about the collateral service for any number of banks,          *)
(* payments and concurrent calls.                                          *)
(***************************************************************************)
EXTENDS Collateral, DataProofs

(***************************************************************************)
(* A call in lockCollateral knows its payment and its bank, a release its  *)
(* payment, and whoever goes on to change a lock has seen its row.  Rows   *)
(* are never deleted, so what was seen stays there.                        *)
(***************************************************************************)
Shape ==
  /\ \A w \in Workers :
       /\ pc[w] \in Section \cup {"take"} => pay[w] \in Payments /\ at[w] \in Banks
       /\ pc[w] \in Releasing => pay[w] \in Payments
       /\ pc[w] \in {"rwrite", "rcommit"} => lockStatus[pay[w]] # "NONE"
       /\ \A t \in todo[w] : lockStatus[t] # "NONE"
  /\ \A t \in Payments : lockStatus[t] # "NONE" => lockBank[t] \in Banks

\* An await that may fail leads to one of two places.
LEMMA AfterCases ==
  ASSUME NEW good, NEW bad, NEW next \in After(good, bad)
  PROVE  next = good \/ next = bad
  BY DEF After

\* No step of a call, of the clock or of a caller breaks the types or the shape.
LEMMA ShapeInductive == TypeOK /\ Shape /\ [Next]_vars => TypeOK' /\ Shape'
<1> SUFFICES ASSUME TypeOK, Shape, [Next]_vars PROVE TypeOK' /\ Shape'
  OBVIOUS
<1> USE NobodyAssumption, MoneyAssumption DEF Goes, Forget, callVars, lockVars, bankVars
<1>1. ASSUME NEW w \in Workers, NEW b \in Banks, NEW t \in Payments, CallLock(w, b, t)
      PROVE  TypeOK' /\ Shape'
  <2>1. TypeOK'
    BY <1>1 DEF CallLock, TypeOK, PCs, Section, Releasing
  <2>2. Shape'
    BY <1>1 DEF CallLock, TypeOK, Shape, PCs, Section, Releasing
  <2> QED BY <2>1, <2>2
<1>2. ASSUME NEW w \in Workers, LockStep(w)
      PROVE  TypeOK' /\ Shape'
  <2>1. CASE TakeKey(w) \/ FreeKey(w)
    <3>1. PICK next \in {"read", "ok", "threw"} :
             /\ pc' = [pc EXCEPT ![w] = next]
             /\ pc[w] \in Section \cup {"take"}
      BY <2>1, AfterCases DEF TakeKey, FreeKey, Section
    <3>2. TypeOK'
      BY <2>1, <3>1 DEF TakeKey, FreeKey, TypeOK, PCs, Section, Releasing
    <3>3. Shape'
      BY <2>1, <3>1 DEF TakeKey, FreeKey, TypeOK, Shape, PCs, Section, Releasing
    <3> QED BY <3>2, <3>3
  <2>2. CASE \/ KeyRefused(w) \/ BankAccepts(w) \/ BankRefuses(w)
             \/ LockAbort(w) \/ Tell(w) \/ FreeKeyFails(w)
    <3>1. PICK next \in PCs \ (Releasing \cup {"take"}) :
             /\ pc' = [pc EXCEPT ![w] = next]
             /\ pc[w] \in Section \cup {"take"}
      BY <2>2, AfterCases DEF KeyRefused, BankAccepts, BankRefuses, LockAbort, Tell,
         FreeKeyFails, PCs, Section, Releasing
    <3>2. UNCHANGED <<bankVars, lockVars, due, key, callVars>>
      BY <2>2 DEF KeyRefused, BankAccepts, BankRefuses, LockAbort, Tell, FreeKeyFails
    <3>3. TypeOK'
      BY <3>1, <3>2 DEF TypeOK
    <3>4. Shape'
      BY <3>1, <3>2 DEF TypeOK, Shape, PCs, Section, Releasing
    <3> QED BY <3>3, <3>4
  <2>3. CASE LockCommit(w)
    <3>1. PICK next \in {"tell", "freeErr"} : pc[w] = "write" /\ pc' = [pc EXCEPT ![w] = next]
      BY <2>3, AfterCases DEF LockCommit
    <3>2. pay[w] \in Payments /\ at[w] \in Banks
      BY <3>1 DEF Shape, Section
    <3>3. TypeOK'
      BY <2>3, <3>1, <3>2 DEF LockCommit, TypeOK, PCs, Section, Releasing
    <3>4. Shape'
      BY <2>3, <3>1, <3>2 DEF LockCommit, TypeOK, Shape, PCs, Section, Releasing
    <3> QED BY <3>3, <3>4
  <2> QED BY <1>2, <2>1, <2>2, <2>3 DEF LockStep
<1>3. ASSUME NEW w \in Workers, ReleaseStep(w)
      PROVE  TypeOK' /\ Shape'
  <2>1. CASE ReadLock(w)
    <3>1. TypeOK'
      BY <2>1 DEF ReadLock, TypeOK, Shape, PCs, Section, Releasing
    <3>2. Shape'
      BY <2>1 DEF ReadLock, TypeOK, Shape, PCs, Section, Releasing
    <3> QED BY <3>1, <3>2
  <2>2. CASE ReleaseWrite(w) \/ ReleaseAbort(w)
    <3>1. TypeOK'
      BY <2>2 DEF ReleaseWrite, ReleaseAbort, TypeOK, PCs, Section, Releasing
    <3>2. Shape'
      BY <2>2 DEF ReleaseWrite, ReleaseAbort, TypeOK, Shape, PCs, Section, Releasing
    <3> QED BY <3>1, <3>2
  <2>3. CASE ReleaseCommit(w)
    <3>1. PICK next \in {"ok", "threw"} : pc[w] = "rcommit" /\ pc' = [pc EXCEPT ![w] = next]
      BY <2>3, AfterCases DEF ReleaseCommit
    <3>2. pay[w] \in Payments /\ lockBank[pay[w]] \in Banks
      BY <3>1 DEF Shape, Releasing
    <3>3. TypeOK'
      BY <2>3, <3>1, <3>2 DEF ReleaseCommit, TypeOK, PCs, Section, Releasing
    <3>4. Shape'
      BY <2>3, <3>1, <3>2 DEF ReleaseCommit, TypeOK, Shape, PCs, Section, Releasing
    <3> QED BY <3>3, <3>4
  <2> QED BY <1>3, <2>1, <2>2, <2>3 DEF ReleaseStep
<1>4. ASSUME NEW w \in Workers, SweepStep(w)
      PROVE  TypeOK' /\ Shape'
  <2>1. CASE SweepFind(w)
    <3>1. TypeOK'
      BY <2>1 DEF SweepFind, TypeOK, PCs, Section, Releasing
    <3>2. Shape'
      BY <2>1 DEF SweepFind, TypeOK, Shape, PCs, Section, Releasing
    <3> QED BY <3>1, <3>2
  <2>2. CASE SweepNext(w) \/ SweepDone(w)
    <3>1. TypeOK'
      BY <2>2 DEF SweepNext, SweepDone, TypeOK, PCs, Section, Releasing
    <3>2. Shape'
      BY <2>2 DEF SweepNext, SweepDone, TypeOK, Shape, PCs, Section, Releasing
    <3> QED BY <3>1, <3>2
  <2>3. ASSUME NEW t \in Payments, SweepMark(w, t) \/ SweepMarkFails(w, t)
        PROVE  TypeOK' /\ Shape'
    <3>1. TypeOK'
      BY <2>3 DEF SweepMark, SweepMarkFails, TypeOK, PCs, Section, Releasing
    <3>2. Shape'
      BY <2>3 DEF SweepMark, SweepMarkFails, TypeOK, Shape, PCs, Section, Releasing
    <3> QED BY <3>1, <3>2
  <2> QED BY <1>4, <2>1, <2>2, <2>3 DEF SweepStep
<1>5. ASSUME NEW w \in Workers,
             CallSweep(w) \/ Return(w) \/ Crash(w) \/ \E t \in Payments : CallRelease(w, t)
      PROVE  TypeOK' /\ Shape'
  <2>1. CASE CallSweep(w)
    <3>1. TypeOK'
      BY <2>1 DEF CallSweep, TypeOK, PCs, Section, Releasing
    <3>2. Shape'
      BY <2>1 DEF CallSweep, TypeOK, Shape, PCs, Section, Releasing
    <3> QED BY <3>1, <3>2
  <2>2. CASE Return(w) \/ Crash(w)
    <3>1. TypeOK'
      BY <2>2 DEF Return, Crash, TypeOK, PCs, Section, Releasing
    <3>2. Shape'
      BY <2>2 DEF Return, Crash, TypeOK, Shape, PCs, Section, Releasing
    <3> QED BY <3>1, <3>2
  <2>3. ASSUME NEW t \in Payments, CallRelease(w, t)
        PROVE  TypeOK' /\ Shape'
    <3>1. TypeOK'
      BY <2>3 DEF CallRelease, TypeOK, PCs, Section, Releasing
    <3>2. Shape'
      BY <2>3 DEF CallRelease, TypeOK, Shape, PCs, Section, Releasing
    <3> QED BY <3>1, <3>2
  <2> QED BY <1>5, <2>1, <2>2, <2>3
<1>6. CASE Clock
  <2>1. TypeOK'
    BY <1>6 DEF Clock, KeyLapse, LockDue, TypeOK
  <2>2. Shape'
    BY <1>6 DEF Clock, KeyLapse, LockDue, TypeOK, Shape
  <2> QED BY <2>1, <2>2
<1>7. CASE UNCHANGED vars
  BY <1>7 DEF vars, TypeOK, Shape
<1> QED
  BY <1>1, <1>2, <1>3, <1>4, <1>5, <1>6, <1>7 DEF Next, Step, Call

\* Every variable keeps its type, and a call's locals are there when it uses them.
THEOREM TypeCorrect == Spec => [](TypeOK /\ Shape)
<1>1. Init => TypeOK /\ Shape
  BY MoneyAssumption DEF Init, TypeOK, Shape, PCs, Section, Releasing
<1> QED
  BY <1>1, ShapeInductive, PTL DEF Spec

-----------------------------------------------------------------------------
(* The counters of a bank *)

\* Only these three steps write the rows of banks and locks.
LEMMA RowWriters ==
  ASSUME [Next]_vars
  PROVE  \/ UNCHANGED <<bankVars, lockVars>>
         \/ \E w \in Workers : LockCommit(w) \/ ReleaseCommit(w)
         \/ \E w \in Workers, t \in Payments : SweepMark(w, t)
<1>1. CASE UNCHANGED vars
  BY <1>1 DEF vars
<1>2. CASE Clock
  BY <1>2 DEF Clock, KeyLapse, LockDue
<1>3. ASSUME NEW w \in Workers, Call(w) \/ Return(w) \/ Crash(w)
      PROVE  UNCHANGED <<bankVars, lockVars>>
  BY <1>3 DEF Call, CallLock, CallRelease, CallSweep, Return, Crash
<1>4. ASSUME NEW w \in Workers, LockStep(w), ~LockCommit(w)
      PROVE  UNCHANGED <<bankVars, lockVars>>
  BY <1>4 DEF LockStep, TakeKey, KeyRefused, BankAccepts, BankRefuses, LockAbort, Tell,
     FreeKey, FreeKeyFails
<1>5. ASSUME NEW w \in Workers, ReleaseStep(w), ~ReleaseCommit(w)
      PROVE  UNCHANGED <<bankVars, lockVars>>
  BY <1>5 DEF ReleaseStep, ReadLock, ReleaseWrite, ReleaseAbort
<1>6. ASSUME NEW w \in Workers, SweepStep(w), \A t \in Payments : ~SweepMark(w, t)
      PROVE  UNCHANGED <<bankVars, lockVars>>
  BY <1>6 DEF SweepStep, SweepFind, SweepNext, SweepDone, SweepMarkFails
<1> QED
  BY <1>1, <1>2, <1>3, <1>4, <1>5, <1>6 DEF Next, Step

Counters == Conservation /\ FullIsSuspended /\ StatusTellsCredit

\* No step makes the counters, the suspension or a lock row's status wrong.
LEMMA CountersInductive ==
  TypeOK /\ Shape /\ Counters /\ [Next]_vars => Counters'
<1> SUFFICES ASSUME TypeOK, Shape, Counters, [Next]_vars PROVE Counters'
  OBVIOUS
<1> USE MoneyAssumption DEF Counters, lockVars, bankVars
<1>1. CASE UNCHANGED <<bankVars, lockVars>>
  BY <1>1 DEF Conservation, FullIsSuspended, StatusTellsCredit
<1>2. ASSUME NEW w \in Workers, LockCommit(w) PROVE Counters'
  <2>1. pay[w] \in Payments /\ at[w] \in Banks
    BY <1>2 DEF LockCommit, Goes, Shape, Section
  <2>2. Conservation'
    BY <1>2, <2>1 DEF LockCommit, TypeOK, Conservation
  <2>3. FullIsSuspended'
    <3> SUFFICES ASSUME NEW b \in Banks, avail'[b] <= 0 PROVE suspended'[b]
      BY DEF FullIsSuspended
    <3>1. CASE b = at[w]
      BY <1>2, <2>1, <3>1 DEF LockCommit, Full, TypeOK
    <3>2. CASE b # at[w]
      BY <1>2, <3>2 DEF LockCommit, TypeOK, FullIsSuspended
    <3> QED BY <3>1, <3>2
  <2>4. StatusTellsCredit'
    BY <1>2, <2>1 DEF LockCommit, NoRow, TypeOK, StatusTellsCredit
  <2> QED BY <2>2, <2>3, <2>4
<1>3. ASSUME NEW w \in Workers, ReleaseCommit(w) PROVE Counters'
  <2>1. pay[w] \in Payments /\ lockBank[pay[w]] \in Banks
    BY <1>3 DEF ReleaseCommit, Goes, Shape, Releasing
  <2>2. Conservation' /\ FullIsSuspended'
    BY <1>3, <2>1 DEF ReleaseCommit, TypeOK, Conservation, FullIsSuspended
  <2>3. StatusTellsCredit'
    BY <1>3, <2>1 DEF ReleaseCommit, TypeOK, StatusTellsCredit
  <2> QED BY <2>2, <2>3
<1>4. ASSUME NEW w \in Workers, NEW t \in Payments, SweepMark(w, t) PROVE Counters'
  BY <1>4 DEF SweepMark, TypeOK, Conservation, FullIsSuspended, StatusTellsCredit
<1> QED
  BY <1>1, <1>2, <1>3, <1>4, RowWriters

\* used_collateral and available_collateral add up to the limit, a bank with
\* nothing left is suspended, and a lock row tells whether its amount went back,
\* whatever interleaves, fails or dies and however long a key is held.
THEOREM CountersCorrect == Spec => [](Conservation /\ FullIsSuspended /\ StatusTellsCredit)
<1>1. Init => Counters
  BY MoneyAssumption DEF Init, Counters, Conservation, FullIsSuspended, StatusTellsCredit
<1> QED
  BY <1>1, TypeCorrect, CountersInductive, PTL DEF Spec, Counters

(***************************************************************************)
(* What a bank has in use, as a sum over its lock rows.  Payments may be   *)
(* infinitely many, rows never are; a commit of a lock puts one summand    *)
(* in, one of a release takes the amount out of one.                       *)
(***************************************************************************)
Rows == {t \in Payments : lockStatus[t] # "NONE"}

Accounts == IsFiniteSet(Rows) /\ AccountingExact

\* The rows of a bank are finitely many and what each holds is an integer.
LEMMA Summable ==
  ASSUME TypeOK, IsFiniteSet(Rows), NEW b \in Banks
  PROVE  /\ IsFiniteSet(LocksOf(b))
         /\ \A t \in LocksOf(b) : Held[t] \in Int
         /\ SumOver(Held, LocksOf(b)) \in Int
<1>1. IsFiniteSet(LocksOf(b))
  BY FS_Subset DEF Rows, LocksOf
<1>2. \A t \in LocksOf(b) : Held[t] \in Int
  BY MoneyAssumption DEF LocksOf, Held, TypeOK
<1> QED
  BY <1>1, <1>2, SumInt

\* Every step keeps the rows finitely many and the sums right.
LEMMA AccountsInductive ==
  TypeOK /\ Shape /\ Counters /\ Accounts /\ [Next]_vars => Accounts'
<1> SUFFICES ASSUME TypeOK, Shape, Counters, Accounts, [Next]_vars PROVE Accounts'
  OBVIOUS
<1> USE DEF Accounts
<1>1. CASE UNCHANGED <<bankVars, lockVars>>
  BY <1>1 DEF AccountingExact, Rows, LocksOf, Held, bankVars, lockVars
<1>2. ASSUME NEW w \in Workers, LockCommit(w) PROVE Accounts'
  <2> DEFINE p == pay[w]  a == at[w]
  <2>1. /\ p \in Payments /\ a \in Banks /\ lockStatus[p] = "NONE"
        /\ lockStatus' = [lockStatus EXCEPT ![p] = "ACTIVE"]
        /\ lockBank' = [lockBank EXCEPT ![p] = a]
        /\ used' = [used EXCEPT ![a] = @ + Amount[p]]
        /\ UNCHANGED credits
    BY <1>2 DEF LockCommit, NoRow, Goes, Shape, Section
  <2>2. credits[p] = 0
    BY <2>1 DEF Counters, StatusTellsCredit
  <2> HIDE DEF p, a
  <2>3. Held' = Held /\ Held[p] = Amount[p] /\ Amount[p] \in Int
    BY <2>1, <2>2, MoneyAssumption DEF Held
  <2>4. Rows' = Rows \cup {p}
    BY <2>1 DEF Rows, TypeOK
  <2>5. IsFiniteSet(Rows')
    BY <2>4, FS_AddElement
  <2>6. ASSUME NEW b \in Banks PROVE used'[b] = SumOver(Held', LocksOf(b)')
    <3>1. CASE b = a
      <4>1. LocksOf(b)' = LocksOf(b) \cup {p} /\ p \notin LocksOf(b)
        BY <2>1, <3>1 DEF LocksOf, TypeOK
      <4>2. SumOver(Held, LocksOf(b) \cup {p}) = SumOver(Held, LocksOf(b)) + Held[p]
        BY <2>3, <4>1, Summable, SumAdd
      <4> QED
        BY <2>1, <2>3, <3>1, <4>1, <4>2 DEF AccountingExact, TypeOK
    <3>2. CASE b # a
      <4>1. LocksOf(b)' = LocksOf(b)
        BY <2>1, <3>2 DEF LocksOf, TypeOK
      <4> QED
        BY <2>1, <2>3, <3>2, <4>1 DEF AccountingExact, TypeOK
    <3> QED BY <3>1, <3>2
  <2> QED
    BY <2>5, <2>6 DEF AccountingExact
<1>3. ASSUME NEW w \in Workers, ReleaseCommit(w) PROVE Accounts'
  <2> DEFINE p == pay[w]  a == lockBank[p]
  <2>1. /\ p \in Payments /\ lockStatus[p] # "NONE" /\ a \in Banks
        /\ lockStatus' = [lockStatus EXCEPT ![p] = "RELEASED"]
        /\ used' = [used EXCEPT ![a] = @ - Amount[p]]
        /\ credits' = [credits EXCEPT ![p] = @ + 1]
        /\ UNCHANGED lockBank
    BY <1>3 DEF ReleaseCommit, Goes, Shape, Releasing
  <2>2. p \in LocksOf(a)
    BY <2>1 DEF LocksOf
  <2> HIDE DEF p, a
  <2>3. Rows' = Rows /\ \A b \in Banks : LocksOf(b)' = LocksOf(b)
    BY <2>1 DEF Rows, LocksOf, TypeOK
  <2>4. \A t \in Payments : t # p => Held'[t] = Held[t]
    BY <2>1 DEF Held, TypeOK
  <2>5. /\ Amount[p] \in Int /\ credits[p] \in Int
        /\ Held[p] = Amount[p] * (1 - credits[p])
        /\ Held'[p] = Amount[p] * (1 - (credits[p] + 1))
    <3>1. credits'[p] = credits[p] + 1 /\ credits[p] \in Int /\ Amount[p] \in Int
      <4>1. credits \in [Payments -> Nat] /\ Amount \in [Payments -> Nat \ {0}]
        BY MoneyAssumption DEF TypeOK
      <4>2. p \in Payments /\ credits' = [credits EXCEPT ![p] = @ + 1]
        BY <2>1
      <4>3. credits[p] \in Nat /\ Amount[p] \in Nat
        BY <4>1, <4>2
      <4> QED
        BY <4>1, <4>2, <4>3
    <3>2. Held[p] = Amount[p] * (1 - credits[p]) /\ Held'[p] = Amount[p] * (1 - credits'[p])
      BY <2>1 DEF Held
    <3> QED
      BY <3>1, <3>2
  <2>6. Held[p] \in Int /\ Held'[p] \in Int /\ Held'[p] - Held[p] = -Amount[p]
    <3>1. \A m, c \in Int : /\ m * (1 - c) \in Int /\ m * (1 - (c + 1)) \in Int
                           /\ m * (1 - (c + 1)) - m * (1 - c) = -m
      OBVIOUS
    <3> QED
      BY <2>5, <3>1
  <2>7. ASSUME NEW b \in Banks PROVE used'[b] = SumOver(Held', LocksOf(b)')
    <3>1. IsFiniteSet(LocksOf(b)) /\ \A t \in LocksOf(b) : t \in Payments /\ Held[t] \in Int
      BY Summable DEF LocksOf
    <3>2. CASE b = a
      <4>1. SumOver(Held', LocksOf(b)) = SumOver(Held, LocksOf(b)) + (Held'[p] - Held[p])
        BY <2>2, <2>4, <2>6, <3>1, <3>2, SumChange
      <4> QED
        BY <2>1, <2>3, <2>5, <2>6, <3>2, <4>1, Summable DEF AccountingExact, TypeOK
    <3>3. CASE b # a
      <4>1. p \notin LocksOf(b)
        BY <2>2, <3>3 DEF LocksOf
      <4>2. SumOver(Held', LocksOf(b)) = SumOver(Held, LocksOf(b))
        BY <2>4, <3>1, <4>1, SumSame
      <4> QED
        BY <2>1, <2>3, <3>3, <4>2 DEF AccountingExact, TypeOK
    <3> QED BY <3>2, <3>3
  <2> QED
    BY <2>3, <2>7 DEF AccountingExact
<1>4. ASSUME NEW w \in Workers, NEW t \in Payments, SweepMark(w, t) PROVE Accounts'
  <2>1. lockStatus[t] # "NONE" /\ lockStatus' = [lockStatus EXCEPT ![t] = "EXPIRED"]
        /\ UNCHANGED <<used, lockBank, credits>>
    BY <1>4 DEF SweepMark, Shape, bankVars
  <2>2. Rows' = Rows /\ Held' = Held /\ \A b \in Banks : LocksOf(b)' = LocksOf(b)
    BY <2>1 DEF Rows, Held, LocksOf, TypeOK
  <2> QED
    BY <2>1, <2>2 DEF AccountingExact
<1> QED
  BY <1>1, <1>2, <1>3, <1>4, RowWriters

\* used_collateral of a bank is the sum of what its lock rows hold, for any
\* number of payments and whatever interleaves, fails or dies.
THEOREM AccountingCorrect == Spec => []AccountingExact
<1>1. Init => Counters
  BY MoneyAssumption DEF Init, Counters, Conservation, FullIsSuspended, StatusTellsCredit
<1>2. Init => Accounts
  <2> SUFFICES ASSUME Init PROVE Accounts
    OBVIOUS
  <2>1. Rows = {} /\ \A b \in Banks : LocksOf(b) = {}
    BY DEF Init, Rows, LocksOf
  <2> QED
    BY <2>1, FS_EmptySet, SumEmpty DEF Init, Accounts, AccountingExact
<1> QED
  BY <1>1, <1>2, TypeCorrect, CountersInductive, AccountsInductive, PTL DEF Spec, Accounts

\* No step makes a row ACTIVE that is there already.
LEMMA RowsMoveOn ==
  ASSUME TypeOK, [Next]_vars, NEW t \in Payments, lockStatus[t] # "NONE"
  PROVE  lockStatus'[t] \in {lockStatus[t], "RELEASED", "EXPIRED"} /\ lockBank'[t] = lockBank[t]
<1>1. CASE UNCHANGED <<bankVars, lockVars>>
  BY <1>1 DEF lockVars
<1>2. ASSUME NEW w \in Workers, LockCommit(w) \/ ReleaseCommit(w)
      PROVE  /\ lockStatus'[t] \in {lockStatus[t], "RELEASED", "EXPIRED"}
             /\ lockBank'[t] = lockBank[t]
  BY <1>2 DEF LockCommit, NoRow, ReleaseCommit, TypeOK
<1>3. ASSUME NEW w \in Workers, NEW s \in Payments, SweepMark(w, s)
      PROVE  /\ lockStatus'[t] \in {lockStatus[t], "RELEASED", "EXPIRED"}
             /\ lockBank'[t] = lockBank[t]
  BY <1>3 DEF SweepMark, TypeOK
<1> QED
  BY <1>1, <1>2, <1>3, RowWriters

\* A payment that has a lock row never gets another: the row only moves on.
THEOREM LockedOnceCorrect == Spec => LockedOnce
<1>1. TypeOK /\ Shape /\ [Next]_vars =>
        \A t \in Payments :
          lockStatus[t] # "NONE" => lockStatus'[t] \in {lockStatus[t], "RELEASED", "EXPIRED"}
  BY RowsMoveOn
<1> QED
  BY <1>1, TypeCorrect, PTL DEF Spec, LockedOnce

-----------------------------------------------------------------------------
(***************************************************************************)
(* The Redis key.  Provided that no call outlives its key, the key of a    *)
(* bank names the call that is in the bank's section, so the available     *)
(* collateral which that call compared with its amount can only have grown *)
(* when it commits.                                                        *)
(***************************************************************************)
Keyed == \A w \in Workers : pc[w] \in Section => key[at[w]] = w

Checked == \A w \in Workers : pc[w] = "write" => avail[at[w]] >= Amount[pay[w]]

Guarded == Keyed /\ Checked /\ NoOvercommit

\* While keys outlive their holders, each step leaves the key with the call that
\* took it and the bank's collateral with what that call saw, or more.
LEMMA GuardedInductive ==
  ASSUME SlowAt = {}
  PROVE  TypeOK /\ Shape /\ Guarded /\ [Next]_vars => Guarded'
<1> SUFFICES ASSUME TypeOK, Shape, Guarded, [Next]_vars PROVE Guarded'
  OBVIOUS
<1> USE MoneyAssumption, NobodyAssumption DEF Goes, Guarded, lockVars, bankVars, callVars
<1>1. ASSUME NEW w \in Workers, LockCommit(w) PROVE Guarded'
  <2>1. PICK next \in {"tell", "freeErr"} : pc[w] = "write" /\ pc' = [pc EXCEPT ![w] = next]
    BY <1>1, AfterCases DEF LockCommit
  <2>2. pay[w] \in Payments /\ at[w] \in Banks
    BY <2>1 DEF Shape, Section
  <2>3. \A v \in Workers : pc[v] = "write" /\ at[v] = at[w] => v = w
    BY <2>1 DEF Keyed, Section
  <2>4. Keyed'
    BY <1>1, <2>1 DEF LockCommit, Keyed, TypeOK, Section
  <2>5. Checked'
    BY <1>1, <2>1, <2>2, <2>3 DEF LockCommit, Checked, TypeOK, Shape, Section
  <2>6. NoOvercommit'
    BY <1>1, <2>1, <2>2 DEF LockCommit, Checked, NoOvercommit, TypeOK
  <2> QED BY <2>4, <2>5, <2>6
<1>2. ASSUME NEW w \in Workers, ReleaseCommit(w) PROVE Guarded'
  <2>1. PICK next \in {"ok", "threw"} : pc[w] = "rcommit" /\ pc' = [pc EXCEPT ![w] = next]
    BY <1>2, AfterCases DEF ReleaseCommit
  <2>2. pay[w] \in Payments /\ lockBank[pay[w]] \in Banks
    BY <2>1 DEF Shape, Releasing
  <2>3. Keyed'
    BY <1>2, <2>1 DEF ReleaseCommit, Keyed, TypeOK, Section
  <2>4. Checked' /\ NoOvercommit'
    BY <1>2, <2>1, <2>2 DEF ReleaseCommit, Checked, NoOvercommit, TypeOK, Shape, Section
  <2> QED BY <2>3, <2>4
<1>3. ASSUME NEW w \in Workers, TakeKey(w) \/ FreeKey(w) PROVE Guarded'
  <2>1. PICK next \in {"read", "ok", "threw"} :
           /\ pc' = [pc EXCEPT ![w] = next]
           /\ pc[w] \in Section \cup {"take"}
    BY <1>3, AfterCases DEF TakeKey, FreeKey, Section
  <2>2. pay[w] \in Payments /\ at[w] \in Banks
    BY <2>1 DEF Shape
  <2>3. Keyed'
    <3>1. CASE TakeKey(w)
      BY <2>1, <2>2, <3>1 DEF TakeKey, Keyed, TypeOK, Shape, Section
    <3>2. CASE FreeKey(w)
      BY <2>2, <3>2 DEF FreeKey, Keyed, TypeOK, Shape, Section
    <3> QED BY <1>3, <3>1, <3>2
  <2>4. Checked' /\ NoOvercommit'
    BY <1>3, <2>1 DEF TakeKey, FreeKey, Checked, NoOvercommit, TypeOK
  <2> QED BY <2>3, <2>4
<1>4. ASSUME NEW w \in Workers,
             \/ KeyRefused(w) \/ BankAccepts(w) \/ BankRefuses(w)
             \/ LockAbort(w) \/ Tell(w) \/ FreeKeyFails(w)
      PROVE  Guarded'
  <2>1. Keyed'
    BY <1>4, AfterCases DEF KeyRefused, BankAccepts, BankRefuses, LockAbort, Tell,
       FreeKeyFails, Keyed, TypeOK, Section
  <2>2. Checked' /\ NoOvercommit'
    BY <1>4, AfterCases DEF KeyRefused, BankAccepts, BankRefuses, LockAbort, Tell,
       FreeKeyFails, Checked, NoOvercommit, TypeOK
  <2> QED BY <2>1, <2>2
<1>5. ASSUME NEW w \in Workers, ReadLock(w) \/ ReleaseWrite(w) \/ ReleaseAbort(w)
      PROVE  Guarded'
  <2>1. Keyed'
    BY <1>5 DEF ReadLock, ReleaseWrite, ReleaseAbort, Keyed, TypeOK, Section, Releasing
  <2>2. Checked' /\ NoOvercommit'
    BY <1>5 DEF ReadLock, ReleaseWrite, ReleaseAbort, Checked, NoOvercommit, TypeOK, Releasing
  <2> QED BY <2>1, <2>2
<1>6. ASSUME NEW w \in Workers, SweepStep(w) PROVE Guarded'
  <2>1. ASSUME NEW t \in Payments, SweepMark(w, t) \/ SweepMarkFails(w, t) PROVE Guarded'
    BY <2>1 DEF SweepMark, SweepMarkFails, Keyed, Checked, NoOvercommit, TypeOK, Section
  <2>2. CASE SweepFind(w) \/ SweepNext(w)
    BY <2>2 DEF SweepFind, SweepNext, Keyed, Checked, NoOvercommit, TypeOK, Section
  <2>3. CASE SweepDone(w)
    BY <2>3 DEF SweepDone, Forget, Keyed, Checked, NoOvercommit, TypeOK, Section
  <2> QED BY <1>6, <2>1, <2>2, <2>3 DEF SweepStep
<1>7. ASSUME NEW w \in Workers, Call(w) PROVE Guarded'
  <2>1. ASSUME NEW b \in Banks, NEW t \in Payments, CallLock(w, b, t) PROVE Guarded'
    BY <2>1 DEF CallLock, Keyed, Checked, NoOvercommit, TypeOK, Section
  <2>2. ASSUME NEW t \in Payments, CallRelease(w, t) PROVE Guarded'
    BY <2>2 DEF CallRelease, Keyed, Checked, NoOvercommit, TypeOK, Section
  <2>3. CASE CallSweep(w)
    BY <2>3 DEF CallSweep, Keyed, Checked, NoOvercommit, TypeOK, Section
  <2> QED BY <1>7, <2>1, <2>2, <2>3 DEF Call
<1>8. ASSUME NEW w \in Workers, Return(w) \/ Crash(w) PROVE Guarded'
  BY <1>8 DEF Return, Crash, Forget, Keyed, Checked, NoOvercommit, TypeOK, Section
<1>9. CASE Clock
  <2>1. ASSUME NEW b \in Banks, KeyLapse(b) PROVE Guarded'
    BY <2>1, SlowAt = {} DEF KeyLapse, InSection, Keyed, Checked, NoOvercommit, TypeOK, Shape, Section
  <2>2. ASSUME NEW t \in Payments, LockDue(t) PROVE Guarded'
    BY <2>2 DEF LockDue, Keyed, Checked, NoOvercommit
  <2> QED BY <1>9, <2>1, <2>2 DEF Clock
<1>10. CASE UNCHANGED vars
  BY <1>10 DEF vars, Keyed, Checked, NoOvercommit
<1> QED
  BY <1>1, <1>2, <1>3, <1>4, <1>5, <1>6, <1>7, <1>8, <1>9, <1>10
     DEF Next, Step, LockStep, ReleaseStep

\* So it is in every state of a run in which keys outlive their holders.
LEMMA AlwaysGuarded ==
  ASSUME SlowAt = {}
  PROVE  Spec => []Guarded
<1>1. Init => Guarded
  BY MoneyAssumption DEF Init, Guarded, Keyed, Checked, NoOvercommit, Section
<1> QED
  BY <1>1, TypeCorrect, GuardedInductive, PTL DEF Spec

\* If no call outlives its key, two calls never work on one bank's collateral at
\* once, and no bank ever has more locked than its limit.
THEOREM OvercommitExcluded ==
  ASSUME SlowAt = {}
  PROVE  Spec => []MutualExclusion /\ []NoOvercommit
<1>1. Guarded => MutualExclusion /\ NoOvercommit
  BY DEF Guarded, Keyed, MutualExclusion, InSection
<1> QED
  BY <1>1, AlwaysGuarded, PTL

-----------------------------------------------------------------------------
(***************************************************************************)
(* The ledger.  When the releases of a payment do not overlap, one that    *)
(* has found its lock ACTIVE is the only one, and nothing was given back   *)
(* before it commits.                                                      *)
(***************************************************************************)
NextSerial == Next /\ ~Overlap'

Unspent == \A w \in Workers : pc[w] \in {"rwrite", "rcommit"} => credits[pay[w]] = 0

Serial == Unspent /\ CreditOnce /\ ~Overlap

\* A step that starts no overlapping release leaves a release that found its lock
\* ACTIVE the only one, with nothing given back yet.
LEMMA SerialInductive ==
  TypeOK /\ Shape /\ Counters /\ Serial /\ [NextSerial]_vars => Serial'
<1> SUFFICES ASSUME TypeOK, Shape, Counters, Serial, [NextSerial]_vars PROVE Serial'
  OBVIOUS
<1> USE NobodyAssumption DEF Goes, Serial, lockVars, bankVars, callVars
<1>1. ~Overlap'
  BY DEF NextSerial, Overlap, vars
<1>2. [Next]_vars
  BY DEF NextSerial
<1>3. ASSUME NEW w \in Workers, ReleaseCommit(w) PROVE Unspent' /\ CreditOnce'
  <2>1. PICK next \in {"ok", "threw"} : pc[w] = "rcommit" /\ pc' = [pc EXCEPT ![w] = next]
    BY <1>3, AfterCases DEF ReleaseCommit
  <2>2. pay[w] \in Payments /\ credits[pay[w]] = 0
    BY <2>1 DEF Shape, Releasing, Unspent
  <2>3. \A v \in Workers : pc[v] \in Releasing /\ pay[v] = pay[w] => v = w
    BY <2>1 DEF Overlap, Releasing
  <2>4. Unspent'
    BY <1>3, <2>1, <2>2, <2>3 DEF ReleaseCommit, Unspent, TypeOK, Shape, Releasing
  <2>5. CreditOnce'
    BY <1>3, <2>2 DEF ReleaseCommit, CreditOnce, TypeOK
  <2> QED BY <2>4, <2>5
<1>4. ASSUME UNCHANGED credits PROVE CreditOnce'
  BY <1>4 DEF CreditOnce
<1>5. ASSUME NEW w \in Workers, ReadLock(w) PROVE Unspent' /\ CreditOnce'
  <2>1. Unspent'
    BY <1>5 DEF ReadLock, Unspent, Counters, StatusTellsCredit, TypeOK, Shape, Releasing
  <2> QED BY <1>4, <1>5, <2>1 DEF ReadLock
<1>6. ASSUME NEW w \in Workers, ReleaseWrite(w) \/ ReleaseAbort(w) PROVE Unspent' /\ CreditOnce'
  <2>1. Unspent'
    BY <1>6 DEF ReleaseWrite, ReleaseAbort, Unspent, TypeOK
  <2> QED BY <1>4, <1>6, <2>1 DEF ReleaseWrite, ReleaseAbort
<1>7. ASSUME NEW w \in Workers, LockStep(w) PROVE Unspent' /\ CreditOnce'
  <2>1. UNCHANGED <<credits, pay>>
    BY <1>7 DEF LockStep, TakeKey, KeyRefused, BankAccepts, BankRefuses, LockCommit,
       LockAbort, Tell, FreeKey, FreeKeyFails
  <2>2. \E next \in PCs \ Releasing : pc' = [pc EXCEPT ![w] = next]
    BY <1>7, AfterCases DEF LockStep, TakeKey, KeyRefused, BankAccepts, BankRefuses,
       LockCommit, LockAbort, Tell, FreeKey, FreeKeyFails, PCs, Section, Releasing
  <2> QED BY <1>4, <2>1, <2>2 DEF Unspent, TypeOK, Releasing
<1>8. ASSUME NEW w \in Workers, SweepStep(w) PROVE Unspent' /\ CreditOnce'
  <2>1. ASSUME NEW t \in Payments, SweepMark(w, t) \/ SweepMarkFails(w, t)
        PROVE  Unspent' /\ UNCHANGED credits
    BY <2>1 DEF SweepMark, SweepMarkFails, Unspent, TypeOK
  <2>2. CASE SweepFind(w) \/ SweepNext(w)
    BY <1>4, <2>2 DEF SweepFind, SweepNext, Unspent, TypeOK
  <2>3. CASE SweepDone(w)
    BY <1>4, <2>3 DEF SweepDone, Forget, Unspent, TypeOK
  <2> QED BY <1>4, <1>8, <2>1, <2>2, <2>3 DEF SweepStep
<1>9. ASSUME NEW w \in Workers, Call(w) PROVE Unspent' /\ CreditOnce'
  <2>1. ASSUME NEW b \in Banks, NEW t \in Payments, CallLock(w, b, t)
        PROVE  Unspent' /\ UNCHANGED credits
    BY <2>1 DEF CallLock, Unspent, TypeOK
  <2>2. ASSUME NEW t \in Payments, CallRelease(w, t) PROVE Unspent' /\ UNCHANGED credits
    BY <2>2 DEF CallRelease, Unspent, TypeOK
  <2>3. CASE CallSweep(w)
    BY <1>4, <2>3 DEF CallSweep, Unspent, TypeOK
  <2> QED BY <1>4, <1>9, <2>1, <2>2, <2>3 DEF Call
<1>10. ASSUME NEW w \in Workers, Return(w) \/ Crash(w) PROVE Unspent' /\ CreditOnce'
  BY <1>4, <1>10 DEF Return, Crash, Forget, Unspent, TypeOK
<1>11. ASSUME Clock PROVE Unspent' /\ CreditOnce'
  BY <1>4, <1>11 DEF Clock, KeyLapse, LockDue, Unspent
<1>12. ASSUME UNCHANGED vars PROVE Unspent' /\ CreditOnce'
  BY <1>4, <1>12 DEF vars, Unspent
<1> QED
  BY <1>1, <1>2, <1>3, <1>5, <1>6, <1>7, <1>8, <1>9, <1>10, <1>11, <1>12
     DEF Next, Step, ReleaseStep

\* So it is in every state of a run without overlapping releases.
LEMMA AlwaysSerial == SerialSpec => [](TypeOK /\ Shape /\ Counters /\ Serial)
<1>1. Init => TypeOK /\ Shape
  BY MoneyAssumption DEF Init, TypeOK, Shape, PCs, Section, Releasing
<1>2. Init => Counters
  BY MoneyAssumption DEF Init, Counters, Conservation, FullIsSuspended, StatusTellsCredit
<1>3. Init => Serial
  BY DEF Init, Serial, Unspent, CreditOnce, Overlap, Releasing
<1>4. [NextSerial]_vars => [Next]_vars
  BY DEF NextSerial
<1> QED
  BY <1>1, <1>2, <1>3, <1>4, ShapeInductive, CountersInductive, SerialInductive, PTL
     DEF SerialSpec, NextSerial

\* Releases of a payment that do not overlap give its amount back at most once.
THEOREM CreditOnceCorrect == SerialSpec => []CreditOnce
  BY AlwaysSerial, PTL DEF Serial

\* The service without overlapping releases and overrun keys is a ledger: a lock
\* that commits reserves within the limit, a release that commits gives back, and
\* no other step changes an account.
THEOREM ImplementsLedger ==
  ASSUME SlowAt = {}
  PROVE  SerialSpec => LedgerSpec
<1> DEFINE account == [t \in Payments |->
                         IF lockStatus[t] = "NONE" THEN "free"
                         ELSE IF credits[t] = 0 THEN "held" ELSE "returned"]
<1>1. Init => L!Init
  BY DEF Init, L!Init
<1>2. ASSUME TypeOK, Shape, Counters, Guarded, Serial, [NextSerial]_vars
      PROVE  [L!Next]_(L!vars)
  <2> USE <1>2, MoneyAssumption DEF lockVars, bankVars
  <2>1. CASE UNCHANGED <<bankVars, lockVars>>
    BY <2>1 DEF L!vars
  <2>2. ASSUME NEW w \in Workers, LockCommit(w)
        PROVE  L!Next
    <3>1. pc[w] = "write" /\ pay[w] \in Payments /\ at[w] \in Banks
      BY <2>2 DEF LockCommit, Goes, Shape, Section
    <3>2. used[at[w]] + Amount[pay[w]] <= Limit[at[w]]
      BY <3>1 DEF Guarded, Checked, Counters, Conservation, TypeOK
    <3>3. credits[pay[w]] = 0
      BY <2>2, <3>1 DEF LockCommit, NoRow, Counters, StatusTellsCredit
    <3>4. account' = [account EXCEPT ![pay[w]] = "held"]
      BY <2>2, <3>1, <3>3 DEF LockCommit, TypeOK
    <3>5. account[pay[w]] = "free"
      BY <2>2, <3>1 DEF LockCommit, NoRow
    <3> QED
      BY <2>2, <3>1, <3>2, <3>4, <3>5 DEF LockCommit, L!Next, L!Reserve
  <2>3. ASSUME NEW w \in Workers, ReleaseCommit(w)
        PROVE  L!Next
    <3>1. pc[w] = "rcommit" /\ pay[w] \in Payments
      BY <2>3 DEF ReleaseCommit, Goes, Shape, Releasing
    <3>2. lockStatus[pay[w]] # "NONE" /\ credits[pay[w]] = 0
      BY <3>1 DEF Shape, Serial, Unspent
    <3>3. /\ lockStatus' = [lockStatus EXCEPT ![pay[w]] = "RELEASED"]
          /\ credits' = [credits EXCEPT ![pay[w]] = 1]
      BY <2>3, <3>1, <3>2 DEF ReleaseCommit, TypeOK
    <3>4. \A t \in Payments :
             account'[t] = IF t = pay[w] THEN "returned" ELSE account[t]
      BY <3>1, <3>2, <3>3 DEF TypeOK
    <3>5. account' = [account EXCEPT ![pay[w]] = "returned"]
      BY <3>4
    <3> QED
      BY <2>3, <3>1, <3>2, <3>5 DEF ReleaseCommit, L!Next, L!GiveBack
  <2>4. ASSUME NEW w \in Workers, NEW t \in Payments, SweepMark(w, t)
        PROVE  UNCHANGED <<used, account, lockBank>>
    <3>1. lockStatus[t] # "NONE"
      BY <2>4 DEF SweepMark, Shape
    <3> QED
      BY <2>4, <3>1 DEF SweepMark, TypeOK
  <2>5. [Next]_vars
    BY DEF NextSerial
  <2>6. CASE \E w \in Workers : LockCommit(w) \/ ReleaseCommit(w)
    BY <2>2, <2>3, <2>6
  <2>7. CASE \E w \in Workers, t \in Payments : SweepMark(w, t)
    BY <2>4, <2>7 DEF L!vars
  <2> QED
    BY <2>1, <2>5, <2>6, <2>7, RowWriters
<1>3. [NextSerial]_vars => [Next]_vars
  BY DEF NextSerial
<1>4. SerialSpec => []Guarded
  BY <1>3, AlwaysGuarded, PTL DEF SerialSpec, Spec, NextSerial
<1> QED
  BY <1>1, <1>2, <1>4, AlwaysSerial, PTL DEF SerialSpec, NextSerial, LedgerSpec, L!Spec
=============================================================================
