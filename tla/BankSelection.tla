---------------------------- MODULE BankSelection ---------------------------
(***************************************************************************)
(* collateral/bank-selection.service.ts: selectBestBank looks for the bank *)
(* account with the least collateral that still covers an amount, in a     *)
(* list that Redis keeps for a minute or else in the database, looks at    *)
(* that bank once more, and starts over when it has changed.               *)
(***************************************************************************)
EXTENDS Naturals, Functions

CONSTANTS
  Banks,
  Selections, \* concurrent calls of selectBestBank
  NoBank,     \* not a bank
  Amounts,    \* what is asked for
  Limit,      \* Limit[b]: collateral_limit of bank b
  MaxChanges, \* bound: how often other payments lock or release
  RedisFaults \* TRUE: a Redis call may be rejected

ASSUME SelectionAssumption ==
  /\ NoBank \notin Banks
  /\ Amounts \subseteq Nat \ {0}
  /\ Limit \in [Banks -> Nat \ {0}]
  /\ MaxChanges \in Nat
  /\ RedisFaults \in BOOLEAN

VARIABLES
  avail,     \* bank.available_collateral
  suspended, \* bank.is_suspended
  changes,   \* how many changes there were
  cache,     \* Redis key banks:active
  look,      \* of a call: the await it stands at
  want,      \* of a call: the amount
  known,     \* of a call: the list it chooses from
  choice,    \* of a call: the bank it looks at again
  room       \* history, of a call: ever since it began, some bank could do

bankVars == <<avail, suspended, changes>>
selectVars == <<want, choice, room>>
selectionVars == <<bankVars, cache, look, known, selectVars>>

\* A list of banks: the collateral each was read with.  "for" and "since", the
\* amount it was made for and the changes there had been, are history.
NoList == [left |-> <<>>, for |-> 0, since |-> 0]

Eligible(b, amount) == ~suspended[b] /\ avail[b] >= amount

SelectionInit ==
  /\ avail = Limit
  /\ suspended = [b \in Banks |-> FALSE]
  /\ changes = 0
  /\ cache = NoList
  /\ look = [c \in Selections |-> "idle"]
  /\ want = [c \in Selections |-> 0]
  /\ known = [c \in Selections |-> NoList]
  /\ choice = [c \in Selections |-> NoBank]
  /\ room = [c \in Selections |-> FALSE]

Goes(c, from, to) == look[c] = from /\ look' = [look EXCEPT ![c] = to]

\* The call ends, with a bank or with an exception.
End(c) ==
  /\ want' = [want EXCEPT ![c] = 0]
  /\ known' = [known EXCEPT ![c] = NoList]
  /\ choice' = [choice EXCEPT ![c] = NoBank]
  /\ room' = [room EXCEPT ![c] = FALSE]

\* Mutant: `>` for `<`
MostLeft(banks) ==
  {b \in DOMAIN banks.left : \A o \in DOMAIN banks.left : banks.left[b] >= banks.left[o]}

\* findBestBankForAmount: any of those that leave the least over.
Best(banks) ==
  {b \in DOMAIN banks.left : \A o \in DOMAIN banks.left : banks.left[b] <= banks.left[o]}

\* The call chooses from banks and looks at its choice.
Choose(c, from, banks) ==
  /\ Goes(c, from, "check")
  /\ known' = [known EXCEPT ![c] = banks]
  /\ \E b \in Best(banks) : choice' = [choice EXCEPT ![c] = b]
  /\ UNCHANGED <<want, room>>

\* What of the list covers the amount.
Covering(banks, amount) ==
  [banks EXCEPT !.left = Restrict(@, {b \in DOMAIN @ : @[b] >= amount})]

-----------------------------------------------------------------------------
(* Mutants: bugs this code could have had, each caught by a property below.  *)

\* the database asked only when there is no list at all
TrustingReadCache(c) ==
  \/ Goes(c, "cache", "query") /\ DOMAIN cache.left = {} /\ UNCHANGED <<known, selectVars>>
  \/ /\ Goes(c, "cache", "refused")
     /\ DOMAIN cache.left # {} /\ DOMAIN Covering(cache, want[c]).left = {}
     /\ UNCHANGED <<known, selectVars>>
  \/ DOMAIN Covering(cache, want[c]).left # {} /\ Choose(c, "cache", Covering(cache, want[c]))

\* the list stored without a time to live
KeptForever == FALSE /\ UNCHANGED selectionVars

-----------------------------------------------------------------------------
(* selectBestBank *)

Ask(c, amount) ==
  /\ Goes(c, "idle", "cache")
  /\ want' = [want EXCEPT ![c] = amount]
  /\ room' = [room EXCEPT ![c] = \E b \in Banks : Eligible(b, amount)]
  /\ UNCHANGED <<bankVars, cache, known, choice>>

\* Nothing in the list covers the amount, or Redis refuses, which is caught: the
\* database is asked.
ReadCache(c) ==
  LET found == Covering(cache, want[c])
  IN \/ /\ Goes(c, "cache", "query")
        /\ RedisFaults \/ DOMAIN found.left = {}
        /\ UNCHANGED <<known, selectVars>>
     \/ DOMAIN found.left # {} /\ Choose(c, "cache", found)

LookUp(c) == ReadCache(c) /\ UNCHANGED <<bankVars, cache>>

\* The query names the amount: the list stored next as all active banks has the
\* banks that cover this one.
Query(c) ==
  LET found == {b \in Banks : Eligible(b, want[c])}
  IN /\ IF found = {} THEN Goes(c, "query", "refused") ELSE Goes(c, "query", "store")
     /\ known' = [known EXCEPT ![c] =
                   [left |-> Restrict(avail, found), for |-> want[c], since |-> changes]]
     /\ UNCHANGED <<bankVars, cache, selectVars>>

Store(c) ==
  /\ cache' = known[c]
  /\ Choose(c, "store", known[c])
  /\ UNCHANGED bankVars

\* If Redis refuses, the whole selection fails.
StoreFails(c) ==
  /\ RedisFaults /\ Goes(c, "store", "idle")
  /\ End(c)
  /\ UNCHANGED <<bankVars, cache>>

\* The bank is looked at again; if it no longer covers the amount the selection
\* starts over, with no bound on how often.
Confirm(c) ==
  /\ Goes(c, "check", "idle")
  /\ Eligible(choice[c], want[c])
  /\ End(c)
  /\ UNCHANGED <<bankVars, cache>>

StartOver(c) ==
  /\ look[c] = "check" /\ ~Eligible(choice[c], want[c])
  /\ Goes(c, "check", "cache")
  /\ known' = [known EXCEPT ![c] = NoList]
  /\ choice' = [choice EXCEPT ![c] = NoBank]
  /\ UNCHANGED <<bankVars, cache, want, room>>

\* BankNotAvailableException
Refuse(c) == Goes(c, "refused", "idle") /\ End(c) /\ UNCHANGED <<bankVars, cache>>

-----------------------------------------------------------------------------
(* The rest of the system *)

\* The sixty seconds of banks:active are over.
Lapse ==
  /\ DOMAIN cache.left # {}
  /\ cache' = NoList
  /\ UNCHANGED <<bankVars, look, known, selectVars>>

\* Another payment locks or releases in bank b and leaves it with left.
Change(b, left, full) ==
  /\ changes < MaxChanges /\ left # avail[b]
  /\ avail' = [avail EXCEPT ![b] = left]
  /\ suspended' = [suspended EXCEPT ![b] = full]
  /\ changes' = changes + 1
  /\ room' = [c \in Selections |->
       room[c] /\ \E o \in Banks : ~suspended'[o] /\ avail'[o] >= want[c]]
  /\ UNCHANGED <<cache, look, known, want, choice>>

Locked(b, left) == left < avail[b] /\ ~suspended[b] /\ Change(b, left, left = 0)

\* A release may leave a bank suspended that a lock has filled meanwhile.
Released(b, left) ==
  left > avail[b] /\ \E full \in {FALSE, suspended[b]} : Change(b, left, full)

CallStep(c) ==
  LookUp(c) \/ Query(c) \/ Store(c) \/ StoreFails(c) \/ Confirm(c) \/ StartOver(c) \/ Refuse(c)

SelectionNext ==
  \/ \E c \in Selections : CallStep(c) \/ \E a \in Amounts : Ask(c, a)
  \/ Lapse
  \/ \E b \in Banks : \E left \in 0 .. Limit[b] : Locked(b, left) \/ Released(b, left)

SelectionSpec == SelectionInit /\ [][SelectionNext]_selectionVars

\* Awaited calls settle, and Redis drops the list after its sixty seconds.
SelectionFairness == WF_selectionVars(Lapse) /\ \A c \in Selections : WF_selectionVars(CallStep(c))

SelectionFairSpec == SelectionSpec /\ SelectionFairness

-----------------------------------------------------------------------------
(* Properties *)

\* A list has some of the banks, with what they had left.
IsList(l) ==
  /\ l.left \in [DOMAIN l.left -> Nat] /\ DOMAIN l.left \subseteq Banks
  /\ l.for \in Nat /\ l.since \in 0 .. MaxChanges

SelectionTypeOK ==
  /\ avail \in [Banks -> Nat]
  /\ suspended \in [Banks -> BOOLEAN]
  /\ changes \in 0 .. MaxChanges
  /\ IsList(cache)
  /\ DOMAIN known = Selections /\ \A c \in Selections : IsList(known[c])
  /\ look \in [Selections -> {"idle", "cache", "query", "store", "check", "refused"}]
  /\ want \in [Selections -> Nat]
  /\ choice \in [Selections -> Banks \cup {NoBank}]
  /\ room \in [Selections -> BOOLEAN]

\* A payment is refused for want of a bank only if at some time since it asked
\* no bank could take it, whatever amounts the cached list was made for, and
\* however old it is.
NotRefusedWithRoom == \A c \in Selections : look[c] = "refused" => ~room[c]

\* The bank returned leaves the least over of all, if the list was made for an
\* amount no larger and no bank has changed since.  (Otherwise a bank that was
\* too small for the amount the list was made for is overlooked for a minute.)
LeastWaste ==
  [][\A c \in Selections : Confirm(c) /\ known[c].for <= want[c] /\ known[c].since = changes =>
       \A b \in Banks : Eligible(b, want[c]) => avail[choice[c]] <= avail[b]]_selectionVars

\* A selection ends once the banks no longer change: the list that makes it start
\* over again and again is not there for longer than its minute.
SelectionEnds == \A c \in Selections : []<>(look[c] = "idle")
=============================================================================
