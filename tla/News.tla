-------------------------------- MODULE News --------------------------------
(***************************************************************************)
(* How the news of one payment travels: the handlers of the backend write  *)
(* its row, its two Redis keys and its collateral lock and publish on Redis *)
(* channels; the three WebSocket gateways take the messages from the        *)
(* channels and tell the sockets of the payment's or the owner's room, or   *)
(* every administrator.  One watcher looks on; what it makes of it is in    *)
(* Watchers.  Messages on channels the watcher's gateway does nothing with  *)
(* are left out.                                                            *)
(*                                                                         *)
(* A handler is the sequence of effects its source makes one after the     *)
(* other, each awaited (Effects).                                          *)
(***************************************************************************)
EXTENDS Naturals, Sequences, FiniteSets

CONSTANTS
  Kinds,    \* the kinds of watcher a behaviour may have
  Troubles, \* bound: rejected calls and broken connections
  Underway, \* bound: messages between Redis and the gateway
  AtOnce    \* bound: requests at work when one more begins, a handler's until its
            \* messages are passed on

ASSUME NewsAssumption ==
  /\ Kinds \subseteq {"subscriber", "widget", "page", "caller", "admin", "owner"}
  /\ Troubles \in Nat /\ Underway \in Nat \ {0} /\ AtOnce \in Nat \ {0}

VARIABLES
  kind,      \* of the watcher
  status,    \* transaction.status, "NONE" before the row is inserted
  lock,      \* collateral_lock.status, "NONE" while there is no row
  todo,      \* of a handler: the effects it has still to make
  cached,    \* payment:<id> in Redis: "none", a status, or "text" that is no object
  coded,     \* is there a payment:code:<code> in Redis?
  bus,       \* messages on their way from Redis to the gateway
  casts,     \* of a message being passed on: "none", "unread" or the status read for it
  room,      \* is the watcher's socket in its room?
  get,       \* of the watcher's GET: where it stands
  link,      \* the watcher's socket: "off", "up", "down", "gone"
  troubles,  \* rejected calls and broken connections left
  known,     \* has the merchant the answer of createPayment?
  been,      \* history: the statuses the row has had
  decider,   \* history: the handler that ended the payment
  overlapped \* history: have two messages been passed on at once?

rowVars == <<status, lock, been, decider>>
redisVars == <<cached, coded, bus>>
newsVars == <<kind, status, lock, todo, cached, coded, bus, casts, room, get,
              link, troubles, known, been, decider, overlapped>>

Ends == {"APPROVED", "REJECTED", "EXPIRED"}
Statuses == {"PENDING", "WAITING"} \cup Ends
Handlers == {"create", "confirm", "admin", "owner", "timeout", "expire", "orphan", "notice"}
Customers == {"subscriber", "widget", "page"}

\* What the gateway of the watcher's namespace does something with.
CustomerChannels == {"payment:approved", "payment:rejected", "payment:expired",
                     "collateral:locked"}
OwnerChannels == {"payment:customer-confirmed", "payment:bank-owner-approved",
                  "payment:bank-owner-rejected", "payment:approval-timeout"}
AdminChannels == CustomerChannels \cup
                 {"collateral:released", "bank:suspended", "bank:reactivated"}
\* What a handler does one after the other; a channel stands for a publish on it.
Effects == AdminChannels \cup OwnerChannels \cup
  {"lock", "set", "setCode", "answer", "release", "commit", "reject", "expire", "del", "delCode"}
Heeds(c) ==
  \/ kind \in Customers /\ c \in CustomerChannels
  \/ kind = "owner" /\ c \in OwnerChannels
  \/ kind = "admin" /\ c \in AdminChannels

\* Effects no watcher of this kind can tell from their absence are left out: the
\* keys matter to who asks, the lock to who hears of it.
Matters(e) ==
  /\ e \in AdminChannels \cup OwnerChannels => Heeds(e)
  /\ e \in {"set", "del"} => kind \in {"widget", "page", "caller"}
  /\ e \in {"setCode", "delCode"} => kind = "caller"
  /\ e \in {"lock", "release"} => kind = "admin"

\* An effect in a handler's list, if it matters.
Kept(e) == IF Matters(e) THEN <<e>> ELSE <<>>

NewsInit ==
  /\ kind \in Kinds
  /\ status = "NONE" /\ lock = "NONE"
  /\ todo = [h \in Handlers |-> <<>>]
  /\ cached = "none" /\ coded = FALSE
  /\ bus = <<>>
  /\ casts = [h \in Handlers \cup {"join"} |-> "none"]
  /\ room = FALSE
  /\ get = "idle"
  /\ link = "off"
  /\ troubles = Troubles
  /\ known = FALSE
  /\ been = {} /\ decider = "none" /\ overlapped = FALSE

-----------------------------------------------------------------------------
(* Mutants: bugs this code could have had, each caught by a property below.  *)

\* the owner's refusal told only to the owner
QuietOwnerTells(new) ==
  (IF new = "APPROVED" THEN Kept("payment:approved") \o Kept("payment:bank-owner-approved")
   ELSE Kept("payment:bank-owner-rejected"))
  \o Kept("release")

\* the key set without a time to live
EternalLapsing == {"text"}

\* the status taken from the channel the message came on
CastOfChannel(c) ==
  CASE c = "payment:approved" -> "APPROVED"
    [] c = "payment:rejected" -> "REJECTED"
    [] OTHER -> "EXPIRED"

\* no first status for a socket that joins
SilentFirstStatus == "none"

\* a text taken for a payment
FormattedAnyway(value) == value

-----------------------------------------------------------------------------
(* The handlers                                                              *)

CreateTells ==
  Kept("lock") \o Kept("collateral:locked") \o Kept("set") \o Kept("setCode") \o Kept("answer")
ConfirmTells == Kept("payment:customer-confirmed") \o Kept("payment:approved")
AdminTells == Kept("release") \o Kept("set")
OwnerTells(new) ==
  (IF new = "APPROVED" THEN Kept("payment:approved") \o Kept("payment:bank-owner-approved")
   ELSE Kept("payment:rejected") \o Kept("payment:bank-owner-rejected"))
  \o Kept("release")
TimeoutTells ==
  Kept("reject") \o Kept("payment:rejected") \o Kept("payment:approval-timeout") \o Kept("release")
ExpireTells ==
  Kept("expire") \o Kept("release") \o Kept("del") \o Kept("delCode") \o Kept("payment:expired")
OrphanTells == Kept("release")
ReleaseTells == <<"collateral:released", "commit">>

\* The row gets a status, by handler h.
Becomes(new, h) ==
  /\ status' = new
  /\ been' = been \cup {new}
  /\ decider' = IF new \in Ends THEN h ELSE decider

AtWork(h) ==
  \/ todo[h] # <<>> \/ casts[h] # "none"
  \/ \E i \in DOMAIN bus : bus[i].by = h

GetAtWork == IF get \in {"idle", "over"} THEN 0 ELSE 1

\* Handler h begins with the list of its effects.
Begins(h, list) ==
  /\ todo[h] = <<>>
  /\ Cardinality({g \in Handlers : AtWork(g)}) + GetAtWork < AtOnce
  /\ todo' = [todo EXCEPT ![h] = list]

othersOfBegin == <<kind, lock, redisVars, casts, room, get, link, troubles, known, overlapped>>

Create ==
  /\ status = "NONE"
  /\ Becomes("PENDING", "create")
  /\ Begins("create", CreateTells)
  /\ UNCHANGED othersOfBegin

\* The customer confirms once the merchant has the payment's id.
Confirm ==
  /\ status = "PENDING" /\ known
  /\ Becomes("WAITING", "confirm")
  /\ Begins("confirm", ConfirmTells)
  /\ UNCHANGED othersOfBegin

\* An administrator, the deadline, the expiry and the orphan job come long after the
\* calls of the creation.
AdminDecides ==
  /\ status = "PENDING" /\ todo["create"] = <<>>
  /\ \E new \in {"APPROVED", "REJECTED"} : Becomes(new, "admin")
  /\ Begins("admin", AdminTells)
  /\ UNCHANGED othersOfBegin

OwnerDecides ==
  /\ status = "WAITING"
  /\ \E new \in {"APPROVED", "REJECTED"} :
       Becomes(new, "owner") /\ Begins("owner", OwnerTells(new))
  /\ UNCHANGED othersOfBegin

\* The two that read first and write later.
TimeoutReads ==
  /\ status = "WAITING" /\ todo["create"] = <<>>
  /\ Begins("timeout", TimeoutTells)
  /\ UNCHANGED <<rowVars, othersOfBegin>>

ExpireReads ==
  /\ status = "PENDING" /\ todo["create"] = <<>>
  /\ Begins("expire", ExpireTells)
  /\ UNCHANGED <<rowVars, othersOfBegin>>


OrphanReads ==
  /\ status \in Ends /\ lock = "ACTIVE" /\ todo["create"] = <<>>
  /\ Begins("orphan", OrphanTells)
  /\ UNCHANGED <<rowVars, othersOfBegin>>

Begin ==
  \/ Create \/ Confirm \/ AdminDecides \/ OwnerDecides
  \/ TimeoutReads \/ ExpireReads \/ OrphanReads

-----------------------------------------------------------------------------
(* Their effects                                                             *)

Publish(h, c) == Len(bus) < Underway /\ bus' = Append(bus, [channel |-> c, by |-> h])

\* Once the one GET of a widget or a page is over nobody reads the key any more.
Held(value) == IF get = "over" THEN "none" ELSE value

\* The effect of step e of handler h; what follows for todo is told apart.
RowEffect(h, e) ==
  /\ \/ e = "lock" /\ lock' = "ACTIVE" /\ UNCHANGED <<status, been, decider>>
     \/ e = "commit" /\ lock' = "RELEASED" /\ UNCHANGED <<status, been, decider>>
     \/ /\ e = "reject" /\ UNCHANGED lock
        /\ IF status = "WAITING" THEN Becomes("REJECTED", h)
           ELSE UNCHANGED <<status, been, decider>>
     \/ e = "expire" /\ Becomes("EXPIRED", h) /\ UNCHANGED lock
  /\ UNCHANGED <<redisVars, known>>

RedisEffect(h, e) ==
  /\ \/ e = "set" /\ cached' = Held("text") /\ UNCHANGED <<coded, bus>>
     \/ e = "setCode" /\ coded' = TRUE /\ UNCHANGED <<cached, bus>>
     \/ e = "del" /\ cached' = "none" /\ UNCHANGED <<coded, bus>>
     \/ e = "delCode" /\ coded' = FALSE /\ UNCHANGED <<cached, bus>>
     \/ e \in AdminChannels \cup OwnerChannels /\ Publish(h, e) /\ UNCHANGED <<cached, coded>>
  /\ UNCHANGED <<rowVars, known>>

Effect(h, e) ==
  \/ RowEffect(h, e)
  \/ RedisEffect(h, e)
  \/ e = "answer" /\ known' = TRUE /\ UNCHANGED <<rowVars, redisVars>>

\* A lock that fills the bank, or a release that leaves it room, has its notice
\* published by a callback of its own, whatever becomes of the transaction.
NoticeOf(e) ==
  CASE e = "lock" -> "bank:suspended" [] e = "release" -> "bank:reactivated" [] OTHER -> "none"

Todo(h, rest, e) ==
  \/ todo' = [todo EXCEPT ![h] = rest]
  \/ /\ NoticeOf(e) # "none" /\ Heeds(NoticeOf(e)) /\ todo["notice"] = <<>>
     /\ todo' = [todo EXCEPT ![h] = rest, !["notice"] = <<NoticeOf(e)>>]

othersOfEffect == <<kind, casts, room, get, link, overlapped>>

Do(h) ==
  /\ todo[h] # <<>> /\ Head(todo[h]) # "release"
  /\ Effect(h, Head(todo[h]))
  /\ Todo(h, Tail(todo[h]), Head(todo[h]))
  /\ UNCHANGED <<othersOfEffect, troubles>>

\* What is left of handler h when a call of it is rejected: an administrator's
\* release is tried again, a missing lock apart; everything else stops there.
AfterError(h) ==
  IF h # "admin" \/ todo[h] = <<"set">> THEN <<>>
  ELSE IF lock = "NONE" THEN Kept("set") ELSE AdminTells

\* releaseCollateral reads the lock first and leaves one that is not ACTIVE alone.
Release(h) ==
  /\ todo[h] # <<>> /\ Head(todo[h]) = "release"
  /\ \/ lock = "ACTIVE" /\ Todo(h, ReleaseTells \o Tail(todo[h]), "release")
     \/ lock = "RELEASED" /\ Todo(h, Tail(todo[h]), "none")
     \/ lock = "NONE" /\ Todo(h, AfterError(h), "none")
  /\ UNCHANGED <<rowVars, redisVars, known, othersOfEffect, troubles>>

\* A call of handler h is rejected, before its effect or after it.  The callback
\* of a notice catches nothing: see ServerDies.
Rejected(h) ==
  /\ troubles > 0 /\ troubles' = troubles - 1
  /\ h # "notice" /\ todo[h] # <<>>
  /\ \/ Head(todo[h]) # "answer" /\ Effect(h, Head(todo[h]))
     \/ UNCHANGED <<rowVars, redisVars, known>>
  /\ Todo(h, AfterError(h), Head(todo[h]))
  /\ UNCHANGED othersOfEffect

\* The payment's key has a time to live whoever set it; the code's key has none.
Lapsing == {"text"} \cup Statuses

Lapse ==
  /\ cached \in Lapsing /\ cached' = "none"
  /\ UNCHANGED <<rowVars, coded, bus, known, todo, othersOfEffect, troubles>>

-----------------------------------------------------------------------------
(* The gateways                                                              *)

\* What the watcher's socket gets of a step: an event with its value, if it is in
\* the room.  Sockets keep the order and lose only what a broken connection loses,
\* so that what is said is heard at once.
Silence == [event |-> "none", value |-> "none"]
InRoom(event, value) == IF room THEN [event |-> event, value |-> value] ELSE Silence

\* A message passed on by reading the row first: broadcastPaymentUpdate,
\* sendPaymentStatus and sendDashboardUpdate.
CastBegins(c) == "unread"

\* Kept for the one kind whose property asks for it.
Overlapping ==
  overlapped' = (overlapped \/ (kind = "subscriber" /\ \E n \in DOMAIN casts : casts[n] # "none"))

StartCast(m) ==
  /\ casts' = [casts EXCEPT ![m.by] = CastBegins(m.channel)]
  /\ Overlapping

\* What an administrator is told of a message on channel c.
NoticeType(c) ==
  CASE c = "payment:approved" -> "payment_approved"
    [] c = "payment:rejected" -> "payment_rejected"
    [] c = "payment:expired" -> "payment_expired"
    [] c = "collateral:locked" -> "collateral_locked"
    [] c = "collateral:released" -> "collateral_released"
    [] c = "bank:suspended" -> "bank_suspended"
    [] OTHER -> "bank_reactivated"

\* What goes to the sockets without a read: to the rooms, or to every administrator.
Direct(m) ==
  IF kind = "admin"
  THEN IF link = "up" THEN [event |-> "notification", value |-> NoticeType(m.channel)] ELSE Silence
  ELSE CASE m.channel = "collateral:locked" -> InRoom("payment:processing", "PROCESSING")
         [] m.channel = "payment:customer-confirmed" -> InRoom("payment:awaiting-approval", "none")
         [] OTHER -> Silence

ReadsFirst(m) ==
  kind # "admin" /\ m.channel \notin {"collateral:locked", "payment:customer-confirmed"}

\* Messages that came while the gateway reads for another of the same handler wait.
Deliver ==
  /\ bus # <<>> /\ casts[Head(bus).by] = "none"
  /\ bus' = Tail(bus)
  /\ IF ReadsFirst(Head(bus)) THEN StartCast(Head(bus)) ELSE UNCHANGED <<casts, overlapped>>
  /\ UNCHANGED <<kind, rowVars, todo, cached, coded, room, get, link, troubles, known>>

\* The reads of two messages come back in any order.
CastRead(m) ==
  /\ casts[m] = "unread"
  /\ casts' = [casts EXCEPT ![m] = status]
  /\ UNCHANGED <<kind, rowVars, todo, redisVars, room, get, link, troubles, known, overlapped>>

CastEvent(m) ==
  IF kind = "owner" THEN "dashboard:update"
  ELSE IF m = "join" THEN "payment:status" ELSE "payment:updated"

CastSays(m) == InRoom(CastEvent(m), casts[m])

CastEmit(m) ==
  /\ casts[m] \notin {"none", "unread"}
  /\ casts' = [casts EXCEPT ![m] = "none"]
  /\ UNCHANGED <<kind, rowVars, todo, redisVars, room, get, link, troubles, known, overlapped>>

\* A GET goes on, or ends with an answer: a status or "error".  It is taken as it
\* is sent; what may come between is then between the read and the answer.
GoesOn(step, answer) == get' = step /\ answer = "none"
EndsWith(value, answer) ==
  get' = (IF kind = "caller" THEN "idle" ELSE "over") /\ answer = value

\* Nothing awaits these reads and the notices' publishes: one that is rejected
\* ends the process, and with it its sockets and all that it was about to do.
ServerDies(answer) ==
  /\ troubles > 0 /\ troubles' = troubles - 1
  /\ todo["notice"] # <<>> \/ \E m \in DOMAIN casts : casts[m] = "unread"
  /\ todo' = [h \in Handlers |-> <<>>]
  /\ casts' = [m \in DOMAIN casts |-> "none"]
  /\ bus' = <<>> /\ room' = FALSE
  /\ IF get \in {"idle", "over"} THEN GoesOn(get, answer) ELSE EndsWith("error", answer)
  /\ UNCHANGED <<kind, rowVars, cached, coded, known, overlapped>>

\* handleSubscribe joins the room and has the status sent to all of it.
FirstStatus == "unread"

Join ==
  /\ link = "up"
  /\ room' = TRUE
  /\ casts' = [casts EXCEPT !["join"] = FirstStatus]
  /\ Overlapping
  /\ UNCHANGED <<kind, rowVars, todo, redisVars, get, link, troubles, known>>

-----------------------------------------------------------------------------
(* GET of a payment: getPayment and getPaymentByCode                         *)

othersOfGet == <<kind, rowVars, todo, bus, casts, room, known, overlapped>>

Ask(how) ==
  /\ known /\ get = "idle"
  /\ get' = how
  /\ UNCHANGED <<othersOfGet, link, cached, coded, troubles>>

\* The code's key leads to the payment's; without it the row is read and not kept.
FindCode(answer) ==
  /\ get = "code"
  /\ IF coded THEN GoesOn("id", answer) ELSE EndsWith(status, answer)
  /\ UNCHANGED <<othersOfGet, cached, coded, troubles>>

\* The answer made of a text instead of an object has no amount: a TypeError.
Formatted(value) == IF value = "text" THEN "error" ELSE value

LookUp(answer) ==
  /\ get = "id"
  /\ IF cached = "none" THEN GoesOn("miss", answer) ELSE EndsWith(Formatted(cached), answer)
  /\ UNCHANGED <<othersOfGet, cached, coded, troubles>>

ReadRow(answer) ==
  /\ get = "miss"
  /\ GoesOn(status, answer)
  /\ UNCHANGED <<othersOfGet, cached, coded, troubles>>

Store(answer) ==
  /\ get \in Statuses
  /\ cached' = IF kind = "caller" THEN get ELSE "none"
  /\ EndsWith(get, answer)
  /\ UNCHANGED <<othersOfGet, coded, troubles>>

GetFails(answer) ==
  /\ get \notin {"idle", "over"} /\ troubles > 0 /\ troubles' = troubles - 1
  /\ EndsWith("error", answer)
  /\ UNCHANGED <<othersOfGet, cached, coded>>

GetStep(answer) == FindCode(answer) \/ LookUp(answer) \/ ReadRow(answer) \/ Store(answer)

=============================================================================
