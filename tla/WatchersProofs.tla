--------------------------- MODULE WatchersProofs ---------------------------
(***************************************************************************)
(* Proofs about Watchers, for any kinds of watcher, any number of rejected *)
(* calls and broken connections, of messages under way and of requests at  *)
(* work.                                                                   *)
(*                                                                         *)
(* Every place a status travels through (the cached payment, the answer to *)
(* a GET, the message being passed on, the watcher) holds one the row has  *)
(* had or a word of its own; and nothing is on its way, nor anyone         *)
(* listening, before there is a row to read (Told).  From this and the     *)
(* types (Bound) follow two invariants, each for one kind of watcher: the  *)
(* message of the lock is the first of a payment's (LockFirst), and while  *)
(* a subscriber does not hold the status of the row something is on its    *)
(* way that will tell it (Current).                                        *)
(***************************************************************************)
EXTENDS Watchers, SequenceTheorems, TLAPS

\* Before the row is inserted no customer has anything of it.
Nothing ==
  /\ \A h \in Handlers : todo[h] = <<>>
  /\ bus = <<>> /\ ~known /\ get = "idle"
  /\ know = "none" /\ screen = "none"
  /\ kind \in Customers => link = "off" /\ \A m \in DOMAIN casts : casts[m] = "none"

Told ==
  /\ DOMAIN todo = Handlers
  /\ status = "NONE" \/ status \in been
  /\ cached \in been \cup {"none", "text"}
  /\ get \in been \cup {"idle", "id", "code", "miss", "over"}
  /\ \A m \in DOMAIN casts : casts[m] \in been \cup {"NONE", "none", "unread"}
  /\ kind \in Customers => \A m \in DOMAIN casts : casts[m] # "NONE"
  /\ ToldWasTrue
  /\ status = "NONE" => Nothing

\* What a step may do to the row.
RowGoesOn ==
  /\ been \subseteq been'
  /\ status' \in been' \/ status' = status
  /\ status # "NONE" => status' # "NONE"

\* A status it is given is one it has had.
LEMMA BecomesGoesOn ==
  ASSUME Told, NEW new \in Statuses, NEW h, Becomes(new, h)
  PROVE  RowGoesOn /\ status' # "NONE"
BY DEF Becomes, RowGoesOn, Statuses, Ends, Told

\* A request begins with what it does to the row.
LEMMA BeginTells ==
  ASSUME Told, Begin, UNCHANGED clientVars
  PROVE  Told'
<1>1. RowGoesOn /\ status' # "NONE"
  <2>1. CASE Create
    BY <2>1, BecomesGoesOn DEF Create, Statuses
  <2>2. CASE Confirm
    BY <2>2, BecomesGoesOn DEF Confirm, Statuses
  <2>3. CASE AdminDecides
    BY <2>3, BecomesGoesOn DEF AdminDecides, Statuses, Ends
  <2>4. CASE OwnerDecides
    BY <2>4, BecomesGoesOn DEF OwnerDecides, Statuses, Ends
  <2>5. CASE TimeoutReads \/ ExpireReads \/ OrphanReads
    BY <2>5 DEF TimeoutReads, ExpireReads, OrphanReads, rowVars, RowGoesOn, Ends
  <2> QED
    BY <2>1, <2>2, <2>3, <2>4, <2>5 DEF Begin
<1>2. UNCHANGED othersOfBegin
  BY DEF Begin, Create, Confirm, AdminDecides, OwnerDecides, TimeoutReads, ExpireReads, OrphanReads
<1>3. DOMAIN todo' = Handlers
  BY DEF Begin, Create, Confirm, AdminDecides, OwnerDecides, TimeoutReads, ExpireReads,
         OrphanReads, Begins, Told
<1> QED
  BY <1>1, <1>2, <1>3 DEF Told, ToldWasTrue, RowGoesOn, othersOfBegin, redisVars, clientVars

\* An effect writes the row, or one of its keys.
LEMMA EffectTells ==
  ASSUME Told, NEW h, NEW e, Effect(h, e)
  PROVE  RowGoesOn /\ cached' \in been' \cup {"none", "text"}
<1>1. CASE RowEffect(h, e)
  <2>1. UNCHANGED cached
    BY <1>1 DEF RowEffect, redisVars
  <2>2. CASE UNCHANGED <<status, been, decider>>
    BY <2>1, <2>2 DEF RowGoesOn, Told
  <2>3. CASE Becomes("REJECTED", h)
    BY <2>1, <2>3, BecomesGoesOn DEF RowGoesOn, Told, Statuses, Ends
  <2>4. CASE Becomes("EXPIRED", h)
    BY <2>1, <2>4, BecomesGoesOn DEF RowGoesOn, Told, Statuses, Ends
  <2> QED
    BY <1>1, <2>2, <2>3, <2>4 DEF RowEffect
<1>2. CASE RedisEffect(h, e)
  <2>1. UNCHANGED rowVars /\ cached' \in {cached, "none", "text"}
    BY <1>2 DEF RedisEffect, Held
  <2> QED
    BY <2>1 DEF rowVars, RowGoesOn, Told
<1>3. CASE e = "answer" /\ UNCHANGED <<rowVars, redisVars>>
  BY <1>3 DEF rowVars, redisVars, RowGoesOn, Told
<1> QED
  BY <1>1, <1>2, <1>3 DEF Effect

\* So a handler goes on, whether its call succeeds or is rejected.
LEMMA HandlerTells ==
  ASSUME Told, NEW h \in Handlers, Do(h) \/ Release(h) \/ Rejected(h), UNCHANGED clientVars
  PROVE  Told'
<1>1. status # "NONE"
  <2>1. todo[h] # <<>>
    BY DEF Do, Release, Rejected
  <2> QED
    BY <2>1 DEF Told, Nothing
<1>2. RowGoesOn /\ cached' \in been' \cup {"none", "text"}
  <2>1. CASE Do(h)
    BY <2>1, EffectTells DEF Do
  <2>2. CASE Release(h)
    BY <2>2 DEF Release, rowVars, redisVars, RowGoesOn, Told
  <2>3. CASE Rejected(h)
    <3>1. CASE Effect(h, Head(todo[h]))
      BY <3>1, EffectTells
    <3>2. CASE UNCHANGED <<rowVars, redisVars, known>>
      BY <3>2 DEF rowVars, redisVars, RowGoesOn, Told
    <3> QED
      BY <2>3, <3>1, <3>2 DEF Rejected
  <2> QED
    BY <2>1, <2>2, <2>3
<1>3. UNCHANGED othersOfEffect
  BY DEF Do, Release, Rejected
<1>4. DOMAIN todo' = Handlers
  BY DEF Do, Release, Rejected, Todo, Told
<1> QED
  BY <1>1, <1>2, <1>3, <1>4 DEF Told, ToldWasTrue, RowGoesOn, othersOfEffect, clientVars

-----------------------------------------------------------------------------
(* What is passed on                                                         *)

\* What goes to the sockets without a read is no status.
LEMMA DirectIsNoStatus ==
  ASSUME NEW m
  PROVE  /\ Direct(m).event \notin {"payment:status", "payment:updated"}
         /\ Direct(m).event = "payment:processing" => Direct(m).value = "PROCESSING"
<1>1. CASE kind = "admin"
  <2>1. \/ Direct(m) = [event |-> "notification", value |-> NoticeType(m.channel)]
        \/ Direct(m) = Silence
    BY <1>1 DEF Direct
  <2> QED
    BY <2>1 DEF Silence
<1>2. CASE kind # "admin" /\ m.channel = "collateral:locked"
  BY <1>2 DEF Direct, InRoom, Silence
<1>3. CASE kind # "admin" /\ m.channel = "payment:customer-confirmed"
  BY <1>3 DEF Direct, InRoom, Silence
<1>4. CASE /\ kind # "admin" /\ m.channel # "collateral:locked"
           /\ m.channel # "payment:customer-confirmed"
  BY <1>4 DEF Direct, Silence
<1> QED
  BY <1>1, <1>2, <1>3, <1>4

\* A watcher holds what a status event said, or that a payment is in process.
LEMMA HeardIsSaid ==
  ASSUME NEW m, Hears(m)
  PROVE  \/ know' = know
         \/ /\ kind \in Customers
            /\ m.event \in {"payment:status", "payment:updated"} /\ know' = m.value
         \/ m.event = "payment:processing" /\ know' = m.value /\ kind \in Customers
BY DEF Hears, SubscriberHears, WidgetHears, PageHears, AdminHears, OwnerHears, Customers, Listens

\* What the gateway passes on at once tells no status.
LEMMA PassOnTells ==
  ASSUME Told, PassOn
  PROVE  Told'
<1>1. Deliver /\ Hears(Direct(Head(bus))) /\ bus # <<>>
  BY DEF PassOn, Deliver
<1>2. status # "NONE"
  BY <1>1 DEF Told, Nothing
<1>3. know' \in {know, "PROCESSING"}
  BY <1>1, HeardIsSaid, DirectIsNoStatus
<1>4. /\ DOMAIN casts' = DOMAIN casts
      /\ \A m \in DOMAIN casts : casts'[m] \in {casts[m], "unread"}
  BY <1>1 DEF Deliver, StartCast, CastBegins
<1>5. UNCHANGED <<kind, rowVars, todo, cached, get>>
  BY <1>1 DEF Deliver
<1> QED
  BY <1>2, <1>3, <1>4, <1>5 DEF Told, ToldWasTrue, rowVars

\* A cast tells the status it read, and reads the row when there is one.
LEMMA CastTells ==
  ASSUME Told, NEW m \in DOMAIN casts, CastStep(m)
  PROVE  Told'
<1>1. casts[m] # "none"
  BY DEF CastStep, CastRead, CastEmit
<1>2. status = "NONE" => kind \notin Customers
  BY <1>1 DEF Told, Nothing
<1>3. CASE CastRead(m) /\ UNCHANGED clientVars
  BY <1>2, <1>3 DEF CastRead, Told, ToldWasTrue, Nothing, rowVars, redisVars, clientVars
<1>4. CASE CastEmit(m) /\ Hears(CastSays(m))
  <2>1. casts[m] \notin {"none", "unread"}
    BY <1>4 DEF CastEmit
  <2>2. know' = know \/ (kind \in Customers /\ know' = casts[m])
    <3>1. CastEvent(m) \in {"dashboard:update", "payment:status", "payment:updated"}
      BY DEF CastEvent
    <3>2. CastSays(m) = [event |-> CastEvent(m), value |-> casts[m]] \/ CastSays(m) = Silence
      BY DEF CastSays, InRoom
    <3> DEFINE said == CastSays(m)
    <3>3. /\ said.event \in {"none", "dashboard:update", "payment:status", "payment:updated"}
          /\ said.event # "none" => said.value = casts[m]
      BY <3>1, <3>2 DEF Silence
    <3>4. Hears(said)
      BY <1>4
    <3> HIDE DEF said
    <3> QED
      BY <3>3, <3>4, HeardIsSaid
  <2>3. know' \in been \cup {"none", "PROCESSING"}
    BY <2>1, <2>2 DEF Told, ToldWasTrue
  <2>4. status = "NONE" => know' = know /\ UNCHANGED screen
    BY <1>2, <1>4, <2>2 DEF Hears, SubscriberHears, WidgetHears, PageHears, AdminHears,
                            OwnerHears, Customers
  <2>5. /\ DOMAIN casts' = DOMAIN casts
        /\ \A n \in DOMAIN casts : casts'[n] \in {casts[n], "none"}
    BY <1>4 DEF CastEmit
  <2>6. UNCHANGED <<kind, rowVars, todo, redisVars, get, link, known>>
    BY <1>4 DEF CastEmit
  <2> QED
    BY <1>2, <2>3, <2>4, <2>5, <2>6 DEF Told, ToldWasTrue, Nothing, rowVars, redisVars
<1> QED
  BY <1>3, <1>4 DEF CastStep

-----------------------------------------------------------------------------
(* What is asked                                                             *)

\* A GET answers with a status the row has had, with an error, or not yet.
LEMMA AnswerIsTrue ==
  ASSUME Told, NEW a, GetStep(a) \/ GetFails(a) \/ ServerDies(a)
  PROVE  /\ a \in been \cup {"none", "error"}
         /\ get' \in been \cup {"idle", "id", "code", "miss", "over"}
         /\ cached' \in been \cup {"none", "text"}
         /\ UNCHANGED <<kind, rowVars, known>>
         /\ status = "NONE" => a = "none" /\ UNCHANGED get
<1>1. status = "NONE" => get = "idle"
  BY DEF Told, Nothing
<1>2. CASE FindCode(a)
  BY <1>1, <1>2 DEF FindCode, GoesOn, EndsWith, othersOfGet, Told
<1>3. CASE LookUp(a)
  BY <1>1, <1>3 DEF LookUp, GoesOn, EndsWith, Formatted, othersOfGet, Told
<1>4. CASE ReadRow(a)
  BY <1>1, <1>4 DEF ReadRow, GoesOn, othersOfGet, Told
<1>5. CASE Store(a)
  BY <1>1, <1>5 DEF Store, EndsWith, othersOfGet, Told, Statuses, Ends
<1>6. CASE GetFails(a)
  BY <1>1, <1>6 DEF GetFails, EndsWith, othersOfGet, Told
<1>7. CASE ServerDies(a)
  BY <1>1, <1>7 DEF ServerDies, GoesOn, EndsWith, Told
<1> QED
  BY <1>2, <1>3, <1>4, <1>5, <1>6, <1>7 DEF GetStep

\* The watcher takes the answer as it is.
LEMMA FetchedIsTrue ==
  ASSUME Told, NEW a, Fetched(a), a \in been \cup {"none", "error"}, UNCHANGED rowVars
  PROVE  ToldWasTrue' /\ (a = "none" => UNCHANGED <<know, screen>>)
BY DEF Fetched, CallerTold, WidgetFetched, PageFetched, Told, ToldWasTrue, rowVars

\* An answered GET changes nothing else.
LEMMA AskedTells ==
  ASSUME Told, NEW a, GetStep(a) \/ GetFails(a), Fetched(a), link' = LinkAfter(a)
  PROVE  Told'
<1>1. UNCHANGED <<todo, bus, casts>>
  BY DEF GetStep, FindCode, LookUp, ReadRow, Store, GetFails, othersOfGet
<1>2. status = "NONE" => UNCHANGED link
  BY AnswerIsTrue DEF LinkAfter
<1> QED
  BY <1>1, <1>2, AnswerIsTrue, FetchedIsTrue DEF Told, Nothing, rowVars

\* The end of the process takes along what was on its way.
LEMMA DeathTells ==
  ASSUME Told, NEW a, ServerDies(a), Fetched(a),
         link' = IF link = "up" THEN "down" ELSE LinkAfter(a)
  PROVE  Told'
<1>1. /\ todo' = [h \in Handlers |-> <<>>] /\ casts' = [m \in DOMAIN casts |-> "none"]
      /\ bus' = <<>>
  BY DEF ServerDies
<1>2. status = "NONE" /\ kind \in Customers => UNCHANGED link
  BY AnswerIsTrue DEF LinkAfter, Told, Nothing
<1> QED
  BY <1>1, <1>2, AnswerIsTrue, FetchedIsTrue DEF Told, Nothing, rowVars

-----------------------------------------------------------------------------
(* What the client does                                                      *)

\* A client listens or asks only once it knows of the payment.
LEMMA ClientTells ==
  ASSUME Told, ClientStep \/ ClientChoice \/ Cut \/ GiveUp
  PROVE  Told'
<1>1. CASE Connect
  <2>1. status = "NONE" => kind \notin Customers
    BY <1>1 DEF Connect, Connects, Told, Nothing, Customers
  <2> QED
    BY <1>1, <2>1 DEF Connect, othersOfClient, othersOfCut, rowVars, redisVars, Told, ToldWasTrue,
                      Nothing
<1>2. CASE Subscribed
  <2>1. status = "NONE" => kind \notin Customers
    BY <1>2 DEF Subscribed, Join, Told, Nothing
  <2>2. /\ DOMAIN casts' = DOMAIN casts
        /\ \A m \in DOMAIN casts : casts'[m] \in {casts[m], "unread"}
    BY <1>2 DEF Subscribed, Join, FirstStatus
  <2> QED
    BY <1>2, <2>1, <2>2 DEF Subscribed, Join, rowVars, redisVars, Told, ToldWasTrue, Nothing
<1>3. CASE Open \/ CallerAsks
  <2>1. known /\ get' \in {"id", "code"}
    BY <1>3 DEF Open, CallerAsks, Ask
  <2>2. status # "NONE"
    BY <2>1 DEF Told, Nothing
  <2>3. UNCHANGED <<othersOfGet, cached, know>>
    BY <1>3 DEF Open, CallerAsks, Ask, clientVars
  <2> QED
    BY <2>1, <2>2, <2>3 DEF othersOfGet, rowVars, Told, ToldWasTrue
<1>4. CASE Leave \/ Dismiss \/ Cut \/ GiveUp
  <2>1. status = "NONE" => kind \notin Customers
    BY <1>4 DEF Leave, Dismiss, Cut, GiveUp, Told, Nothing, Ends
  <2>2. UNCHANGED <<othersOfCut, get, know>> /\ screen' \in {screen, "none"}
    BY <1>4 DEF Leave, Dismiss, Cut, GiveUp, othersOfClient
  <2> QED
    BY <2>1, <2>2 DEF othersOfCut, rowVars, redisVars, Told, ToldWasTrue, Nothing
<1> QED
  BY <1>1, <1>2, <1>3, <1>4 DEF ClientStep, ClientChoice

-----------------------------------------------------------------------------
\* Every step keeps the invariant.
LEMMA StepTells == Told /\ [Next]_vars => Told'
<1> SUFFICES ASSUME Told, [Next]_vars PROVE Told'
  OBVIOUS
<1>1. CASE Watching /\ Begin /\ UNCHANGED clientVars
  BY <1>1, BeginTells
<1>2. ASSUME NEW h \in Handlers, HandlerStep(h) PROVE Told'
  BY <1>2, HandlerTells DEF HandlerStep
<1>3. ASSUME NEW m \in DOMAIN casts, CastStep(m) PROVE Told'
  BY <1>3, CastTells
<1>4. CASE PassOn
  BY <1>4, PassOnTells
<1>5. CASE Asked
  BY <1>5, AskedTells DEF Asked
<1>6. CASE Lapses
  BY <1>6 DEF Lapses, Lapse, othersOfEffect, rowVars, clientVars, Told, ToldWasTrue, Nothing
<1>7. CASE Fault
  <2>1. CASE (\E h \in Handlers : Rejected(h)) /\ UNCHANGED clientVars
    BY <2>1, HandlerTells
  <2>2. CASE \E a \in Answers : GetFails(a) /\ Fetched(a) /\ link' = LinkAfter(a)
    BY <2>2, AskedTells
  <2>3. CASE \E a \in Answers :
               /\ ServerDies(a) /\ Fetched(a)
               /\ link' = IF link = "up" THEN "down" ELSE LinkAfter(a)
    BY <2>3, DeathTells
  <2> QED
    BY <1>7, <2>1, <2>2, <2>3 DEF Fault
<1>8. CASE ClientStep \/ ClientChoice \/ Cut \/ GiveUp
  BY <1>8, ClientTells
<1>9. CASE UNCHANGED vars
  BY <1>9 DEF vars, newsVars, clientVars, Told, ToldWasTrue, Nothing
<1> QED
  BY <1>1, <1>2, <1>3, <1>4, <1>5, <1>6, <1>7, <1>8, <1>9 DEF Next

\* Whatever is cached, delayed, rejected or overtaken, no watcher is told a status the
\* payment has never had (the gateways' handlers, getPayment).
THEOREM ToldWasTrueCorrect == Spec => []ToldWasTrue
<1>1. WatchersInit => Told
  BY DEF WatchersInit, NewsInit, Told, ToldWasTrue, Nothing
<1>2. Told => ToldWasTrue
  BY DEF Told
<1> QED
  BY <1>1, <1>2, StepTells, PTL DEF Spec

-----------------------------------------------------------------------------
(* The types                                                                 *)

Messages == [channel : Effects, by : Handlers]

\* What the truth of the news (Told) does not say of the types.
Bound ==
  /\ kind \in Kinds
  /\ been \subseteq Statuses /\ lock \in {"NONE", "ACTIVE", "RELEASED"}
  /\ todo \in [Handlers -> Seq(Effects)]
  /\ bus \in Seq(Messages)
  /\ casts \in [Handlers \cup {"join"} -> Statuses \cup {"NONE", "none", "unread"}]
  /\ link \in {"off", "up", "down", "gone"}
  /\ screen \in Statuses \cup {"none", "loading", "error", "PROCESSING"}
  /\ coded \in BOOLEAN /\ room \in BOOLEAN /\ uplink \in BOOLEAN
  /\ known \in BOOLEAN /\ ended \in BOOLEAN /\ overlapped \in BOOLEAN
  /\ troubles \in 0 .. Troubles

\* Together they say all of it.
LEMMA BoundTyped == Told /\ Bound => TypeOK
BY DEF Told, ToldWasTrue, Bound, TypeOK

\* Lists put together of one and of two elements.
LEMMA Pair ==
  ASSUME NEW S, NEW a \in S, NEW b \in S
  PROVE  <<a>> \o <<b>> = <<a, b>>
<1>1. <<a>> \in Seq(S) /\ <<b>> \in Seq(S) /\ <<a, b>> \in Seq(S)
  OBVIOUS
<1>2. Len(<<a>> \o <<b>>) = 2 /\ \A i \in 1 .. 2 : (<<a>> \o <<b>>)[i] = <<a, b>>[i]
  BY <1>1, ConcatProperties
<1>3. <<a>> \o <<b>> \in Seq(S)
  BY <1>1, ConcatProperties
<1> QED
  BY <1>1, <1>2, <1>3, SeqEqual

LEMMA Triple ==
  ASSUME NEW S, NEW a \in S, NEW b \in S, NEW c \in S
  PROVE  <<a, b>> \o <<c>> = <<a, b, c>>
<1>1. <<a, b>> \in Seq(S) /\ <<c>> \in Seq(S) /\ <<a, b, c>> \in Seq(S)
  OBVIOUS
<1>2. Len(<<a, b>> \o <<c>>) = 3 /\ \A i \in 1 .. 3 : (<<a, b>> \o <<c>>)[i] = <<a, b, c>>[i]
  BY <1>1, ConcatProperties
<1>3. <<a, b>> \o <<c>> \in Seq(S)
  BY <1>1, ConcatProperties
<1> QED
  BY <1>1, <1>2, <1>3, SeqEqual

\* One effect, or none, is a list of effects.
LEMMA KeptTyped ==
  ASSUME NEW e \in Effects
  PROVE  Kept(e) \in Seq(Effects)
BY DEF Kept

\* What each handler begins with is a list of effects.
LEMMA ListsTyped ==
  /\ CreateTells \in Seq(Effects) /\ ConfirmTells \in Seq(Effects) /\ AdminTells \in Seq(Effects)
  /\ \A new : OwnerTells(new) \in Seq(Effects)
  /\ TimeoutTells \in Seq(Effects) /\ ExpireTells \in Seq(Effects)
  /\ OrphanTells \in Seq(Effects) /\ ReleaseTells \in Seq(Effects)
<1>1. \A e \in Effects : Kept(e) \in Seq(Effects)
  BY KeptTyped
<1>2. ReleaseTells \in Seq(Effects)
  BY DEF ReleaseTells, Effects, AdminChannels, OwnerChannels, CustomerChannels
<1>3. \A s, t \in Seq(Effects) : s \o t \in Seq(Effects)
  BY ConcatProperties
<1> QED
  BY <1>1, <1>2, <1>3
     DEF Effects, AdminChannels, OwnerChannels, CustomerChannels, CreateTells, ConfirmTells, AdminTells, OwnerTells, TimeoutTells, ExpireTells, OrphanTells

\* A status the row is given is one.
LEMMA BecomesBound ==
  ASSUME Bound, NEW new \in Statuses, NEW h, Becomes(new, h)
  PROVE  (been \subseteq Statuses)'
BY DEF Becomes, Bound

\* The list of a handler is replaced by another.
LEMMA ListBound ==
  ASSUME Bound, NEW h \in Handlers, NEW list \in Seq(Effects), todo' = [todo EXCEPT ![h] = list]
  PROVE  (todo \in [Handlers -> Seq(Effects)])'
BY DEF Bound

\* A request begins with a list of effects.
LEMMA BeginBound ==
  ASSUME Bound, Begin, UNCHANGED clientVars
  PROVE  Bound'
<1>1. /\ (been \subseteq Statuses)'
      /\ UNCHANGED othersOfBegin
      /\ \E h \in Handlers, list \in Seq(Effects) : Begins(h, list)
  <2>1. CASE Create
    BY <2>1, BecomesBound, ListsTyped DEF Create, Statuses, Handlers
  <2>2. CASE Confirm
    BY <2>2, BecomesBound, ListsTyped DEF Confirm, Statuses, Handlers
  <2>3. CASE AdminDecides
    BY <2>3, BecomesBound, ListsTyped DEF AdminDecides, Statuses, Ends, Handlers
  <2>4. CASE OwnerDecides
    BY <2>4, BecomesBound, ListsTyped DEF OwnerDecides, Statuses, Ends, Handlers
  <2>5. CASE TimeoutReads
    BY <2>5, ListsTyped DEF TimeoutReads, rowVars, Bound, Handlers
  <2>6. CASE ExpireReads
    BY <2>6, ListsTyped DEF ExpireReads, rowVars, Bound, Handlers
  <2>7. CASE OrphanReads
    BY <2>7, ListsTyped DEF OrphanReads, rowVars, Bound, Handlers
  <2> QED
    BY <2>1, <2>2, <2>3, <2>4, <2>5, <2>6, <2>7 DEF Begin
<1>2. (todo \in [Handlers -> Seq(Effects)])'
  BY <1>1, ListBound DEF Begins
<1> QED
  BY <1>1, <1>2 DEF Bound, othersOfBegin, redisVars, clientVars

\* An effect writes a status, a key or a message.
LEMMA EffectBound ==
  ASSUME Bound, NEW h \in Handlers, NEW e \in Effects, Effect(h, e)
  PROVE  /\ (been \subseteq Statuses)' /\ (lock \in {"NONE", "ACTIVE", "RELEASED"})'
         /\ (bus \in Seq(Messages))' /\ (coded \in BOOLEAN)' /\ (known \in BOOLEAN)'
<1>1. CASE RowEffect(h, e)
  BY <1>1, BecomesBound DEF RowEffect, redisVars, Bound, Statuses, Ends
<1>2. CASE RedisEffect(h, e)
  <2>1. bus' = bus \/ bus' = Append(bus, [channel |-> e, by |-> h])
    BY <1>2 DEF RedisEffect, Publish
  <2>2. [channel |-> e, by |-> h] \in Messages
    BY DEF Messages
  <2>3. bus \in Seq(Messages)
    BY DEF Bound
  <2>4. Append(bus, [channel |-> e, by |-> h]) \in Seq(Messages)
    BY <2>2, <2>3, AppendProperties
  <2>5. bus' \in Seq(Messages)
    BY <2>1, <2>3, <2>4
  <2> QED
    BY <1>2, <2>5 DEF RedisEffect, rowVars, Bound
<1>3. CASE e = "answer" /\ known' = TRUE /\ UNCHANGED <<rowVars, redisVars>>
  BY <1>3 DEF rowVars, redisVars, Bound
<1> QED
  BY <1>1, <1>2, <1>3 DEF Effect

\* What is left to do is a list of effects, and so is a notice.
LEMMA TodoBound ==
  ASSUME Bound, NEW h \in Handlers, NEW rest \in Seq(Effects), NEW e, Todo(h, rest, e)
  PROVE  (todo \in [Handlers -> Seq(Effects)])'
<1>1. CASE todo' = [todo EXCEPT ![h] = rest]
  BY <1>1, ListBound
<1>2. CASE /\ NoticeOf(e) # "none"
           /\ todo' = [todo EXCEPT ![h] = rest, !["notice"] = <<NoticeOf(e)>>]
  <2>1. NoticeOf(e) \in Effects
    BY <1>2 DEF NoticeOf, Effects, AdminChannels
  <2>2. <<NoticeOf(e)>> \in Seq(Effects)
    BY <2>1
  <2> QED
    BY <1>2, <2>2 DEF Bound
<1> QED
  BY <1>1, <1>2 DEF Todo

\* A handler goes on, or ends with an error.
LEMMA HandlerBound ==
  ASSUME Bound, NEW h \in Handlers, Do(h) \/ Release(h) \/ Rejected(h), UNCHANGED clientVars
  PROVE  Bound'
<1>1. todo[h] \in Seq(Effects) /\ todo[h] # <<>>
  BY DEF Bound, Do, Release, Rejected
<1>2. Head(todo[h]) \in Effects /\ Tail(todo[h]) \in Seq(Effects)
  BY <1>1
<1>3. AfterError(h) \in Seq(Effects)
  <2>1. Kept("set") \in Seq(Effects) /\ <<>> \in Seq(Effects)
    BY KeptTyped DEF Effects
  <2> QED
    BY <2>1, ListsTyped DEF AfterError
<1>4. ReleaseTells \o Tail(todo[h]) \in Seq(Effects)
  BY <1>2, ListsTyped, ConcatProperties
<1>5. (todo \in [Handlers -> Seq(Effects)])'
  BY <1>2, <1>3, <1>4, TodoBound DEF Do, Release, Rejected
<1>6. /\ (been \subseteq Statuses)' /\ (lock \in {"NONE", "ACTIVE", "RELEASED"})'
      /\ (bus \in Seq(Messages))' /\ (coded \in BOOLEAN)' /\ (known \in BOOLEAN)'
  <2>1. CASE Effect(h, Head(todo[h]))
    BY <2>1, <1>2, EffectBound
  <2>2. CASE UNCHANGED <<rowVars, redisVars, known>>
    BY <2>2 DEF rowVars, redisVars, Bound
  <2> QED
    BY <2>1, <2>2 DEF Do, Release, Rejected
<1>7. UNCHANGED othersOfEffect /\ (troubles \in 0 .. Troubles)'
  BY NewsAssumption DEF Do, Release, Rejected, Bound
<1> QED
  BY <1>5, <1>6, <1>7 DEF Bound, othersOfEffect, clientVars

\* Whatever the watcher is told, it shows a status or a word of its own.
LEMMA HearsBound ==
  ASSUME Bound, NEW m, Hears(m)
  PROVE  /\ (screen \in Statuses \cup {"none", "loading", "error", "PROCESSING"})'
         /\ (ended \in BOOLEAN)'
<1>1. ended' = ended \/ ended' = (ended \/ (Listens(m.event) /\ m.value \in Ends))
  BY DEF Hears
<1>2. (ended \in BOOLEAN)'
  BY <1>1 DEF Bound
<1>3. \/ UNCHANGED screen \/ screen' = WidgetScreen(m.value) \/ screen' = Badge(m.value)
  BY DEF Hears, SubscriberHears, WidgetHears, PageHears, AdminHears, OwnerHears
<1>4. /\ WidgetScreen(m.value) \in Statuses \cup {screen, "PROCESSING"}
      /\ Badge(m.value) \in Statuses
  BY DEF WidgetScreen, Renderable, Badge, Statuses, Ends
<1> QED
  BY <1>2, <1>3, <1>4 DEF Bound

\* What is passed on leaves the channel, and may be read for.
LEMMA PassOnBound ==
  ASSUME Bound, PassOn
  PROVE  Bound'
<1>1. Deliver /\ Hears(Direct(Head(bus))) /\ UNCHANGED uplink
  BY DEF PassOn
<1>2. (bus \in Seq(Messages))'
  BY <1>1 DEF Deliver, Bound
<1>3. /\ (casts \in [Handlers \cup {"join"} -> Statuses \cup {"NONE", "none", "unread"}])'
      /\ (overlapped \in BOOLEAN)'
  BY <1>1 DEF Deliver, StartCast, CastBegins, Overlapping, Bound
<1>4. UNCHANGED <<kind, rowVars, todo, coded, room, link, troubles, known>>
  BY <1>1 DEF Deliver
<1> QED
  BY <1>1, <1>2, <1>3, <1>4, HearsBound DEF Bound, rowVars

\* A cast holds the status it read, until it is emitted.
LEMMA CastBound ==
  ASSUME Told, Bound, NEW m \in DOMAIN casts, CastStep(m)
  PROVE  Bound'
<1>1. status \in Statuses \cup {"NONE"}
  BY DEF Told, Bound
<1>2. (casts \in [Handlers \cup {"join"} -> Statuses \cup {"NONE", "none", "unread"}])'
  BY <1>1 DEF CastStep, CastRead, CastEmit, Bound
<1>3. UNCHANGED <<kind, rowVars, todo, redisVars, room, link, troubles, known, overlapped>>
  BY DEF CastStep, CastRead, CastEmit
<1>4. UNCHANGED uplink /\ (UNCHANGED <<screen, ended>> \/ \E s : Hears(s))
  BY DEF CastStep, clientVars
<1> QED
  BY <1>2, <1>3, <1>4, HearsBound DEF Bound, rowVars, redisVars

\* A GET goes on or is answered, and the watcher shows a status it was answered with.
LEMMA AskedBound ==
  ASSUME Told, Bound, NEW a, GetStep(a) \/ GetFails(a) \/ ServerDies(a), Fetched(a),
         link' \in {link, "down", "gone"}, UNCHANGED <<uplink, heard, ended>>
  PROVE  Bound'
<1>1. (screen \in Statuses \cup {"none", "loading", "error", "PROCESSING"})'
  <2>1. UNCHANGED screen \/ screen' = "error" \/ screen' = Badge(a)
    BY DEF Fetched, CallerTold, WidgetFetched, PageFetched
  <2>2. Badge(a) \in Statuses
    BY DEF Badge, Statuses, Ends
  <2> QED
    BY <2>1, <2>2 DEF Bound
<1>2. CASE GetStep(a) \/ GetFails(a)
  <2>1. UNCHANGED <<othersOfGet, coded>> /\ (troubles \in 0 .. Troubles)'
    BY <1>2, NewsAssumption
       DEF GetStep, FindCode, LookUp, ReadRow, Store, GetFails, Bound
  <2> QED
    BY <1>1, <2>1 DEF othersOfGet, rowVars, Bound
<1>3. CASE ServerDies(a)
  <2>1. /\ (todo \in [Handlers -> Seq(Effects)])' /\ (bus \in Seq(Messages))'
        /\ (casts \in [Handlers \cup {"join"} -> Statuses \cup {"NONE", "none", "unread"}])'
    BY <1>3 DEF ServerDies, Bound
  <2>2. (troubles \in 0 .. Troubles)'
    BY <1>3, NewsAssumption DEF ServerDies, Bound
  <2>4. (room \in BOOLEAN)'
    BY <1>3 DEF ServerDies
  <2>3. UNCHANGED <<kind, rowVars, coded, known, overlapped>>
    BY <1>3 DEF ServerDies
  <2> QED
    BY <1>1, <2>1, <2>2, <2>3, <2>4 DEF rowVars, Bound
<1> QED
  BY <1>2, <1>3

\* The client opens, asks, connects, joins, loses its connection, leaves.
LEMMA ClientBound ==
  ASSUME Bound, ClientStep \/ ClientChoice \/ Cut \/ GiveUp
  PROVE  Bound'
<1>1. CASE Open \/ CallerAsks
  BY <1>1 DEF Open, CallerAsks, Ask, othersOfGet, rowVars, clientVars, Bound
<1>2. CASE Connect
  <2>1. (uplink \in BOOLEAN)'
    BY <1>2 DEF Connect, Subscribes
  <2> QED
    BY <1>2, <2>1 DEF Connect, othersOfClient, othersOfCut, rowVars, redisVars, Bound
<1>3. CASE Subscribed
  <2>1. /\ (casts \in [Handlers \cup {"join"} -> Statuses \cup {"NONE", "none", "unread"}])'
        /\ (overlapped \in BOOLEAN)'
    BY <1>3 DEF Subscribed, Join, FirstStatus, Overlapping, Bound
  <2> QED
    BY <1>3, <2>1 DEF Subscribed, Join, rowVars, redisVars, Bound
<1>4. CASE Cut
  <2>1. (troubles \in 0 .. Troubles)'
    BY <1>4, NewsAssumption DEF Cut, Bound
  <2>2. (room \in BOOLEAN)' /\ (uplink \in BOOLEAN)'
    BY <1>4 DEF Cut
  <2> QED
    BY <1>4, <2>1, <2>2 DEF Cut, othersOfCut, rowVars, redisVars, Bound
<1>5. CASE GiveUp \/ Leave \/ Dismiss
  BY <1>5 DEF GiveUp, Leave, Dismiss, othersOfClient, othersOfCut, rowVars, redisVars, Bound
<1> QED
  BY <1>1, <1>2, <1>3, <1>4, <1>5 DEF ClientStep, ClientChoice

\* Every step keeps the types.
LEMMA StepBound == Told /\ Bound /\ [Next]_vars => Bound'
<1> SUFFICES ASSUME Told, Bound, [Next]_vars PROVE Bound'
  OBVIOUS
<1>1. CASE Watching /\ Begin /\ UNCHANGED clientVars
  BY <1>1, BeginBound
<1>2. ASSUME NEW h \in Handlers, HandlerStep(h) PROVE Bound'
  BY <1>2, HandlerBound DEF HandlerStep
<1>3. ASSUME NEW m \in DOMAIN casts, CastStep(m) PROVE Bound'
  BY <1>3, CastBound
<1>4. CASE PassOn
  BY <1>4, PassOnBound
<1>5. CASE Asked
  BY <1>5, AskedBound DEF Asked, LinkAfter
<1>6. CASE Lapses
  BY <1>6 DEF Lapses, Lapse, othersOfEffect, rowVars, clientVars, Bound
<1>7. CASE Fault
  <2>1. CASE (\E h \in Handlers : Rejected(h)) /\ UNCHANGED clientVars
    BY <2>1, HandlerBound
  <2>2. CASE /\ \E a \in Answers : GetFails(a) /\ Fetched(a) /\ link' = LinkAfter(a)
             /\ UNCHANGED <<uplink, heard, ended>>
    BY <2>2, AskedBound DEF LinkAfter
  <2>3. CASE /\ \E a \in Answers :
                  /\ ServerDies(a) /\ Fetched(a)
                  /\ link' = IF link = "up" THEN "down" ELSE LinkAfter(a)
             /\ UNCHANGED <<uplink, heard, ended>>
    BY <2>3, AskedBound DEF LinkAfter
  <2> QED
    BY <1>7, <2>1, <2>2, <2>3 DEF Fault
<1>8. CASE ClientStep \/ ClientChoice \/ Cut \/ GiveUp
  BY <1>8, ClientBound
<1>9. CASE UNCHANGED vars
  BY <1>9 DEF vars, newsVars, clientVars, Bound
<1> QED
  BY <1>1, <1>2, <1>3, <1>4, <1>5, <1>6, <1>7, <1>8, <1>9 DEF Next

\* Both invariants hold of every behaviour.
LEMMA AlwaysBound == Spec => [](Told /\ Bound)
<1>1. WatchersInit => Told /\ Bound
  <2>1. WatchersInit => Told
    BY DEF WatchersInit, NewsInit, Told, ToldWasTrue, Nothing
  <2>2. WatchersInit => Bound
    <3> SUFFICES ASSUME WatchersInit PROVE Bound
      OBVIOUS
    <3>1. troubles \in 0 .. Troubles
      BY NewsAssumption DEF WatchersInit, NewsInit
    <3>2. /\ coded \in BOOLEAN /\ room \in BOOLEAN /\ uplink \in BOOLEAN
          /\ known \in BOOLEAN /\ ended \in BOOLEAN /\ overlapped \in BOOLEAN
      BY DEF WatchersInit, NewsInit
    <3> QED
      BY <3>1, <3>2 DEF WatchersInit, NewsInit, Bound
  <2> QED
    BY <2>1, <2>2
<1> QED
  BY <1>1, StepTells, StepBound, PTL DEF Spec

\* Row, keys, messages, lists and the watcher's own state keep their types.
THEOREM WatchersTypeCorrect == Spec => []TypeOK
BY AlwaysBound, BoundTyped, PTL

-----------------------------------------------------------------------------
(* What a decided widget shows.  Of all messages only that of the lock would *)
(* take it back, and that one is the first of the payment's: it is published *)
(* before the merchant can tell anyone of the payment (Starting), and the    *)
(* gateway has passed it on before it begins with any other.                 *)

NoLock(list) == \A i \in DOMAIN list : list[i] # "collateral:locked"

\* The creation has its message still to publish.
Starting ==
  /\ status = "PENDING" /\ ~known
  /\ get = "idle" /\ know = "none" /\ screen = "none" /\ link = "off"
  /\ bus = <<>> /\ \A m \in DOMAIN casts : casts[m] = "none"
  /\ \A h \in Handlers \ {"create"} : todo[h] = <<>>
  /\ todo["create"] # <<>> /\ Head(todo["create"]) = "collateral:locked"
  /\ NoLock(Tail(todo["create"]))

FirstOnBus ==
  \A i \in DOMAIN bus : bus[i].channel = "collateral:locked" =>
    i = 1 /\ screen \notin Ends /\ \A h \in Handlers : casts[h] = "none"

LockFirst ==
  kind = "widget" => FirstOnBus /\ (Starting \/ \A h \in Handlers : NoLock(todo[h]))

\* Lists without the message, put together, are without it.
LEMMA NoLockGlued ==
  ASSUME NEW s \in Seq(Effects), NEW t \in Seq(Effects), NoLock(s), NoLock(t)
  PROVE  NoLock(s \o t)
<1> SUFFICES ASSUME NEW i \in DOMAIN (s \o t) PROVE (s \o t)[i] # "collateral:locked"
  BY DEF NoLock
<1>1. /\ Len(s \o t) = Len(s) + Len(t) /\ i \in 1 .. Len(s \o t)
      /\ (s \o t)[i] = IF i <= Len(s) THEN s[i] ELSE t[i - Len(s)]
  BY ConcatProperties
<1>2. i <= Len(s) \/ i - Len(s) \in 1 .. Len(t)
  BY <1>1
<1>3. DOMAIN s = 1 .. Len(s) /\ DOMAIN t = 1 .. Len(t)
  OBVIOUS
<1> QED
  BY <1>1, <1>2, <1>3 DEF NoLock

\* Nor has the rest of such a list.
LEMMA NoLockTail ==
  ASSUME NEW s \in Seq(Effects), s # <<>>, NoLock(s)
  PROVE  Head(s) # "collateral:locked" /\ NoLock(Tail(s))
BY DEF NoLock

\* Only the list of a creation has it, before everything that matters to a widget.
LEMMA NoLockLists ==
  ASSUME kind = "widget"
  PROVE  /\ NoLock(<<>>) /\ NoLock(ConfirmTells) /\ NoLock(AdminTells)
         /\ \A new : NoLock(OwnerTells(new))
         /\ NoLock(TimeoutTells) /\ NoLock(ExpireTells) /\ NoLock(OrphanTells)
         /\ NoLock(ReleaseTells) /\ \A h : NoLock(AfterError(h))
         /\ CreateTells = <<"collateral:locked", "set", "answer">>
<1>1. /\ Kept("collateral:locked") = <<"collateral:locked">> /\ Kept("set") = <<"set">>
      /\ Kept("answer") = <<"answer">> /\ Kept("lock") = <<>> /\ Kept("setCode") = <<>>
  BY DEF Kept, Matters, Heeds, Customers, AdminChannels, CustomerChannels, OwnerChannels
<1>2. CreateTells = <<"collateral:locked", "set", "answer">>
  <2>1. CreateTells = <<>> \o <<"collateral:locked">> \o <<"set">> \o <<>> \o <<"answer">>
    BY <1>1 DEF CreateTells
  <2>2. /\ "collateral:locked" \in Effects /\ "set" \in Effects /\ "answer" \in Effects
    BY DEF Effects, AdminChannels, CustomerChannels
  <2>3. <<"collateral:locked">> \in Seq(Effects) /\ <<"collateral:locked", "set">> \in Seq(Effects)
    BY <2>2
  <2>4. /\ <<>> \o <<"collateral:locked">> = <<"collateral:locked">>
        /\ <<"collateral:locked", "set">> \o <<>> = <<"collateral:locked", "set">>
    BY <2>3, ConcatEmptySeq
  <2>5. /\ <<"collateral:locked">> \o <<"set">> = <<"collateral:locked", "set">>
        /\ <<"collateral:locked", "set">> \o <<"answer">> = <<"collateral:locked", "set", "answer">>
    BY <2>2, Pair, Triple
  <2> QED
    BY <2>1, <2>4, <2>5
<1>3. ASSUME NEW e \in Effects, e # "collateral:locked"
      PROVE  Kept(e) \in Seq(Effects) /\ NoLock(Kept(e))
  BY <1>3, KeptTyped DEF Kept, NoLock
<1>4. NoLock(<<>>) /\ NoLock(ReleaseTells)
  BY DEF NoLock, ReleaseTells
<1> DEFINE Good(s) == s \in Seq(Effects) /\ NoLock(s)
<1>5. \A s, t : Good(s) /\ Good(t) => Good(s \o t)
  BY NoLockGlued, ConcatProperties
<1>6. \A e \in {"payment:customer-confirmed", "payment:approved", "release", "set", "reject",
                "payment:bank-owner-approved", "payment:rejected", "payment:bank-owner-rejected",
                "payment:approval-timeout", "expire", "del", "delCode", "payment:expired"} :
        Good(Kept(e))
  BY <1>3 DEF Effects, AdminChannels, CustomerChannels, OwnerChannels
<1> HIDE DEF Good
<1>7. /\ Good(ConfirmTells) /\ Good(AdminTells) /\ \A new : Good(OwnerTells(new))
      /\ Good(TimeoutTells) /\ Good(ExpireTells) /\ Good(OrphanTells)
  BY <1>5, <1>6 DEF ConfirmTells, AdminTells, OwnerTells, TimeoutTells, ExpireTells, OrphanTells
<1>8. \A h : NoLock(AfterError(h))
  BY <1>4, <1>6, <1>7 DEF AfterError, Good
<1> QED
  BY <1>2, <1>4, <1>7, <1>8 DEF Good

\* While the creation has still to publish, nobody else can do anything but the creation
\* itself, and the keys lapse.
LEMMA OnlyTheCreation ==
  ASSUME Bound, kind = "widget", Starting, [Next]_vars
  PROVE  Starting' \/ ((Do("create") \/ Rejected("create")) /\ UNCHANGED clientVars)
<1> DEFINE Goal == Starting' \/ ((Do("create") \/ Rejected("create")) /\ UNCHANGED clientVars)
<1> USE DEF Starting
<1>1. ASSUME NEW h \in Handlers, Do(h) \/ Release(h) \/ Rejected(h), UNCHANGED clientVars PROVE Goal
  <2>1. h = "create"
    BY <1>1 DEF Do, Release, Rejected
  <2> QED
    BY <1>1, <2>1 DEF Release
<1>2. CASE Begin
  BY <1>2 DEF Begin, Create, Confirm, AdminDecides, OwnerDecides, TimeoutReads, ExpireReads,
              OrphanReads, Ends
<1>3. ASSUME NEW m \in DOMAIN casts, CastStep(m) PROVE Goal
  BY <1>3 DEF CastStep, CastRead, CastEmit
<1>4. CASE PassOn
  BY <1>4 DEF PassOn, Deliver
<1>5. ASSUME NEW a, GetStep(a) \/ GetFails(a) PROVE Goal
  BY <1>5 DEF GetStep, FindCode, LookUp, ReadRow, Store, GetFails, Statuses, Ends
<1>6. ASSUME NEW a, ServerDies(a) PROVE Goal
  BY <1>6 DEF ServerDies, Handlers
<1>7. CASE Lapse /\ UNCHANGED clientVars
  BY <1>7 DEF Lapse, rowVars, othersOfEffect, clientVars
<1>8. CASE ClientStep \/ ClientChoice \/ Cut \/ GiveUp
  BY <1>8 DEF ClientStep, ClientChoice, Connect, Connects, Subscribed, Join, Open, CallerAsks, Ask,
              Leave, Dismiss, Ends, Cut, GiveUp
<1>9. CASE UNCHANGED vars
  BY <1>9 DEF vars, newsVars, clientVars
<1> QED
  BY <1>1, <1>2, <1>3, <1>4, <1>5, <1>6, <1>7, <1>8, <1>9
     DEF Next, HandlerStep, Asked, Lapses, Fault

\* What is left of a list without the message is without it, and a notice is another one.
LEMMA TodoNoLock ==
  ASSUME Bound, \A h \in Handlers : h # "create" => NoLock(todo[h]),
         NEW h \in Handlers, h = "create" \/ NoLock(todo["create"]),
         NEW rest, NoLock(rest), NEW e, Todo(h, rest, e)
  PROVE  \A g \in Handlers : NoLock(todo'[g])
<1>1. NoLock(<<NoticeOf(e)>>)
  BY DEF NoLock, NoticeOf
<1>2. \A g \in Handlers : todo'[g] \in {todo[g], rest, <<NoticeOf(e)>>} /\ todo'[h] \in {rest, <<NoticeOf(e)>>}
  BY DEF Todo, Bound
<1> QED
  BY <1>1, <1>2

\* The message is published first, or not at all.
LEMMA EffectFirst ==
  ASSUME Bound, NEW h, NEW e, Effect(h, e), FirstOnBus, UNCHANGED <<screen, casts>>,
         e = "collateral:locked" => Starting
  PROVE  FirstOnBus'
<1>1. bus' = bus \/ bus' = Append(bus, [channel |-> e, by |-> h])
  BY DEF Effect, RowEffect, RedisEffect, Publish, redisVars
<1>2. CASE bus' = bus
  BY <1>2 DEF FirstOnBus
<1>3. CASE bus' = Append(bus, [channel |-> e, by |-> h])
  <2>1. /\ DOMAIN bus' = 1 .. Len(bus) + 1
        /\ \A i \in 1 .. Len(bus) : bus'[i] = bus[i]
        /\ bus'[Len(bus) + 1].channel = e
    BY <1>3 DEF Bound
  <2>2. DOMAIN bus = 1 .. Len(bus) /\ Len(bus) \in Nat
    BY DEF Bound
  <2>3. CASE e # "collateral:locked"
    BY <2>1, <2>2, <2>3 DEF FirstOnBus
  <2>4. CASE Starting
    <3>1. Len(bus) = 0
      BY <2>4 DEF Starting
    <3>2. screen \notin Ends /\ \A g \in Handlers : casts[g] = "none"
      BY <2>4 DEF Starting, Ends, Bound
    <3> QED
      BY <2>1, <3>1, <3>2 DEF FirstOnBus
  <2> QED
    BY <2>3, <2>4
<1> QED
  BY <1>1, <1>2, <1>3

\* A handler goes on.
LEMMA HandlerFirst ==
  ASSUME Bound, LockFirst, kind = "widget", NEW h \in Handlers,
         Do(h) \/ Release(h) \/ Rejected(h), UNCHANGED clientVars
  PROVE  LockFirst'
<1>1. todo[h] \in Seq(Effects) /\ todo[h] # <<>>
  BY DEF Bound, Do, Release, Rejected
<1>2. UNCHANGED <<kind, screen, casts>>
  BY DEF Do, Release, Rejected, othersOfEffect, clientVars
<1>3. /\ NoLock(Tail(todo[h]))
      /\ Head(todo[h]) = "collateral:locked" => Starting
      /\ \A g \in Handlers : g # "create" => NoLock(todo[g])
      /\ h = "create" \/ NoLock(todo["create"])
  <2>1. CASE Starting
    <3>1. h = "create"
      BY <1>1, <2>1 DEF Starting
    <3> QED
      BY <2>1, <3>1, NoLockLists DEF Starting
  <2>2. CASE \A g \in Handlers : NoLock(todo[g])
    BY <1>1, <2>2, NoLockTail DEF Handlers
  <2> QED
    BY <2>1, <2>2 DEF LockFirst
<1>4. FirstOnBus'
  <2>1. CASE Effect(h, Head(todo[h]))
    BY <1>2, <1>3, <2>1, EffectFirst DEF LockFirst
  <2>2. CASE UNCHANGED redisVars
    BY <1>2, <2>2 DEF redisVars, LockFirst, FirstOnBus
  <2> QED
    BY <2>1, <2>2 DEF Do, Release, Rejected
<1>5. NoLock(ReleaseTells \o Tail(todo[h]))
  <2>1. Tail(todo[h]) \in Seq(Effects)
    BY <1>1
  <2>2. ReleaseTells \in Seq(Effects) /\ NoLock(ReleaseTells)
    BY NoLockLists, ListsTyped
  <2> QED
    BY <1>3, <2>1, <2>2, NoLockGlued
<1>6. \E rest, e : NoLock(rest) /\ Todo(h, rest, e)
  BY <1>3, <1>5, NoLockLists DEF Do, Release, Rejected
<1>7. \A g \in Handlers : NoLock(todo'[g])
  BY <1>3, <1>6, TodoNoLock
<1> QED
  BY <1>2, <1>4, <1>7 DEF LockFirst, NoLock

\* A request begins: the creation with its message, every other without.
LEMMA BeginFirst ==
  ASSUME Told, Bound, LockFirst, kind = "widget", Begin, UNCHANGED clientVars
  PROVE  LockFirst'
<1>1. UNCHANGED <<kind, screen, casts, bus>>
  BY DEF Begin, Create, Confirm, AdminDecides, OwnerDecides, TimeoutReads, ExpireReads,
         OrphanReads, othersOfBegin, redisVars, clientVars
<1>2. FirstOnBus'
  BY <1>1 DEF LockFirst, FirstOnBus
<1>3. CASE Create
  <2>1. Nothing /\ kind \in Customers
    BY <1>3 DEF Create, Told, Customers
  <2>2. todo' = [todo EXCEPT !["create"] = <<"collateral:locked", "set", "answer">>]
    BY <1>3, NoLockLists DEF Create, Begins
  <2>3. /\ todo'["create"] = <<"collateral:locked", "set", "answer">>
        /\ \A h \in Handlers \ {"create"} : todo'[h] = <<>>
    BY <2>1, <2>2 DEF Bound, Nothing, Handlers
  <2>4. NoLock(<<"set", "answer">>)
    BY DEF NoLock
  <2>5. /\ todo'["create"] # <<>> /\ Head(todo'["create"]) = "collateral:locked"
        /\ NoLock(Tail(todo'["create"]))
    BY <2>3, <2>4
  <2>6. Starting'
    BY <1>3, <2>1, <2>3, <2>5 DEF Create, Becomes, Nothing, Starting, othersOfBegin, redisVars, clientVars
  <2> QED
    BY <1>1, <1>2, <2>6 DEF LockFirst
<1>4. ASSUME NEW h \in Handlers, NEW list, todo' = [todo EXCEPT ![h] = list], NoLock(list), ~Starting
      PROVE  LockFirst'
  BY <1>1, <1>2, <1>4 DEF LockFirst, Bound, NoLock
<1>5. CASE ~Create
  <2>1. ~Starting
    BY <1>5 DEF Begin, Confirm, AdminDecides, OwnerDecides, TimeoutReads, ExpireReads, OrphanReads,
                Starting, Ends
  <2>2. \E h \in Handlers : \E list : todo' = [todo EXCEPT ![h] = list] /\ NoLock(list)
    BY <1>5, NoLockLists DEF Begin, Begins, Confirm, AdminDecides, OwnerDecides, TimeoutReads,
       ExpireReads, OrphanReads, Handlers
  <2> QED
    BY <1>4, <2>1, <2>2
<1> QED
  BY <1>3, <1>5

\* A widget hears of the lock that its payment is in process, and in a cast a status.
LEMMA WidgetShows ==
  ASSUME Bound, kind = "widget", NEW m, Hears(m)
  PROVE  \/ UNCHANGED screen
         \/ m.event = "payment:processing"
         \/ m.event = "payment:updated" /\ screen' = WidgetScreen(m.value)
BY DEF Hears, WidgetHears, Listens, Silence

\* The message is passed on before any other, which no decided widget has heard of.
LEMMA PassOnFirst ==
  ASSUME Bound, LockFirst, kind = "widget", PassOn
  PROVE  LockFirst' /\ (screen \in Ends => screen' = screen)
<1>1. Deliver /\ Hears(Direct(Head(bus))) /\ bus # <<>> /\ bus' = Tail(bus)
  BY DEF PassOn, Deliver
<1>2. bus \in Seq(Messages) /\ DOMAIN bus = 1 .. Len(bus) /\ Len(bus) \in Nat /\ Len(bus) > 0
  BY <1>1 DEF Bound
<1>3. FirstOnBus'
  <2>1. \A i \in DOMAIN bus' : i \in Nat \ {0} /\ i + 1 \in DOMAIN bus /\ bus'[i] = bus[i + 1]
    BY <1>1, <1>2
  <2>2. \A i \in DOMAIN bus' : bus'[i].channel # "collateral:locked"
    <3> SUFFICES ASSUME NEW i \in DOMAIN bus', bus'[i].channel = "collateral:locked" PROVE FALSE
      OBVIOUS
    <3>1. i + 1 = 1
      BY <2>1 DEF LockFirst, FirstOnBus
    <3> QED
      BY <2>1, <3>1
  <2> QED
    BY <2>2 DEF FirstOnBus
<1>4. LockFirst'
  <2>1. UNCHANGED <<kind, todo>>
    BY <1>1 DEF Deliver
  <2>2. ~Starting
    BY <1>1 DEF Starting
  <2> QED
    BY <1>3, <2>1, <2>2 DEF LockFirst, NoLock
<1>5. ASSUME screen \in Ends PROVE screen' = screen
  <2>1. Head(bus).channel # "collateral:locked"
    BY <1>2, <1>5 DEF LockFirst, FirstOnBus
  <2>2. Direct(Head(bus)).event \notin {"payment:processing", "payment:updated"}
    BY <2>1 DEF Direct, InRoom, Silence
  <2> QED
    BY <1>1, <2>2, WidgetShows
<1> QED
  BY <1>4, <1>5

\* A cast shows how the payment ended, or leaves the screen as it is.
LEMMA CastFirst ==
  ASSUME Bound, LockFirst, kind = "widget", NEW m \in DOMAIN casts, CastStep(m)
  PROVE  LockFirst' /\ (screen' = screen \/ screen' \in Ends)
<1>1. casts[m] # "none" /\ UNCHANGED <<kind, todo, bus>>
  BY DEF CastStep, CastRead, CastEmit, redisVars
<1>2. ~Starting
  BY <1>1 DEF Starting
<1>3. \A n \in DOMAIN casts : n # m => casts'[n] = casts[n]
  BY DEF CastStep, CastRead, CastEmit
<1>4. \/ UNCHANGED screen
      \/ m \in Handlers /\ screen' \in Ends
  <2>1. CASE UNCHANGED clientVars
    BY <2>1 DEF clientVars
  <2>2. CASE CastEmit(m) /\ Hears(CastSays(m))
    <3>1. CASE m = "join"
      <4>1. CastSays(m).event \notin {"payment:processing", "payment:updated"}
        BY <3>1 DEF CastSays, CastEvent, InRoom, Silence
      <4> QED
        BY <2>2, <4>1, WidgetShows
    <3>2. CASE m # "join"
      <4>1. /\ CastSays(m).event # "payment:processing"
            /\ CastSays(m).event = "payment:updated" => CastSays(m).value = casts[m]
        BY DEF CastSays, CastEvent, InRoom, Silence
      <4>2. UNCHANGED screen \/ screen' = WidgetScreen(casts[m])
        BY <2>2, <4>1, WidgetShows
      <4>3. WidgetScreen(casts[m]) \in Ends \cup {screen}
        BY DEF WidgetScreen, Renderable, Bound, Statuses, Ends
      <4> QED
        BY <3>2, <4>2, <4>3 DEF Bound
    <3> QED
      BY <3>1, <3>2
  <2> QED
    BY <2>1, <2>2 DEF CastStep
<1>5. FirstOnBus'
  <2>1. CASE m \in Handlers
    <3>1. \A i \in DOMAIN bus : bus[i].channel # "collateral:locked"
      BY <1>1, <2>1 DEF LockFirst, FirstOnBus
    <3> QED
      BY <1>1, <3>1 DEF FirstOnBus
  <2>2. CASE m \notin Handlers
    BY <1>1, <1>3, <1>4, <2>2 DEF LockFirst, FirstOnBus, Bound
  <2> QED
    BY <2>1, <2>2
<1> QED
  BY <1>1, <1>2, <1>4, <1>5 DEF LockFirst, NoLock

\* Nothing else publishes or casts for a handler, and no screen shows an end by itself.
LEMMA ClientFirst ==
  ASSUME Bound, LockFirst, kind = "widget", ~Starting,
         \/ \E a : /\ GetStep(a) \/ GetFails(a) \/ ServerDies(a)
                   /\ Fetched(a)
         \/ Lapse /\ UNCHANGED clientVars
         \/ ClientStep \/ ClientChoice \/ Cut \/ GiveUp
         \/ UNCHANGED vars
  PROVE  LockFirst' /\ screen' \in {screen, "none", "loading"} /\ (screen \in Ends => screen' # "loading")
<1>1. ASSUME NEW a, GetStep(a) \/ GetFails(a), Fetched(a)
      PROVE  UNCHANGED <<kind, todo, bus, casts, screen>>
  BY <1>1 DEF GetStep, FindCode, LookUp, ReadRow, Store, GetFails, othersOfGet, Fetched, WidgetFetched
<1>2. ASSUME NEW a, ServerDies(a), Fetched(a)
      PROVE  LockFirst' /\ UNCHANGED screen
  <2>1. /\ todo' = [h \in Handlers |-> <<>>] /\ bus' = <<>> /\ UNCHANGED <<kind, screen>>
    BY <1>2 DEF ServerDies, Fetched, WidgetFetched
  <2> QED
    BY <2>1 DEF LockFirst, FirstOnBus, NoLock
<1>3. CASE Lapse /\ UNCHANGED clientVars
  BY <1>3 DEF Lapse, othersOfEffect, clientVars, LockFirst, FirstOnBus, NoLock, Ends
<1>4. CASE ClientStep \/ ClientChoice \/ Cut \/ GiveUp
  <2>1. /\ UNCHANGED <<kind, todo, bus>>
        /\ \A h \in Handlers : casts'[h] = casts[h]
    BY <1>4 DEF ClientStep, ClientChoice, Connect, Subscribed, Join, Open, CallerAsks, Ask, Leave,
                Dismiss, Cut, GiveUp, othersOfClient, othersOfCut, othersOfGet, redisVars, Bound,
                Handlers, clientVars
  <2>2. screen' \in {screen, "none", "loading"} /\ (screen \in Ends => screen' # "loading")
    BY <1>4 DEF ClientStep, ClientChoice, Connect, Subscribed, Open, CallerAsks, Leave, Dismiss,
                Cut, GiveUp, clientVars, Ends
  <2> QED
    BY <2>1, <2>2 DEF LockFirst, FirstOnBus, NoLock, Ends
<1>6. ASSUME UNCHANGED <<kind, todo, bus, casts, screen>> PROVE LockFirst'
  BY <1>6 DEF LockFirst, FirstOnBus, NoLock
<1>7. screen \in Ends => screen # "loading"
  BY DEF Ends
<1>8. CASE UNCHANGED vars
  BY <1>6, <1>7, <1>8 DEF vars, newsVars, clientVars
<1> QED
  BY <1>1, <1>2, <1>3, <1>4, <1>6, <1>7, <1>8

\* The watcher stays what it is.
LEMMA KindStays == [Next]_vars => UNCHANGED kind
<1> SUFFICES ASSUME [Next]_vars PROVE UNCHANGED kind
  OBVIOUS
<1>1. Begin \/ PassOn \/ Lapse => UNCHANGED kind
  BY DEF Begin, Create, Confirm, AdminDecides, OwnerDecides, TimeoutReads, ExpireReads, OrphanReads,
         othersOfBegin, PassOn, Deliver, Lapse, othersOfEffect
<1>2. \A h : Do(h) \/ Release(h) \/ Rejected(h) => UNCHANGED kind
  BY DEF Do, Release, Rejected, othersOfEffect
<1>3. \A m : CastStep(m) => UNCHANGED kind
  BY DEF CastStep, CastRead, CastEmit
<1>4. \A a : GetStep(a) \/ GetFails(a) \/ ServerDies(a) => UNCHANGED kind
  BY DEF GetStep, FindCode, LookUp, ReadRow, Store, GetFails, ServerDies, othersOfGet
<1>5. ClientStep \/ ClientChoice \/ Cut \/ GiveUp => UNCHANGED kind
  BY DEF ClientStep, ClientChoice, Connect, Subscribed, Join, Open, CallerAsks, Ask, Leave, Dismiss,
         Cut, GiveUp, othersOfClient, othersOfCut, othersOfGet
<1> QED
  BY <1>1, <1>2, <1>3, <1>4, <1>5
     DEF Next, HandlerStep, Asked, Lapses, Fault, vars, newsVars

\* Every step keeps the message of the lock first, and a decided screen decided.
LEMMA StepFirst ==
  ASSUME Told, Bound, LockFirst, [Next]_vars
  PROVE  /\ LockFirst'
         /\ kind = "widget" /\ screen \in Ends => screen' \in Ends \cup {"none"}
<1> DEFINE Goal == /\ LockFirst'
                   /\ screen \in Ends => screen' \in Ends \cup {"none"}
<1>1. CASE kind # "widget"
  BY <1>1, KindStays DEF LockFirst
<1>2. CASE kind = "widget"
  <2> SUFFICES Goal
    BY <1>2
  <2> USE <1>2
  <2>1. ASSUME NEW h \in Handlers, Do(h) \/ Release(h) \/ Rejected(h), UNCHANGED clientVars
        PROVE  Goal
    BY <2>1, HandlerFirst DEF clientVars
  <2>2. CASE Starting
    <3>1. screen \notin Ends
      BY <2>2 DEF Starting, Ends
    <3>2. CASE Starting'
      <4>1. FirstOnBus'
        BY <3>2 DEF Starting, FirstOnBus
      <4> QED
        BY <3>1, <3>2, <4>1 DEF LockFirst
    <3>3. CASE (Do("create") \/ Rejected("create")) /\ UNCHANGED clientVars
      BY <2>1, <3>3 DEF Handlers
    <3> QED
      BY <2>2, <3>2, <3>3, OnlyTheCreation
  <2>3. CASE ~Starting
    <3>1. CASE Begin /\ UNCHANGED clientVars
      BY <3>1, BeginFirst DEF clientVars
    <3>2. CASE PassOn
      BY <3>2, PassOnFirst
    <3>3. ASSUME NEW m \in DOMAIN casts, CastStep(m) PROVE Goal
      BY <3>3, CastFirst
    <3>4. CASE \/ Asked \/ Lapses \/ ClientStep \/ ClientChoice \/ Cut \/ GiveUp \/ UNCHANGED vars
               \/ Fault /\ ~ \E h \in Handlers : Rejected(h) /\ UNCHANGED clientVars
      <4>1. \/ \E a : /\ GetStep(a) \/ GetFails(a) \/ ServerDies(a)
                      /\ Fetched(a)
            \/ Lapse /\ UNCHANGED clientVars
            \/ ClientStep \/ ClientChoice \/ Cut \/ GiveUp
            \/ UNCHANGED vars
        BY <3>4 DEF Asked, Lapses, Fault
      <4> QED
        BY <2>3, <4>1, ClientFirst
    <3> QED
      BY <2>1, <3>1, <3>2, <3>3, <3>4 DEF Next, HandlerStep, Fault
  <2> QED
    BY <2>2, <2>3
<1> QED
  BY <1>1, <1>2

\* Once a widget shows how its payment ended, no message that comes late takes it back:
\* the one that could, of the lock, is published before the merchant has the payment's id
\* and passed on before every other (createPayment, broadcastPaymentUpdate, the widget).
THEOREM DecidedScreenStaysCorrect == Spec => DecidedScreenStays
<1>1. WatchersInit => LockFirst
  BY DEF WatchersInit, NewsInit, LockFirst, FirstOnBus, NoLock
<1>2. Told /\ Bound /\ LockFirst /\ [Next]_vars
        => LockFirst' /\ [kind = "widget" /\ screen \in Ends => screen' \in Ends \cup {"none"}]_vars
  BY StepFirst
<1> QED
  BY <1>1, <1>2, AlwaysBound, PTL DEF Spec, DecidedScreenStays

-----------------------------------------------------------------------------
(* What a subscriber holds when it hears nothing more.  As long as nothing   *)
(* was rejected or cut, something will make the gateway read the row after   *)
(* its last change (Coming), or has made it read the status the row has, or  *)
(* the subscriber holds that status.                                         *)

Endings == {"payment:approved", "payment:rejected", "payment:expired"}

HasNews(list) == \E i \in DOMAIN list : list[i] \in Endings
Coming ==
  \/ uplink
  \/ \E h \in Handlers : HasNews(todo[h])
  \/ \E i \in DOMAIN bus : bus[i].channel \in Endings

\* A handler that changes the row late publishes next.
Tidy(list) ==
  \A i \in DOMAIN list :
    /\ list[i] # "release"
    /\ list[i] \in {"reject", "expire"} => i + 1 \in DOMAIN list /\ list[i + 1] \in Endings

\* At most one cast is on its way.
Single == \A m, n \in DOMAIN casts : casts[m] # "none" /\ casts[n] # "none" => m = n

UpToDate ==
  \/ Coming
  \/ \E m \in DOMAIN casts : casts[m] \in {"unread", status}
  \/ know = status /\ \A m \in DOMAIN casts : casts[m] = "none"

Current ==
  kind = "subscriber" /\ troubles = Troubles =>
    /\ \A h \in Handlers : Tidy(todo[h])
    /\ link # "down" /\ (link = "up" => room \/ uplink)
    /\ ~overlapped => Single
    /\ link = "up" /\ ~overlapped /\ decider # "admin" => UpToDate

\* When nothing is on its way, this is what the property says.
LEMMA CurrentSuffices == Told /\ Bound /\ Current => SubscriberIsCurrent
<1> SUFFICES ASSUME Told, Bound, Current, kind = "subscriber", Quiet, ~Disturbed, ~overlapped,
                    decider # "admin"
             PROVE  know = status
  BY DEF SubscriberIsCurrent
<1>1. UpToDate
  BY DEF Current, Disturbed
<1>2. ~Coming
  BY DEF Coming, Quiet, HasNews
<1>3. status # "none"
  BY DEF Told, Bound, Statuses, Ends
<1> QED
  BY <1>1, <1>2, <1>3 DEF UpToDate, Quiet

\* The lists of the handlers, of which a subscriber hears little.
LEMMA SubscriberLists ==
  ASSUME kind = "subscriber"
  PROVE  /\ CreateTells = <<"collateral:locked", "answer">>
         /\ ConfirmTells = <<"payment:approved">>
         /\ AdminTells = <<>> /\ OrphanTells = <<>>
         /\ OwnerTells("APPROVED") = <<"payment:approved">>
         /\ OwnerTells("REJECTED") = <<"payment:rejected">>
         /\ TimeoutTells = <<"reject", "payment:rejected">>
         /\ ExpireTells = <<"expire", "payment:expired">>
<1>1. /\ \A e \in {"collateral:locked", "answer", "payment:approved", "payment:rejected",
                   "payment:expired", "reject", "expire"} : Kept(e) = <<e>>
      /\ \A e \in {"lock", "set", "setCode", "payment:customer-confirmed", "release", "del", "delCode",
                   "payment:bank-owner-approved", "payment:bank-owner-rejected",
                   "payment:approval-timeout"} : Kept(e) = <<>>
  BY DEF Kept, Matters, Heeds, Customers, AdminChannels, CustomerChannels, OwnerChannels
<1>2. \A e \in Effects : <<>> \o <<e>> = <<e>> /\ <<e>> \o <<>> = <<e>>
  <2> SUFFICES ASSUME NEW e \in Effects PROVE <<>> \o <<e>> = <<e>> /\ <<e>> \o <<>> = <<e>>
    OBVIOUS
  <2>1. <<e>> \in Seq(Effects)
    OBVIOUS
  <2> QED
    BY <2>1, ConcatEmptySeq
<1>3. ASSUME NEW d \in Effects, NEW e \in Effects
      PROVE  /\ <<>> \o <<d>> \o <<>> \o <<>> \o <<e>> = <<d, e>>
             /\ <<d>> \o <<e>> \o <<>> \o <<>> = <<d, e>>
             /\ <<d>> \o <<>> \o <<>> \o <<>> \o <<e>> = <<d, e>>
  <2>1. <<d>> \o <<e>> = <<d, e>> /\ <<>> \o <<d>> = <<d>> /\ <<d>> \o <<>> = <<d>>
    BY <1>2, Pair
  <2>2. <<d, e>> \in Seq(Effects)
    OBVIOUS
  <2>3. <<d, e>> \o <<>> = <<d, e>>
    BY <2>2, ConcatEmptySeq
  <2> QED
    BY <2>1, <2>3
<1>4. <<>> \o <<>> = <<>>
  <2>1. <<>> \in Seq(Effects)
    OBVIOUS
  <2> QED
    BY <2>1, ConcatEmptySeq
<1>5. {"collateral:locked", "answer", "payment:approved", "payment:rejected", "payment:expired",
       "reject", "expire"} \subseteq Effects
  BY DEF Effects, AdminChannels, CustomerChannels
<1>6. CreateTells = <<"collateral:locked", "answer">>
  <2>1. CreateTells = <<>> \o <<"collateral:locked">> \o <<>> \o <<>> \o <<"answer">>
    BY <1>1 DEF CreateTells
  <2> QED
    BY <1>3, <1>5, <2>1
<1>7. ConfirmTells = <<"payment:approved">> /\ AdminTells = <<>> /\ OrphanTells = <<>>
  BY <1>1, <1>2, <1>4, <1>5 DEF ConfirmTells, AdminTells, OrphanTells
<1>8. /\ OwnerTells("APPROVED") = <<"payment:approved">>
      /\ OwnerTells("REJECTED") = <<"payment:rejected">>
  BY <1>1, <1>2, <1>4, <1>5 DEF OwnerTells
<1>9. TimeoutTells = <<"reject", "payment:rejected">>
  <2>1. TimeoutTells = <<"reject">> \o <<"payment:rejected">> \o <<>> \o <<>>
    BY <1>1 DEF TimeoutTells
  <2> QED
    BY <1>3, <1>5, <2>1
<1>10. ExpireTells = <<"expire", "payment:expired">>
  <2>1. ExpireTells = <<"expire">> \o <<>> \o <<>> \o <<>> \o <<"payment:expired">>
    BY <1>1 DEF ExpireTells
  <2> QED
    BY <1>3, <1>5, <2>1
<1> QED
  BY <1>6, <1>7, <1>8, <1>9, <1>10

\* They are tidy, and those of a decision, and of a confirmation, have news.
LEMMA SubscriberListsTidy ==
  ASSUME kind = "subscriber"
  PROVE  /\ Tidy(CreateTells) /\ Tidy(ConfirmTells) /\ Tidy(AdminTells) /\ Tidy(OrphanTells)
         /\ Tidy(TimeoutTells) /\ Tidy(ExpireTells)
         /\ HasNews(ConfirmTells)
         /\ \A new \in {"APPROVED", "REJECTED"} : Tidy(OwnerTells(new)) /\ HasNews(OwnerTells(new))
<1>1. Tidy(<<>>)
  BY DEF Tidy
<1>2. Tidy(<<"collateral:locked", "answer">>)
  BY DEF Tidy
<1>3. \A c \in Endings : Tidy(<<c>>) /\ HasNews(<<c>>)
  BY DEF Tidy, HasNews, Endings
<1>4. /\ Tidy(<<"reject", "payment:rejected">>)
      /\ Tidy(<<"expire", "payment:expired">>)
  BY DEF Tidy, Endings
<1> QED
  BY <1>1, <1>2, <1>3, <1>4, SubscriberLists DEF Endings

\* The rest of a tidy list is tidy, and has the news that the list had but first.
LEMMA TidyTail ==
  ASSUME NEW s \in Seq(Effects), s # <<>>, Tidy(s)
  PROVE  /\ Head(s) # "release" /\ Tidy(Tail(s))
         /\ HasNews(s) => Head(s) \in Endings \/ HasNews(Tail(s))
         /\ Head(s) \in {"reject", "expire"} => HasNews(Tail(s))
<1>1. /\ DOMAIN s = 1 .. Len(s) /\ Len(s) \in Nat /\ 1 \in DOMAIN s /\ Head(s) = s[1]
      /\ DOMAIN Tail(s) = 1 .. Len(s) - 1
      /\ \A i \in DOMAIN Tail(s) : i + 1 \in DOMAIN s /\ Tail(s)[i] = s[i + 1]
  OBVIOUS
<1>2. Tidy(Tail(s))
  <2> SUFFICES ASSUME NEW i \in DOMAIN Tail(s)
               PROVE  /\ Tail(s)[i] # "release"
                      /\ Tail(s)[i] \in {"reject", "expire"} =>
                           i + 1 \in DOMAIN Tail(s) /\ Tail(s)[i + 1] \in Endings
    BY DEF Tidy
  <2>1. i + 1 \in DOMAIN s /\ Tail(s)[i] = s[i + 1]
    BY <1>1
  <2>2. CASE s[i + 1] \in {"reject", "expire"}
    <3>1. (i + 1) + 1 \in DOMAIN s /\ s[(i + 1) + 1] \in Endings
      BY <2>1, <2>2 DEF Tidy
    <3>2. i + 1 \in DOMAIN Tail(s)
      BY <1>1, <3>1
    <3> QED
      BY <1>1, <2>1, <2>2, <3>1, <3>2
  <2> QED
    BY <2>1, <2>2 DEF Tidy
<1>3. ASSUME NEW i \in DOMAIN s, i # 1, s[i] \in Endings PROVE HasNews(Tail(s))
  <2>1. i - 1 \in DOMAIN Tail(s) /\ Tail(s)[i - 1] = s[i]
    BY <1>1, <1>3
  <2> QED
    BY <1>3, <2>1 DEF HasNews
<1>4. HasNews(s) => Head(s) \in Endings \/ HasNews(Tail(s))
  BY <1>1, <1>3 DEF HasNews
<1>5. Head(s) \in {"reject", "expire"} => HasNews(Tail(s))
  <2> SUFFICES ASSUME s[1] \in {"reject", "expire"} PROVE HasNews(Tail(s))
    BY <1>1
  <2>1. 1 + 1 \in DOMAIN s /\ s[1 + 1] \in Endings
    BY <1>1 DEF Tidy
  <2> QED
    BY <1>3, <2>1
<1> QED
  BY <1>1, <1>2, <1>4, <1>5 DEF Tidy

\* A request begins with a tidy list; it has news if it changes the row.
LEMMA BeginCurrent ==
  ASSUME Told, Bound, Current, kind = "subscriber", troubles = Troubles, Begin, UNCHANGED clientVars
  PROVE  Current'
<1>1. /\ UNCHANGED <<kind, bus, casts, room, link, troubles, overlapped, uplink, know>>
  BY DEF Begin, Create, Confirm, AdminDecides, OwnerDecides, TimeoutReads, ExpireReads,
         OrphanReads, othersOfBegin, redisVars, clientVars
<1>2. PICK h \in Handlers, list \in Seq(Effects) :
         /\ Begins(h, list) /\ Tidy(list)
         /\ \/ HasNews(list) \/ link # "up" \/ decider' = "admin" \/ UNCHANGED <<status, decider>>
  <2>1. CASE Create
    <3>1. link = "off"
      BY <2>1 DEF Create, Told, Nothing, Customers
    <3> QED
      BY <2>1, <3>1, SubscriberListsTidy, ListsTyped DEF Create, Handlers
  <2>2. CASE Confirm
    BY <2>2, SubscriberListsTidy, ListsTyped DEF Confirm, Handlers
  <2>3. CASE AdminDecides
    BY <2>3, SubscriberListsTidy, ListsTyped DEF AdminDecides, Becomes, Ends, Handlers
  <2>4. CASE OwnerDecides
    BY <2>4, SubscriberListsTidy, ListsTyped DEF OwnerDecides, Handlers
  <2>5. CASE TimeoutReads
    BY <2>5, SubscriberListsTidy, ListsTyped DEF TimeoutReads, rowVars, Handlers
  <2>6. CASE ExpireReads
    BY <2>6, SubscriberListsTidy, ListsTyped DEF ExpireReads, rowVars, Handlers
  <2>7. CASE OrphanReads
    BY <2>7, SubscriberListsTidy, ListsTyped DEF OrphanReads, rowVars, Handlers
  <2> QED
    BY <2>1, <2>2, <2>3, <2>4, <2>5, <2>6, <2>7 DEF Begin
<1>3. /\ todo[h] = <<>> /\ todo'[h] = list
      /\ \A g \in Handlers : g # h => todo'[g] = todo[g]
  BY <1>2 DEF Begins, Bound
<1>4. \A g \in Handlers : Tidy(todo'[g])
  BY <1>2, <1>3 DEF Current
<1>5. HasNews(list) => Coming'
  BY <1>3 DEF Coming, HasNews
<1>6. Coming => Coming'
  <2>1. ~HasNews(todo[h])
    BY <1>3 DEF HasNews
  <2>2. \A g \in Handlers : HasNews(todo[g]) => HasNews(todo'[g])
    BY <1>3, <2>1
  <2> QED
    BY <1>1, <2>2 DEF Coming, HasNews
<1>7. UNCHANGED <<status, decider>> /\ UpToDate => UpToDate'
  BY <1>1, <1>6 DEF UpToDate
<1>8. (link = "up" /\ ~overlapped /\ decider # "admin" => UpToDate)'
  BY <1>1, <1>2, <1>5, <1>7 DEF Current, UpToDate
<1> QED
  BY <1>1, <1>4, <1>8 DEF Current, Single, Tidy

\* A subscriber's gateway takes no notices.
LEMMA NoNotice ==
  ASSUME Bound, kind = "subscriber", NEW h, NEW rest, NEW e, Todo(h, rest, e)
  PROVE  todo' = [todo EXCEPT ![h] = rest]
BY DEF Todo, NoticeOf, Heeds, Customers, CustomerChannels

\* A handler that changes the row has its news to publish; one that publishes it has it on
\* the bus; every other step leaves the row and the news alone.
LEMMA DoCurrent ==
  ASSUME Bound, Current, kind = "subscriber", troubles = Troubles,
         NEW h \in Handlers, Do(h), UNCHANGED clientVars
  PROVE  Current'
<1> DEFINE e == Head(todo[h])
<1>1. todo[h] \in Seq(Effects) /\ todo[h] # <<>> /\ Tidy(todo[h])
  BY DEF Bound, Do, Current
<1>2. UNCHANGED <<kind, casts, room, link, troubles, overlapped, uplink, know>>
  BY DEF Do, othersOfEffect, clientVars
<1>3. /\ todo'[h] = Tail(todo[h])
      /\ \A g \in Handlers : g # h => todo'[g] = todo[g]
  <2>1. todo' = [todo EXCEPT ![h] = Tail(todo[h])]
    BY NoNotice DEF Do
  <2> QED
    BY <2>1 DEF Bound
<1>4. \A g \in Handlers : Tidy(todo'[g])
  BY <1>1, <1>3, TidyTail DEF Current
<1>5. \/ HasNews(Tail(todo[h]))
      \/ UNCHANGED <<status, decider>> /\ bus' = bus /\ e \notin Endings
      \/ UNCHANGED <<status, decider>> /\ bus' = Append(bus, [channel |-> e, by |-> h])
  <2>1. Effect(h, e)
    BY DEF Do
  <2>2. e \in {"reject", "expire"} => HasNews(Tail(todo[h]))
    BY <1>1, TidyTail
  <2> HIDE DEF e
  <2>3. CASE RowEffect(h, e)
    BY <2>2, <2>3 DEF RowEffect, redisVars, Endings
  <2>4. CASE RedisEffect(h, e)
    BY <2>4 DEF RedisEffect, rowVars, Publish, Endings
  <2>5. CASE e = "answer" /\ UNCHANGED <<rowVars, redisVars>>
    BY <2>5 DEF rowVars, redisVars, Endings
  <2> QED
    BY <2>1, <2>3, <2>4, <2>5 DEF Effect
<1>6. CASE HasNews(Tail(todo[h]))
  <2>1. Coming'
    BY <1>3, <1>6 DEF Coming, HasNews
  <2> QED
    BY <1>2, <1>4, <2>1 DEF Current, UpToDate, Single, Tidy
<1>7. CASE UNCHANGED <<status, decider>> /\ bus' = bus /\ e \notin Endings
  <2>1. \A g \in Handlers : HasNews(todo[g]) => HasNews(todo'[g])
    BY <1>1, <1>3, <1>7, TidyTail
  <2>2. Coming => Coming'
    BY <1>2, <1>7, <2>1 DEF Coming, HasNews
  <2>3. UpToDate => UpToDate'
    BY <1>2, <1>7, <2>2 DEF UpToDate
  <2> QED
    BY <1>2, <1>4, <1>7, <2>3 DEF Current, Single, Tidy
<1>8. CASE UNCHANGED <<status, decider>> /\ bus' = Append(bus, [channel |-> e, by |-> h])
  <2>1. /\ DOMAIN bus' = 1 .. Len(bus) + 1 /\ DOMAIN bus = 1 .. Len(bus) /\ Len(bus) \in Nat
        /\ \A i \in DOMAIN bus : bus'[i] = bus[i]
        /\ bus'[Len(bus) + 1].channel = e
    BY <1>8 DEF Bound
  <2>2. ASSUME NEW g \in Handlers, HasNews(todo[g]) PROVE Coming'
    <3>1. CASE HasNews(todo'[g])
      BY <3>1 DEF Coming, HasNews
    <3>2. CASE ~HasNews(todo'[g])
      <4>1. e \in Endings
        BY <1>1, <1>3, <2>2, <3>2, TidyTail
      <4>2. Len(bus) + 1 \in DOMAIN bus'
        BY <2>1
      <4> QED
        BY <2>1, <4>1, <4>2 DEF Coming
    <3> QED
      BY <3>1, <3>2
  <2>3. ASSUME NEW i \in DOMAIN bus, bus[i].channel \in Endings PROVE Coming'
    BY <2>1, <2>3 DEF Coming
  <2>4. Coming => Coming'
    BY <1>2, <2>2, <2>3 DEF Coming
  <2>5. UpToDate => UpToDate'
    BY <1>2, <1>8, <2>4 DEF UpToDate
  <2> QED
    BY <1>2, <1>4, <1>8, <2>5 DEF Current, Single, Tidy
<1> QED
  BY <1>5, <1>6, <1>7, <1>8

\* News that is passed on has the row read for.
LEMMA PassOnCurrent ==
  ASSUME Bound, Current, kind = "subscriber", troubles = Troubles, PassOn
  PROVE  Current'
<1> DEFINE m == Head(bus)
<1>1. /\ bus # <<>> /\ casts[m.by] = "none" /\ bus' = Tail(bus)
      /\ UNCHANGED <<kind, status, decider, todo, room, link, troubles, uplink>>
      /\ IF ReadsFirst(m) THEN StartCast(m) ELSE UNCHANGED <<casts, overlapped>>
  BY DEF PassOn, Deliver, rowVars
<1>2. UNCHANGED know
  BY HeardIsSaid, DirectIsNoStatus DEF PassOn, Hears, SubscriberHears, Listens
<1>3. \A g \in Handlers : Tidy(todo'[g])
  BY <1>1 DEF Current, Tidy
<1>4. m \in Messages
  BY <1>1 DEF Bound
<1>5. CASE ReadsFirst(m)
  <2>1. /\ casts' = [casts EXCEPT ![m.by] = "unread"]
        /\ overlapped' = (overlapped \/ \E n \in DOMAIN casts : casts[n] # "none")
    BY <1>1, <1>5 DEF StartCast, CastBegins, Overlapping
  <2>2. m.by \in DOMAIN casts /\ casts'[m.by] = "unread" /\ DOMAIN casts' = DOMAIN casts
    BY <1>4, <2>1 DEF Messages, Bound
  <2>3. UpToDate'
    BY <2>2 DEF UpToDate
  <2>4. (~overlapped => Single)'
    <3> SUFFICES ASSUME ~overlapped' PROVE Single'
      OBVIOUS
    <3>1. \A n \in DOMAIN casts : casts[n] = "none"
      BY <2>1
    <3>2. \A n \in DOMAIN casts' : n # m.by => casts'[n] = "none"
      BY <2>1, <2>2, <3>1
    <3> QED
      BY <3>2 DEF Single
  <2> QED
    BY <1>1, <1>3, <2>3, <2>4 DEF Current
<1>6. CASE ~ReadsFirst(m)
  <2>1. m.channel \notin Endings
    BY <1>6 DEF ReadsFirst, Endings
  <2>2. UNCHANGED <<casts, overlapped>>
    BY <1>1, <1>6
  <2>3. ASSUME NEW i \in DOMAIN bus, bus[i].channel \in Endings
        PROVE  \E j \in DOMAIN bus' : bus'[j].channel \in Endings
    <3>1. i # 1
      BY <1>1, <2>1, <2>3 DEF Bound
    <3>2. i - 1 \in DOMAIN bus' /\ bus'[i - 1] = bus[i]
      BY <1>1, <2>3, <3>1 DEF Bound
    <3> QED
      BY <2>3, <3>2
  <2>4. Coming => Coming'
    BY <1>1, <2>3 DEF Coming, HasNews
  <2>5. UpToDate => UpToDate'
    BY <1>1, <1>2, <2>2, <2>4 DEF UpToDate
  <2> QED
    BY <1>1, <1>3, <2>2, <2>5 DEF Current, Single
<1> QED
  BY <1>5, <1>6

\* A read that comes back has the status of the row; the last one emitted is what the
\* subscriber holds.
LEMMA CastCurrent ==
  ASSUME Told, Bound, Current, kind = "subscriber", troubles = Troubles,
         NEW m \in DOMAIN casts, CastStep(m)
  PROVE  Current'
<1>1. UNCHANGED <<kind, status, decider, todo, bus, room, link, troubles, overlapped, uplink>>
  BY DEF CastStep, CastRead, CastEmit, rowVars, redisVars, clientVars
<1>2. /\ DOMAIN casts' = DOMAIN casts
      /\ \A n \in DOMAIN casts : n # m => casts'[n] = casts[n]
  BY DEF CastStep, CastRead, CastEmit
<1>3. \A g \in Handlers : Tidy(todo'[g])
  BY <1>1 DEF Current, Tidy
<1>4. Coming => Coming'
  BY <1>1 DEF Coming, HasNews
<1>5. casts[m] # "none"
  BY DEF CastStep, CastRead, CastEmit
<1>6. Single => Single'
  BY <1>2, <1>5 DEF Single
<1>7. CASE CastRead(m)
  <2>1. casts'[m] = status
    BY <1>7 DEF CastRead, Bound
  <2>2. UpToDate'
    BY <1>1, <1>2, <2>1 DEF UpToDate
  <2> QED
    BY <1>1, <1>3, <1>6, <2>2 DEF Current
<1>8. CASE CastEmit(m) /\ Hears(CastSays(m))
  <2>1. casts[m] # "unread" /\ casts'[m] = "none"
    BY <1>8 DEF CastEmit, Bound
  <2>2. room => know' = casts[m]
    BY <1>8 DEF CastSays, CastEvent, InRoom, Hears, SubscriberHears, Listens, Silence
  <2>3. status # "none"
    BY DEF Told, Bound, Statuses, Ends
  <2>4. ASSUME link = "up", ~overlapped, decider # "admin" PROVE UpToDate'
    <3>1. UpToDate /\ Single /\ (room \/ uplink)
      BY <2>4 DEF Current
    <3>2. CASE Coming
      BY <1>4, <3>2 DEF UpToDate
    <3>3. CASE ~Coming
      <4>1. room
        BY <3>1, <3>3 DEF Coming
      <4>2. \A n \in DOMAIN casts : n # m => casts[n] = "none"
        BY <1>5, <3>1 DEF Single
      <4>3. casts[m] = status
        BY <1>5, <2>1, <2>3, <3>1, <3>3, <4>2 DEF UpToDate
      <4>4. know' = status' /\ \A n \in DOMAIN casts' : casts'[n] = "none"
        BY <1>1, <1>2, <2>1, <2>2, <4>1, <4>2, <4>3
      <4> QED
        BY <4>4 DEF UpToDate
    <3> QED
      BY <3>2, <3>3
  <2> QED
    BY <1>1, <1>3, <1>6, <2>4 DEF Current
<1> QED
  BY <1>7, <1>8 DEF CastStep

\* The client's own steps: a new connection subscribes, and what it subscribes to has the
\* row read for.
LEMMA ClientCurrent ==
  ASSUME Bound, Current, kind = "subscriber", troubles = Troubles,
         \/ \E a : /\ GetStep(a) /\ Fetched(a) /\ link' = LinkAfter(a)
                   /\ UNCHANGED uplink
         \/ Lapse /\ UNCHANGED clientVars
         \/ ClientStep \/ ClientChoice \/ GiveUp
         \/ UNCHANGED vars
  PROVE  Current'
<1>1. ASSUME UNCHANGED <<kind, status, decider, todo, bus, casts, room, link, troubles, overlapped,
                         uplink, know>>
      PROVE  Current'
  BY <1>1 DEF Current, UpToDate, Coming, Single, Tidy, HasNews
<1>2. ASSUME NEW a, GetStep(a), Fetched(a), link' = LinkAfter(a), UNCHANGED uplink PROVE Current'
  <2>1. UNCHANGED <<othersOfGet, troubles, link, know>>
    BY <1>2 DEF GetStep, FindCode, LookUp, ReadRow, Store, Fetched, LinkAfter
  <2> QED
    BY <1>1, <1>2, <2>1 DEF othersOfGet, rowVars
<1>3. CASE Lapse /\ UNCHANGED clientVars
  BY <1>1, <1>3 DEF Lapse, rowVars, othersOfEffect, clientVars
<1>4. CASE Connect
  <2>1. link = "off" /\ uplink'
    BY <1>4 DEF Connect, Current, Subscribes
  <2>2. UNCHANGED <<kind, todo, casts, troubles, overlapped>> /\ link' = "up"
    BY <1>4 DEF Connect, othersOfClient, othersOfCut
  <2> QED
    BY <2>1, <2>2 DEF Current, UpToDate, Coming, Single, Tidy
<1>5. CASE Subscribed
  <2>1. /\ room' /\ casts' = [casts EXCEPT !["join"] = "unread"]
        /\ overlapped' = (overlapped \/ \E n \in DOMAIN casts : casts[n] # "none")
        /\ UNCHANGED <<kind, todo, link, troubles>>
    BY <1>5 DEF Subscribed, Join, FirstStatus, Overlapping
  <2>2. "join" \in DOMAIN casts /\ casts'["join"] = "unread" /\ DOMAIN casts' = DOMAIN casts
    BY <2>1 DEF Bound
  <2>3. UpToDate'
    BY <2>2 DEF UpToDate
  <2>4. (~overlapped => Single)'
    <3> SUFFICES ASSUME ~overlapped' PROVE Single'
      OBVIOUS
    <3>1. \A n \in DOMAIN casts : casts[n] = "none"
      BY <2>1
    <3>2. \A n \in DOMAIN casts' : n # "join" => casts'[n] = "none"
      BY <2>1, <2>2, <3>1
    <3> QED
      BY <3>2 DEF Single
  <2> QED
    BY <2>1, <2>3, <2>4 DEF Current, Tidy
<1>6. CASE Leave
  BY <1>6 DEF Leave, othersOfClient, othersOfCut, Current, Single, Tidy
<1>7. CASE GiveUp
  BY <1>7 DEF GiveUp, Current
<1>8. CASE UNCHANGED vars
  BY <1>1, <1>8 DEF vars, newsVars, clientVars
<1>9. ~Open /\ ~CallerAsks /\ ~Dismiss
  BY DEF Open, CallerAsks, Dismiss
<1> QED
  BY <1>2, <1>3, <1>4, <1>5, <1>6, <1>7, <1>8, <1>9 DEF ClientStep, ClientChoice

\* A trouble is not made up for.
LEMMA TroublesStay ==
  ASSUME Bound, [Next]_vars
  PROVE  troubles' = Troubles => troubles = Troubles
<1>1. troubles \in Nat /\ Troubles \in Nat /\ troubles <= Troubles
  BY NewsAssumption DEF Bound
<1>2. troubles' = troubles \/ troubles' = troubles - 1
  <2>1. Begin \/ PassOn \/ Lapse => UNCHANGED troubles
    BY DEF Begin, Create, Confirm, AdminDecides, OwnerDecides, TimeoutReads, ExpireReads,
           OrphanReads, othersOfBegin, PassOn, Deliver, Lapse, othersOfEffect
  <2>2. \A h : Do(h) \/ Release(h) \/ Rejected(h) => troubles' \in {troubles, troubles - 1}
    BY DEF Do, Release, Rejected
  <2>3. \A m : CastStep(m) => UNCHANGED troubles
    BY DEF CastStep, CastRead, CastEmit
  <2>4. \A a : GetStep(a) \/ GetFails(a) \/ ServerDies(a) => troubles' \in {troubles, troubles - 1}
    BY DEF GetStep, FindCode, LookUp, ReadRow, Store, GetFails, ServerDies
  <2>5. ClientStep \/ ClientChoice \/ Cut \/ GiveUp => troubles' \in {troubles, troubles - 1}
    BY DEF ClientStep, ClientChoice, Connect, Subscribed, Join, Open, CallerAsks, Ask, Leave,
           Dismiss, Cut, GiveUp, othersOfClient
  <2> QED
    BY <2>1, <2>2, <2>3, <2>4, <2>5 DEF Next, HandlerStep, Asked, Lapses, Fault, vars, newsVars
<1> QED
  BY <1>1, <1>2

\* Every step keeps what a subscriber holds up to date.
LEMMA StepCurrent == Told /\ Bound /\ Current /\ [Next]_vars => Current'
<1> SUFFICES ASSUME Told, Bound, Current, [Next]_vars PROVE Current'
  OBVIOUS
<1>1. UNCHANGED kind
  BY KindStays
<1>2. CASE ~(kind = "subscriber" /\ troubles' = Troubles)
  BY <1>1, <1>2 DEF Current
<1>3. CASE kind = "subscriber" /\ troubles' = Troubles
  <2>1. troubles = Troubles
    BY <1>3, TroublesStay
  <2>2. troubles' # troubles - 1
    BY <1>3, <2>1, NewsAssumption
  <2>3. CASE Begin /\ UNCHANGED clientVars
    BY <1>3, <2>1, <2>3, BeginCurrent
  <2>4. ASSUME NEW h \in Handlers, HandlerStep(h) PROVE Current'
    <3>1. ~Release(h)
      BY <1>3, <2>1, TidyTail DEF Release, Current, Bound
    <3> QED
      BY <1>3, <2>1, <2>4, <3>1, DoCurrent DEF HandlerStep
  <2>5. ASSUME NEW m \in DOMAIN casts, CastStep(m) PROVE Current'
    BY <1>3, <2>1, <2>5, CastCurrent
  <2>6. CASE PassOn
    BY <1>3, <2>1, <2>6, PassOnCurrent
  <2>7. ~Fault /\ ~Cut
    BY <2>2 DEF Fault, Rejected, GetFails, ServerDies, Cut
  <2>8. CASE Asked \/ Lapses \/ ClientStep \/ ClientChoice \/ GiveUp \/ UNCHANGED vars
    BY <1>3, <2>1, <2>8, ClientCurrent DEF Asked, Lapses
  <2> QED
    BY <2>3, <2>4, <2>5, <2>6, <2>7, <2>8 DEF Next
<1> QED
  BY <1>2, <1>3

\* Nothing is missed: whenever a subscriber joins and however the announcements of two
\* handlers overtake each other, once nothing is on its way it holds the status of the row
\* (handleSubscribe, sendPaymentStatus, broadcastPaymentUpdate, subscribeToPayment).
THEOREM SubscriberIsCurrentCorrect == Spec => []SubscriberIsCurrent
<1>1. WatchersInit => Current
  BY DEF WatchersInit, NewsInit, Current, Tidy, Single
<1> QED
  BY <1>1, AlwaysBound, StepCurrent, CurrentSuffices, PTL DEF Spec
=============================================================================
