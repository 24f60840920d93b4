------------------------------ MODULE Watchers ------------------------------
(***************************************************************************)
(* The watchers of a payment and what they show: the SDK's                 *)
(* subscribeToPayment and PaymentWidget (sdk/src/index.ts), the customer's *)
(* page and the notifications of the admin panel (admin-panel/src), a      *)
(* merchant who asks with the SDK's getPayment, and a bank owner, whose    *)
(* client is not in the repository.                                        *)
(***************************************************************************)
EXTENDS News

VARIABLES
  uplink, \* is a subscribe on its way to the gateway?
  know,   \* the status the watcher holds, "none" while it holds no payment
  screen, \* what it shows: "none", "loading", "error" or a status
  heard,  \* of an administrator: the newest notification; of an owner: "asked"
  ended   \* history: has a customer heard a message that the payment ended?

clientVars == <<uplink, know, screen, heard, ended>>
vars == <<newsVars, clientVars>>

WatchersInit ==
  /\ NewsInit
  /\ uplink = FALSE /\ know = "none" /\ screen = "none" /\ heard = "none" /\ ended = FALSE

othersOfCut == <<kind, rowVars, todo, redisVars, casts, known, overlapped>>
othersOfClient == <<othersOfCut, troubles>>

-----------------------------------------------------------------------------
(* Mutants: bugs this code could have had, each caught by a property below.  *)

\* a screen for whatever is not decided
EagerWidgetScreen(s) ==
  IF s \in Ends \cup {"PROCESSING"} THEN s ELSE "loading"

-----------------------------------------------------------------------------
(* Opening                                                                   *)

\* The widget and the page begin with a GET, the page with a socket beside it.
Open ==
  /\ kind \in {"widget", "page"} /\ screen = "none" /\ link # "gone"
  /\ Ask("id")
  /\ screen' = "loading"
  /\ UNCHANGED <<uplink, know, heard, ended>>

\* The merchant asks, by id or by code, as often as it likes.
CallerAsks ==
  /\ kind = "caller"
  /\ Ask("id") \/ Ask("code")
  /\ UNCHANGED clientVars

CallerTold(answer) ==
  /\ know' = IF answer = "error" THEN know ELSE answer
  /\ UNCHANGED screen

\* The widget draws itself while it still says that it is loading, and does not
\* draw again: neither the payment nor the error shows, and after an error no
\* socket is opened.
WidgetFetched(answer) ==
  /\ know' = IF answer = "error" THEN know ELSE answer
  /\ UNCHANGED screen

\* What the page's banner says of a status.
Badge(s) == IF s \in Ends THEN s ELSE "PENDING"

\* The page takes the answer whatever its socket has told it since, and keeps an
\* error for good.
PageFetched(answer) ==
  /\ know' = IF answer = "error" THEN know ELSE answer
  /\ screen' = IF answer = "error" THEN "error" ELSE Badge(answer)

Fetched(answer) ==
  \/ answer = "none" /\ UNCHANGED <<know, screen>>
  \/ /\ answer # "none"
     /\ \/ kind = "caller" /\ CallerTold(answer)
        \/ kind = "widget" /\ WidgetFetched(answer)
        \/ kind = "page" /\ PageFetched(answer)

\* What becomes of the socket.
LinkAfter(answer) == IF kind = "widget" /\ answer = "error" THEN "gone" ELSE link

-----------------------------------------------------------------------------
(* The socket                                                                *)

\* When each opens its socket.
Connects ==
  CASE kind = "subscriber" -> known
    [] kind = "widget" -> know # "none"
    [] kind = "page" -> screen # "none"
    [] kind = "caller" -> FALSE
    [] OTHER -> TRUE

\* Which of its connections a watcher subscribes on: the subscriber sends one
\* subscribe, kept until the first, and waits for a 'reconnect' that a socket
\* never emits; the widget and the page (and, as assumed, the owner's client) send
\* one on each; the administrator needs none.
Subscribes ==
  \/ kind = "subscriber" /\ link = "off"
  \/ kind \in {"widget", "page", "owner"}

Connect ==
  /\ link \in {"off", "down"} /\ Connects
  /\ link' = "up"
  /\ uplink' = Subscribes
  /\ UNCHANGED <<othersOfClient, get, room, know, screen, heard, ended>>

\* The connection breaks: what was on its way is lost and the room left.
Cut ==
  /\ link = "up" /\ troubles > 0 /\ troubles' = troubles - 1
  /\ link' = "down" /\ room' = FALSE /\ uplink' = FALSE
  /\ UNCHANGED <<othersOfCut, get, know, screen, heard, ended>>

\* After five attempts all but the page give up.
GiveUp ==
  /\ link = "down" /\ kind # "page"
  /\ link' = "gone"
  /\ UNCHANGED <<othersOfClient, get, room, uplink, know, screen, heard, ended>>

Subscribed ==
  /\ uplink /\ uplink' = FALSE
  /\ Join
  /\ UNCHANGED <<know, screen, heard, ended>>

\* The subscriber unsubscribes, the widget is closed, the page left.
Leave ==
  /\ kind \in Customers /\ link \in {"up", "down"}
  /\ link' = "gone" /\ room' = FALSE /\ uplink' = FALSE
  /\ screen' = "none"
  /\ UNCHANGED <<othersOfClient, get, know, heard, ended>>

\* The button of a decided widget takes it off the page and leaves its socket open.
Dismiss ==
  /\ kind = "widget" /\ screen \in Ends /\ link = "up"
  /\ screen' = "none"
  /\ UNCHANGED <<othersOfClient, get, link, room, uplink, know, heard, ended>>

-----------------------------------------------------------------------------
(* What they make of a message                                               *)

\* renderPending reads fields of the bank that no answer has, and throws.
Renderable(s) == s \in Ends \cup {"PROCESSING"}

\* The widget goes on showing what it showed.
WidgetScreen(s) == IF Renderable(s) THEN s ELSE screen

\* The events that tell a status and that a customer has a listener for; the widget
\* has none for the first status of a socket that joins.
Listens(event) ==
  \/ kind = "widget" /\ event = "payment:updated"
  \/ kind \in {"subscriber", "page"} /\ event \in {"payment:status", "payment:updated"}

SubscriberHears(m) ==
  /\ know' = IF Listens(m.event) THEN m.value ELSE know
  /\ UNCHANGED <<screen, heard>>

WidgetHears(m) ==
  /\ IF \/ Listens(m.event)
        \/ m.event = "payment:processing" /\ know # "none"
     THEN /\ know' = m.value
          /\ screen' = IF screen = "none" THEN screen ELSE WidgetScreen(m.value)
     ELSE UNCHANGED <<know, screen>>
  /\ UNCHANGED heard

PageHears(m) ==
  /\ IF Listens(m.event)
     THEN /\ know' = m.value
          /\ screen' = IF screen \in Statuses THEN Badge(m.value) ELSE screen
     ELSE UNCHANGED <<know, screen>>
  /\ UNCHANGED heard

\* The panel puts it before the ones it has.
AdminHears(m) ==
  /\ heard' = IF m.event = "notification" THEN m.value ELSE heard
  /\ UNCHANGED <<know, screen>>

\* Asked at once, or by the list of waiting payments in a dashboard.
OwnerHears(m) ==
  /\ heard' = IF m.event = "payment:awaiting-approval" \/ m.value = "WAITING" THEN "asked" ELSE heard
  /\ UNCHANGED <<know, screen>>

Hears(m) ==
  \/ m = Silence /\ UNCHANGED <<know, screen, heard, ended>>
  \/ /\ m # Silence
     /\ ended' = (ended \/ (Listens(m.event) /\ m.value \in Ends))
     /\ \/ kind = "subscriber" /\ SubscriberHears(m)
        \/ kind = "widget" /\ WidgetHears(m)
        \/ kind = "page" /\ PageHears(m)
        \/ kind = "admin" /\ AdminHears(m)
        \/ kind = "owner" /\ OwnerHears(m)

-----------------------------------------------------------------------------
\* Once the watcher is gone nothing is left to see.
Watching == link # "gone"

HandlerStep(h) == Watching /\ (Do(h) \/ Release(h)) /\ UNCHANGED clientVars
PassOn == Watching /\ Deliver /\ Hears(Direct(Head(bus))) /\ UNCHANGED uplink
CastStep(m) ==
  \/ Watching /\ CastRead(m) /\ UNCHANGED clientVars
  \/ Watching /\ CastEmit(m) /\ Hears(CastSays(m)) /\ UNCHANGED uplink
Answers == {"none", "error", "text"} \cup Statuses
Asked ==
  /\ Watching
  /\ \E a \in Answers : GetStep(a) /\ Fetched(a) /\ link' = LinkAfter(a)
  /\ UNCHANGED <<uplink, heard, ended>>
Fault ==
  /\ Watching
  /\ \/ (\E h \in Handlers : Rejected(h)) /\ UNCHANGED clientVars
     \/ /\ \E a \in Answers : GetFails(a) /\ Fetched(a) /\ link' = LinkAfter(a)
        /\ UNCHANGED <<uplink, heard, ended>>
     \/ /\ \E a \in Answers :
             /\ ServerDies(a) /\ Fetched(a)
             /\ link' = IF link = "up" THEN "down" ELSE LinkAfter(a)
        /\ UNCHANGED <<uplink, heard, ended>>
Lapses == Watching /\ Lapse /\ UNCHANGED clientVars
ClientStep == Connect \/ Subscribed
ClientChoice == Open \/ CallerAsks \/ Leave \/ Dismiss

Next ==
  \/ Watching /\ Begin /\ UNCHANGED clientVars
  \/ \E h \in Handlers : HandlerStep(h)
  \/ \E m \in DOMAIN casts : CastStep(m)
  \/ PassOn
  \/ Asked \/ Lapses
  \/ Fault
  \/ ClientStep \/ ClientChoice \/ Cut \/ GiveUp

Spec == WatchersInit /\ [][Next]_vars

\* The backend goes on with each thing it has begun, keys lapse, and a client
\* reconnects and takes what comes; nobody need decide, ask or leave.
Fairness ==
  /\ \A h \in Handlers : WF_vars(HandlerStep(h))
  /\ \A m \in Handlers \cup {"join"} : WF_vars(CastStep(m))
  /\ WF_vars(PassOn)
  /\ WF_vars(Asked)
  /\ WF_vars(Lapses)
  /\ WF_vars(ClientStep)

FairSpec == Spec /\ Fairness

\* Every hour the cleanup looks for an ACTIVE lock of a payment that is over.
CleanupStarts == Watching /\ OrphanReads /\ UNCHANGED clientVars

CleanedSpec == FairSpec /\ WF_vars(CleanupStarts)

-----------------------------------------------------------------------------
(* Properties                                                                *)

\* Types; the history variables and the records on their way are described above.
TypeOK ==
  /\ kind \in Kinds
  /\ status \in Statuses \cup {"NONE"} /\ lock \in {"NONE", "ACTIVE", "RELEASED"}
  /\ todo \in [Handlers -> Seq(Effects)]
  /\ cached \in Statuses \cup {"none", "text"}
  /\ casts \in [Handlers \cup {"join"} -> Statuses \cup {"NONE", "none", "unread"}]
  /\ get \in Statuses \cup {"idle", "id", "code", "miss", "over"}
  /\ link \in {"off", "up", "down", "gone"}
  /\ know \in Statuses \cup {"none", "PROCESSING"}
  /\ screen \in Statuses \cup {"none", "loading", "error", "PROCESSING"}
  /\ coded \in BOOLEAN /\ room \in BOOLEAN /\ uplink \in BOOLEAN
  /\ known \in BOOLEAN /\ ended \in BOOLEAN /\ overlapped \in BOOLEAN
  /\ troubles \in 0 .. Troubles

\* A watcher is told only statuses the row has had: the confirmation of the
\* customer is published on the channel of approvals, and no customer takes it for
\* one, however messages are delayed and the cache is stale.
ToldWasTrue == know \in been \cup {"none", "PROCESSING"}

\* Nothing of the payment is on its way any more.
Quiet ==
  /\ \A h \in Handlers : todo[h] = <<>>
  /\ bus = <<>> /\ ~uplink
  /\ \A m \in DOMAIN casts : casts[m] = "none"

\* A call was rejected, a connection broke or the watcher left.
Disturbed == troubles # Troubles \/ link # "up"

\* When nothing is on its way a subscriber holds the status of the row, whenever
\* it subscribed: what it missed before it joined is in its first status.  Not so
\* after a decision of an administrator, which is announced on no channel, nor
\* when two messages were read for at once and answered in the other order.
SubscriberIsCurrent ==
  kind = "subscriber" /\ Quiet /\ ~Disturbed /\ ~overlapped /\ decider # "admin"
    => know = status

\* The end is announced by the owner's decision, the timeout job and the expiry, each
\* after it has written the row.
Announced == decider \in {"owner", "timeout", "expire"}

\* The announcement has still to be published, to reach the gateway or to be emitted.
Announcing ==
  /\ Announced
  /\ \/ \E i \in DOMAIN todo[decider] : todo[decider][i] \in CustomerChannels
     \/ \E i \in DOMAIN bus : bus[i].by = decider
     \/ casts[decider] # "none"

\* What a watcher is owed and how it is paid: a customer in its room an end, if perhaps
\* not as the last thing (see SubscriberIsCurrent), when one is announced; a widget only
\* one still to be emitted, for it does not hear the first status (see WidgetIsTold); a
\* bank owner the question when a customer has confirmed.
Owed ==
  /\ room
  /\ \/ kind \in {"subscriber", "page"} /\ Announced
     \/ kind = "widget" /\ Announcing
     \/ kind = "owner" /\ status = "WAITING"
Paid ==
  \/ kind \in Customers /\ ended
  \/ kind = "owner" /\ (heard # "none" \/ decider # "none")

\* Nobody who watches is left without the news that concerns it, whatever is overtaken
\* on the way; unless a call was rejected, a connection broke or the watcher left. The
\* kind of a watcher never changes.
NewsReaches == Owed ~> (Paid \/ Disturbed)


\* In the end the cache holds the status of the row, nothing, or the text no GET
\* can answer with: no stale status outlives its key, though confirmations and
\* the owner's decisions leave the key alone and a GET may store what it read
\* before an expiry deleted it.
CacheCatchesUp == <>[](cached \in {"none", "text", status})

\* A widget that shows how a payment ended never shows anything earlier again,
\* though a late message may tell it so.
DecidedScreenStays ==
  [][kind = "widget" /\ screen \in Ends => screen' \in Ends \cup {"none"}]_vars

\* What the gateway's first status is sent for: a widget that joins after the end was
\* announced learns it all the same.
WidgetIsTold == room /\ kind = "widget" /\ Announced ~> ended \/ Disturbed

\* What QUICKSTART.md promises of an administrator's approval.
AdminDecisionReaches ==
  (room /\ kind \in Customers /\ decider = "admin") ~> (ended \/ Disturbed)
=============================================================================
