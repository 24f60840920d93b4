------------------------ MODULE BankSelectionProofs ------------------------
(***************************************************************************)
(* Proofs about BankSelection, for any banks, amounts and limits and any    *)
(* number of selections at once.                                           *)
(*                                                                         *)
(* Whether there was room ever since a selection began is only known to be *)
(* so while there still is (Roomy).  That the choice is the best needs to  *)
(* know what a list is: as long as no bank has changed since it was made,  *)
(* it has the banks as they are, and all that cover the amount it was made *)
(* for or more (AsMade); and what a call chooses from is such a list for   *)
(* its own amount (Chosen).                                                *)
(***************************************************************************)
EXTENDS BankSelection, TLAPS

\* One step of a selection from one await to another.
LEMMA Moves ==
  ASSUME SelectionTypeOK, NEW c \in Selections,
         NEW from \in {"idle", "cache", "query", "store", "check", "refused"},
         NEW to \in {"idle", "cache", "query", "store", "check", "refused"},
         Goes(c, from, to)
  PROVE  /\ look' \in [Selections -> {"idle", "cache", "query", "store", "check", "refused"}]
         /\ look'[c] = to
         /\ \A d \in Selections \ {c} : look'[d] = look[d]
  BY DEF SelectionTypeOK, Goes

\* The empty list is one.
LEMMA NoListIsList == IsList(NoList)
<1>1. DOMAIN <<>> = {} /\ <<>> \in [{} -> Nat]
  OBVIOUS
<1>2. MaxChanges \in Nat
  BY SelectionAssumption
<1> QED
  BY <1>1, <1>2 DEF IsList, NoList

\* What of a list covers an amount.
LEMMA CoveringIsList ==
  ASSUME NEW l, l = [left |-> l.left, for |-> l.for, since |-> l.since],
         IsList(l), NEW amount \in Nat
  PROVE  /\ IsList(Covering(l, amount))
         /\ Covering(l, amount).for = l.for /\ Covering(l, amount).since = l.since
         /\ DOMAIN Covering(l, amount).left = {b \in DOMAIN l.left : l.left[b] >= amount}
         /\ \A b \in DOMAIN Covering(l, amount).left : Covering(l, amount).left[b] = l.left[b]
<1> DEFINE kept == {b \in DOMAIN l.left : l.left[b] >= amount}
<1>1. Covering(l, amount) = [left |-> Restrict(l.left, kept), for |-> l.for, since |-> l.since]
  BY DEF Covering
<1>2. /\ DOMAIN Restrict(l.left, kept) = kept
      /\ \A b \in kept : Restrict(l.left, kept)[b] = l.left[b]
  BY DEF Restrict
<1>3. Restrict(l.left, kept) \in [kept -> Nat]
  BY DEF Restrict, IsList
<1>4. /\ Covering(l, amount).left = Restrict(l.left, kept)
      /\ Covering(l, amount).for = l.for /\ Covering(l, amount).since = l.since
  BY <1>1
<1>5. kept \subseteq Banks /\ l.for \in Nat /\ l.since \in 0 .. MaxChanges
  BY DEF IsList
<1> QED
  BY <1>2, <1>3, <1>4, <1>5 DEF IsList

-----------------------------------------------------------------------------
(* Types                                                                     *)

IsRecord(l) == l = [left |-> l.left, for |-> l.for, since |-> l.since]

Typed ==
  /\ SelectionTypeOK
  /\ IsRecord(cache) /\ \A c \in Selections : IsRecord(known[c])

\* A step of a call keeps the banks and what is known of the other calls.
LEMMA CallStepTyped ==
  ASSUME Typed, NEW c \in Selections, CallStep(c)
  PROVE  Typed'
<1> DEFINE Awaits == {"idle", "cache", "query", "store", "check", "refused"}
<1>1. ASSUME NEW from \in Awaits, NEW to \in Awaits, Goes(c, from, to)
      PROVE  look' \in [Selections -> Awaits]
  BY <1>1, Moves DEF Typed
<1>2. /\ IsList(NoList) /\ IsRecord(NoList)
      /\ NoBank \in Banks \cup {NoBank} /\ 0 \in Nat
  BY NoListIsList DEF IsRecord, NoList
<1>3. ASSUME End(c)
      PROVE  /\ want' \in [Selections -> Nat] /\ choice' \in [Selections -> Banks \cup {NoBank}]
             /\ room' \in [Selections -> BOOLEAN] /\ DOMAIN known' = Selections
             /\ \A d \in Selections : IsList(known[d])' /\ IsRecord(known[d])'
  <2>1. \A d \in Selections : known'[d] = known[d] \/ known'[d] = NoList
    BY <1>3 DEF End, Typed, SelectionTypeOK
  <2> QED
    BY <1>2, <1>3, <2>1 DEF End, Typed, SelectionTypeOK, IsList, IsRecord
<1>4. ASSUME NEW from \in Awaits, NEW banks, IsList(banks), IsRecord(banks), Choose(c, from, banks)
      PROVE  /\ look' \in [Selections -> Awaits] /\ want' = want /\ room' = room
             /\ choice' \in [Selections -> Banks \cup {NoBank}] /\ DOMAIN known' = Selections
             /\ \A d \in Selections : IsList(known[d])' /\ IsRecord(known[d])'
  <2>1. \A d \in Selections : known'[d] = known[d] \/ known'[d] = banks
    BY <1>4 DEF Choose, Typed, SelectionTypeOK
  <2>2. Best(banks) \subseteq Banks
    BY <1>4 DEF Best, IsList
  <2> QED
    BY <1>1, <1>4, <2>1, <2>2 DEF Choose, Typed, SelectionTypeOK, IsList, IsRecord
<1>5. /\ IsList(Covering(cache, want[c])) /\ IsRecord(Covering(cache, want[c]))
  <2>1. IsList(Covering(cache, want[c]))
    BY CoveringIsList DEF Typed, SelectionTypeOK, IsRecord
  <2> QED
    BY <2>1 DEF Covering, Typed, IsRecord
<1>6. CASE LookUp(c)
  <2>1. CASE Goes(c, "cache", "query") /\ UNCHANGED <<known, selectVars>>
    BY <1>1, <1>6, <2>1
       DEF LookUp, Typed, SelectionTypeOK, bankVars, selectVars, IsList, IsRecord
  <2>2. CASE Choose(c, "cache", Covering(cache, want[c]))
    BY <1>4, <1>5, <1>6, <2>2 DEF LookUp, Typed, SelectionTypeOK, bankVars, IsList, IsRecord
  <2> QED
    BY <1>6, <2>1, <2>2 DEF LookUp, ReadCache
<1>7. CASE Query(c)
  <2> DEFINE found == {b \in Banks : Eligible(b, want[c])}
             made == [left |-> Restrict(avail, found), for |-> want[c], since |-> changes]
  <2>1. Restrict(avail, found) \in [found -> Nat]
    BY DEF Restrict, Typed, SelectionTypeOK
  <2>2. IsList(made) /\ IsRecord(made)
    BY <2>1 DEF IsList, IsRecord, Typed, SelectionTypeOK
  <2>3. \A d \in Selections : known'[d] = known[d] \/ known'[d] = made
    BY <1>7 DEF Query, Typed, SelectionTypeOK
  <2>4. \A d \in Selections : IsList(known[d])' /\ IsRecord(known[d])'
    BY <2>2, <2>3 DEF Typed, SelectionTypeOK, IsList, IsRecord
  <2>5. look' \in [Selections -> Awaits]
    BY <1>1, <1>7 DEF Query
  <2> QED
    BY <1>7, <2>4, <2>5 DEF Query, Typed, SelectionTypeOK, bankVars, selectVars, IsList, IsRecord
<1>8. CASE Store(c)
  <2>1. IsList(known[c]) /\ IsRecord(known[c])
    BY DEF Typed, SelectionTypeOK
  <2>2. IsList(cache)' /\ IsRecord(cache)' /\ UNCHANGED bankVars /\ Choose(c, "store", known[c])
    BY <1>8, <2>1 DEF Store, IsList, IsRecord
  <2> QED
    BY <1>4, <2>1, <2>2 DEF Typed, SelectionTypeOK, bankVars, IsList, IsRecord
<1>9. CASE StoreFails(c) \/ Confirm(c) \/ Refuse(c)
  <2>1. End(c) /\ UNCHANGED <<bankVars, cache>> /\ \E from \in Awaits : Goes(c, from, "idle")
    BY <1>9 DEF StoreFails, Confirm, Refuse
  <2> QED
    BY <1>1, <1>3, <2>1 DEF Typed, SelectionTypeOK, bankVars, IsList, IsRecord
<1>10. CASE StartOver(c)
  <2>1. \A d \in Selections : known'[d] = known[d] \/ known'[d] = NoList
    BY <1>10 DEF StartOver, Typed, SelectionTypeOK
  <2> QED
    BY <1>1, <1>2, <1>10, <2>1
       DEF StartOver, Typed, SelectionTypeOK, bankVars, IsList, IsRecord
<1> QED
  BY <1>6, <1>7, <1>8, <1>9, <1>10 DEF CallStep

\* So do the steps of everyone else, and those that change nothing.
LEMMA StepTyped == Typed /\ [SelectionNext]_selectionVars => Typed'
<1> SUFFICES ASSUME Typed, [SelectionNext]_selectionVars PROVE Typed'
  OBVIOUS
<1>1. CASE \E c \in Selections : CallStep(c)
  BY <1>1, CallStepTyped
<1>2. CASE \E c \in Selections : \E a \in Amounts : Ask(c, a)
  <2>1. PICK c \in Selections, a \in Amounts : Ask(c, a)
    BY <1>2
  <2>2. look' \in [Selections -> {"idle", "cache", "query", "store", "check", "refused"}]
    BY <2>1, Moves DEF Ask, Typed
  <2>3. a \in Nat /\ (\E b \in Banks : Eligible(b, a)) \in BOOLEAN
    BY SelectionAssumption
  <2> QED
    BY <2>1, <2>2, <2>3 DEF Ask, Typed, SelectionTypeOK, bankVars, IsList, IsRecord
<1>3. CASE Lapse
  BY <1>3, NoListIsList DEF Lapse, Typed, SelectionTypeOK, bankVars, selectVars, IsList, IsRecord, NoList
<1>4. ASSUME NEW b \in Banks, NEW left \in 0 .. Limit[b], Locked(b, left) \/ Released(b, left)
      PROVE  Typed'
  <2>1. PICK full \in BOOLEAN : Change(b, left, full)
    BY <1>4 DEF Locked, Released, Typed, SelectionTypeOK
  <2>2. left \in Nat /\ changes + 1 \in 0 .. MaxChanges
    BY <2>1, SelectionAssumption DEF Change, Typed, SelectionTypeOK
  <2> QED
    BY <2>1, <2>2 DEF Change, Typed, SelectionTypeOK, IsList, IsRecord
<1>5. CASE UNCHANGED selectionVars
  BY <1>5 DEF selectionVars, bankVars, selectVars, Typed, SelectionTypeOK, IsList, IsRecord
<1> QED
  BY <1>1, <1>2, <1>3, <1>4, <1>5 DEF SelectionNext

LEMMA AlwaysTyped == SelectionSpec => []Typed
<1>1. SelectionInit => Typed
  BY NoListIsList, SelectionAssumption DEF SelectionInit, Typed, SelectionTypeOK, IsRecord, NoList
<1> QED
  BY <1>1, StepTyped, PTL DEF SelectionSpec

\* Lists hold only banks and every call stands at an await of its own, however the banks
\* change and Redis fails (selectBestBank).
THEOREM SelectionTypeCorrect == SelectionSpec => []SelectionTypeOK
  BY AlwaysTyped, PTL DEF Typed
-----------------------------------------------------------------------------
(* Nobody is refused while there is room                                     *)

Roomy == \A c \in Selections : room[c] => \E b \in Banks : Eligible(b, want[c])

RoomInv == Typed /\ Roomy /\ NotRefusedWithRoom

\* A step of a call: the query that finds nothing finds that there is no room.
LEMMA CallStepRoomy ==
  ASSUME RoomInv, NEW c \in Selections, CallStep(c)
  PROVE  Roomy' /\ NotRefusedWithRoom'
<1> USE DEF RoomInv, Roomy, NotRefusedWithRoom, Typed, SelectionTypeOK, Eligible
<1>1. CASE LookUp(c)
  <2>1. look'[c] # "refused" /\ \A d \in Selections \ {c} : look'[d] = look[d]
    BY <1>1 DEF LookUp, ReadCache, Choose, Goes
  <2>2. want' = want /\ room' = room /\ UNCHANGED bankVars
    BY <1>1 DEF LookUp, ReadCache, Choose, selectVars
  <2> QED
    BY <2>1, <2>2 DEF bankVars
<1>2. CASE Query(c)
  <2>1. /\ look'[c] = "refused" => ~\E b \in Banks : Eligible(b, want[c])
        /\ \A d \in Selections \ {c} : look'[d] = look[d]
    BY <1>2 DEF Query, Goes
  <2>2. want' = want /\ room' = room /\ UNCHANGED bankVars
    BY <1>2 DEF Query, selectVars
  <2> QED
    BY <2>1, <2>2 DEF bankVars
<1>3. CASE Store(c) \/ StartOver(c)
  BY <1>3 DEF Store, StartOver, Choose, Goes, bankVars
<1>4. CASE StoreFails(c) \/ Confirm(c) \/ Refuse(c)
  <2>1. look'[c] = "idle" /\ \A d \in Selections \ {c} : look'[d] = look[d]
    BY <1>4 DEF StoreFails, Confirm, Refuse, Goes
  <2>2. /\ ~room'[c] /\ \A d \in Selections \ {c} : room'[d] = room[d] /\ want'[d] = want[d]
        /\ UNCHANGED bankVars
    BY <1>4 DEF StoreFails, Confirm, Refuse, End
  <2> QED
    BY <2>1, <2>2 DEF bankVars
<1> QED
  BY <1>1, <1>2, <1>3, <1>4 DEF CallStep

\* The other steps end no selection, and a change of a bank leaves room marked only
\* where there still is.
LEMMA StepRoomy == RoomInv /\ [SelectionNext]_selectionVars => RoomInv'
<1> SUFFICES ASSUME RoomInv, [SelectionNext]_selectionVars PROVE RoomInv'
  OBVIOUS
<1>0. Typed'
  BY StepTyped DEF RoomInv
<1> USE DEF RoomInv, Roomy, NotRefusedWithRoom, Eligible
<1>1. CASE \E c \in Selections : CallStep(c)
  BY <1>0, <1>1, CallStepRoomy
<1>2. CASE \E c \in Selections : \E a \in Amounts : Ask(c, a)
  BY <1>0, <1>2 DEF Ask, Goes, bankVars, Typed, SelectionTypeOK
<1>3. CASE Lapse \/ UNCHANGED selectionVars
  BY <1>0, <1>3 DEF Lapse, selectionVars, bankVars, selectVars
<1>4. ASSUME NEW b \in Banks, NEW left \in 0 .. Limit[b], NEW full, Change(b, left, full)
      PROVE  RoomInv'
  BY <1>0, <1>4 DEF Change
<1> QED
  BY <1>1, <1>2, <1>3, <1>4 DEF SelectionNext, Locked, Released

\* A payment is refused for want of a bank only if at some time since it asked no bank
\* could take it (selectBestBank's BankNotAvailableException), however many selections
\* and changes there are.
THEOREM NotRefusedWithRoomCorrect == SelectionSpec => []NotRefusedWithRoom
<1>1. SelectionInit => RoomInv
  <2>1. SelectionInit => Typed
    BY NoListIsList, SelectionAssumption DEF SelectionInit, Typed, SelectionTypeOK, IsRecord, NoList
  <2> QED
    BY <2>1 DEF SelectionInit, RoomInv, Roomy, NotRefusedWithRoom
<1>2. RoomInv => NotRefusedWithRoom
  BY DEF RoomInv
<1> QED
  BY <1>1, <1>2, StepRoomy, PTL DEF SelectionSpec

-----------------------------------------------------------------------------
(* The choice is the best                                                    *)

\* For this amount the list is the banks as they are, unless one has changed since.
Lists(l, amount) ==
  DOMAIN l.left # {} /\ l.since = changes /\ l.for <= amount =>
    /\ \A b \in DOMAIN l.left : l.left[b] = avail[b]
    /\ \A b \in Banks : Eligible(b, amount) => b \in DOMAIN l.left

\* It is for every amount it was made for, and more.
AsMade(l) == l.since <= changes /\ \A amount \in Nat : Lists(l, amount)

\* A call about to store a list has one made for its amount; one about to look at its
\* choice again has chosen the best of a list that has every bank it could have.
Chosen(c) ==
  /\ known[c].since <= changes
  /\ look[c] = "store" => AsMade(known[c])
  /\ look[c] = "check" => choice[c] \in Best(known[c]) /\ Lists(known[c], want[c])

BestInv == Typed /\ AsMade(cache) /\ \A c \in Selections : Chosen(c)

\* As long as the banks stay, so does what a list is.
LEMMA ListsStay ==
  ASSUME UNCHANGED bankVars
  PROVE  /\ \A l : AsMade(l) => AsMade(l)'
         /\ \A l : \A amount \in Nat : Lists(l, amount) => Lists(l, amount)'
  BY DEF bankVars, AsMade, Lists, Eligible

\* What of the list of the cache covers an amount is the list for it.
LEMMA CoveringLists ==
  ASSUME Typed, AsMade(cache), NEW amount \in Nat
  PROVE  Lists(Covering(cache, amount), amount)
<1> DEFINE l == Covering(cache, amount)
<1>1. /\ l.for = cache.for /\ l.since = cache.since
      /\ DOMAIN l.left = {b \in DOMAIN cache.left : cache.left[b] >= amount}
      /\ \A b \in DOMAIN l.left : l.left[b] = cache.left[b]
  <2>1. IsList(cache) /\ cache = [left |-> cache.left, for |-> cache.for, since |-> cache.since]
    BY DEF Typed, SelectionTypeOK, IsRecord
  <2> QED
    BY <2>1, CoveringIsList
<1>2. SUFFICES ASSUME DOMAIN l.left # {}, l.since = changes, l.for <= amount
               PROVE  /\ \A b \in DOMAIN l.left : l.left[b] = avail[b]
                      /\ \A b \in Banks : Eligible(b, amount) => b \in DOMAIN l.left
  BY DEF Lists
<1>3. /\ \A b \in DOMAIN cache.left : cache.left[b] = avail[b]
      /\ \A b \in Banks : Eligible(b, amount) => b \in DOMAIN cache.left
  BY <1>1, <1>2 DEF AsMade, Lists
<1> QED
  BY <1>1, <1>3 DEF Eligible

\* A list just read from the database is made for its amount.
LEMMA QueryLists ==
  ASSUME Typed, NEW amount \in Nat, NEW l,
         l = [left |-> Restrict(avail, {b \in Banks : Eligible(b, amount)}),
              for |-> amount, since |-> changes]
  PROVE  AsMade(l)
<1> DEFINE found == {b \in Banks : Eligible(b, amount)}
<1>1. /\ DOMAIN Restrict(avail, found) = found
      /\ \A b \in found : Restrict(avail, found)[b] = avail[b]
  BY DEF Restrict
<1>2. l.left = Restrict(avail, found) /\ l.for = amount /\ l.since = changes
  OBVIOUS
<1>3. \A b \in Banks : avail[b] \in Nat
  BY DEF Typed, SelectionTypeOK
<1>4. ASSUME NEW more \in Nat, amount <= more, NEW b \in Banks, Eligible(b, more)
      PROVE  b \in found
  BY <1>3, <1>4 DEF Eligible
<1>5. changes \in Nat
  BY DEF Typed, SelectionTypeOK
<1>6. ASSUME NEW more \in Nat PROVE Lists(l, more)
  BY <1>1, <1>2, <1>4 DEF Lists
<1> QED
  BY <1>2, <1>5, <1>6 DEF AsMade

\* Each step of a call leaves it with what its await asks, and the cache with a list.
LEMMA CallStepBest ==
  ASSUME BestInv, NEW c \in Selections, CallStep(c)
  PROVE  AsMade(cache)' /\ \A d \in Selections : Chosen(d)'
<1>0. /\ UNCHANGED bankVars /\ \A d \in Selections \ {c} : look'[d] = look[d]
      /\ \A d \in Selections \ {c} : known'[d] = known[d] /\ want'[d] = want[d] /\ choice'[d] = choice[d]
  <2> USE DEF Goes, BestInv, Typed, SelectionTypeOK
  <2>1. CASE LookUp(c)
    <3>1. CASE Goes(c, "cache", "query") /\ UNCHANGED <<known, selectVars>>
      BY <2>1, <3>1 DEF LookUp, selectVars
    <3>2. CASE Choose(c, "cache", Covering(cache, want[c]))
      BY <2>1, <3>2 DEF LookUp, Choose
    <3> QED
      BY <2>1, <3>1, <3>2 DEF LookUp, ReadCache
  <2>2. CASE Query(c)
    BY <2>2 DEF Query, selectVars
  <2>3. CASE Store(c)
    BY <2>3 DEF Store, Choose
  <2>4. CASE StoreFails(c) \/ Confirm(c) \/ Refuse(c)
    BY <2>4 DEF StoreFails, Confirm, Refuse, End
  <2>5. CASE StartOver(c)
    BY <2>5 DEF StartOver
  <2> QED
    BY <2>1, <2>2, <2>3, <2>4, <2>5 DEF CallStep
<1>1. \A d \in Selections \ {c} : Chosen(d)'
  <2>1. ASSUME NEW d \in Selections \ {c}
        PROVE  known[d]' = known[d] /\ want[d]' = want[d] /\ choice[d]' = choice[d]
               /\ look[d]' = look[d] /\ Chosen(d)
    BY <1>0, <2>1 DEF BestInv
  <2> QED
    BY <1>0, <2>1 DEF Chosen, AsMade, Lists, Eligible, Best, bankVars
<1>2. cache' = cache => AsMade(cache)'
  BY <1>0, ListsStay DEF BestInv
<1>3. NoList.since <= changes' /\ changes' = changes
  BY <1>0 DEF NoList, bankVars, BestInv, Typed, SelectionTypeOK
<1>4. ASSUME NEW from, NEW l, Choose(c, from, l), l.since <= changes, Lists(l, want[c])
      PROVE  Chosen(c)'
  <2>1. known'[c] = l /\ want'[c] = want[c] /\ choice'[c] \in Best(l) /\ look'[c] = "check"
    BY <1>4 DEF Choose, Goes, BestInv, Typed, SelectionTypeOK
  <2>2. Lists(known[c], want[c])'
    BY <1>0, <1>4, <2>1 DEF bankVars, Lists, Eligible
  <2>3. (choice[c] \in Best(known[c]))'
    BY <2>1 DEF Best
  <2> QED
    BY <1>3, <1>4, <2>1, <2>2, <2>3 DEF Chosen
<1>5. CASE LookUp(c)
  <2>1. cache' = cache /\ want[c] \in Nat
    BY <1>5 DEF LookUp, BestInv, Typed, SelectionTypeOK
  <2>2. CASE Goes(c, "cache", "query") /\ UNCHANGED <<known, selectVars>>
    BY <1>0, <1>2, <1>1, <2>1, <2>2 DEF Goes, Chosen, BestInv, Typed, SelectionTypeOK, bankVars
  <2>3. CASE Choose(c, "cache", Covering(cache, want[c]))
    <3>1. Covering(cache, want[c]).since <= changes
      BY <2>1, CoveringIsList DEF BestInv, Typed, SelectionTypeOK, IsRecord, AsMade
    <3> QED
      BY <1>1, <1>2, <1>4, <2>1, <2>3, <3>1, CoveringLists DEF BestInv
  <2> QED
    BY <1>5, <2>2, <2>3 DEF LookUp, ReadCache
<1>6. CASE Query(c)
  <2> DEFINE made == [left |-> Restrict(avail, {b \in Banks : Eligible(b, want[c])}),
                      for |-> want[c], since |-> changes]
  <2>1. cache' = cache /\ known'[c] = made /\ look'[c] \in {"store", "refused"}
    BY <1>6 DEF Query, Goes, BestInv, Typed, SelectionTypeOK
  <2>2. AsMade(made)
    BY QueryLists DEF BestInv, Typed, SelectionTypeOK
  <2>3. AsMade(known[c])'
    BY <1>0, <2>1, <2>2, ListsStay DEF AsMade, Lists, Eligible, bankVars
  <2> QED
    BY <1>1, <1>2, <2>1, <2>3 DEF Chosen, AsMade
<1>7. CASE Store(c)
  <2>1. look[c] = "store" /\ want[c] \in Nat /\ cache' = known[c]
    BY <1>7 DEF Store, Choose, Goes, BestInv, Typed, SelectionTypeOK
  <2>2. AsMade(known[c])
    BY <2>1 DEF BestInv, Chosen
  <2>3. AsMade(cache)'
    BY <1>0, <2>1, <2>2 DEF AsMade, Lists, Eligible, bankVars
  <2> QED
    BY <1>1, <1>4, <1>7, <2>1, <2>2, <2>3 DEF Store, AsMade
<1>8. CASE StoreFails(c) \/ Confirm(c) \/ Refuse(c) \/ StartOver(c)
  <2>1. /\ cache' = cache /\ known'[c] = NoList /\ look'[c] \in {"idle", "cache"}
    BY <1>8 DEF StoreFails, Confirm, Refuse, StartOver, Goes, End, BestInv, Typed, SelectionTypeOK
  <2> QED
    BY <1>1, <1>2, <1>3, <2>1 DEF Chosen
<1> QED
  BY <1>5, <1>6, <1>7, <1>8 DEF CallStep

\* After a change of a bank every list there is is an earlier one.
LEMMA StepBest == BestInv /\ [SelectionNext]_selectionVars => BestInv'
<1> SUFFICES ASSUME BestInv, [SelectionNext]_selectionVars PROVE BestInv'
  OBVIOUS
<1>0. Typed'
  BY StepTyped DEF BestInv
<1>1. CASE \E c \in Selections : CallStep(c)
  BY <1>0, <1>1, CallStepBest DEF BestInv
<1>2. CASE \E c \in Selections : \E a \in Amounts : Ask(c, a)
  <2>1. PICK c \in Selections, a \in Amounts : Ask(c, a)
    BY <1>2
  <2>2. /\ UNCHANGED bankVars /\ cache' = cache /\ known' = known /\ choice' = choice
        /\ look'[c] = "cache"
        /\ \A d \in Selections \ {c} : look'[d] = look[d] /\ want'[d] = want[d]
    BY <2>1 DEF Ask, Goes, BestInv, Typed, SelectionTypeOK
  <2> QED
    BY <1>0, <2>2 DEF BestInv, Chosen, AsMade, Lists, Eligible, bankVars, Best
<1>3. CASE Lapse
  <2>1. UNCHANGED bankVars /\ UNCHANGED <<look, known, want, choice>> /\ cache' = NoList
    BY <1>3 DEF Lapse, selectVars
  <2>2. AsMade(NoList)'
    BY <2>1 DEF AsMade, Lists, NoList, BestInv, Typed, SelectionTypeOK, bankVars
  <2> QED
    BY <1>0, <2>1, <2>2 DEF BestInv, Chosen, AsMade, Lists, Eligible, bankVars, Best
<1>4. ASSUME NEW b \in Banks, NEW left \in 0 .. Limit[b], NEW full, Change(b, left, full)
      PROVE  BestInv'
  <2>1. /\ changes' = changes + 1 /\ changes \in Nat
        /\ UNCHANGED <<cache, look, known, want, choice>>
    BY <1>4 DEF Change, BestInv, Typed, SelectionTypeOK
  <2>2. /\ cache.since \in Nat /\ cache.since <= changes
        /\ \A c \in Selections : known[c].since \in Nat /\ known[c].since <= changes
    BY DEF BestInv, AsMade, Chosen, Typed, SelectionTypeOK, IsList
  <2> QED
    BY <1>0, <2>1, <2>2 DEF BestInv, Chosen, AsMade, Lists, Best
<1>5. CASE UNCHANGED selectionVars
  BY <1>0, <1>5 DEF BestInv, Chosen, AsMade, Lists, Eligible, Best, selectionVars, selectVars, bankVars
<1> QED
  BY <1>1, <1>2, <1>3, <1>4, <1>5 DEF SelectionNext, Locked, Released

\* The bank returned leaves the least over of all, if the list was made for an amount no
\* larger and no bank has changed since (selectBestBank, findBestBankForAmount).
THEOREM LeastWasteCorrect == SelectionSpec => LeastWaste
<1>1. SelectionInit => BestInv
  <2>1. SelectionInit => Typed
    BY NoListIsList, SelectionAssumption DEF SelectionInit, Typed, SelectionTypeOK, IsRecord, NoList
  <2> QED
    BY <2>1 DEF SelectionInit, BestInv, Chosen, AsMade, Lists, NoList
<1>2. ASSUME BestInv, NEW c \in Selections, Confirm(c),
             known[c].for <= want[c], known[c].since = changes,
             NEW b \in Banks, Eligible(b, want[c])
      PROVE  avail[choice[c]] <= avail[b]
  <2>1. choice[c] \in Best(known[c]) /\ Lists(known[c], want[c])
    BY <1>2 DEF BestInv, Chosen, Confirm, Goes
  <2>2. /\ choice[c] \in DOMAIN known[c].left
        /\ \A o \in DOMAIN known[c].left : known[c].left[choice[c]] <= known[c].left[o]
    BY <2>1 DEF Best
  <2> QED
    BY <1>2, <2>1, <2>2 DEF Lists
<1>3. BestInv => [\A c \in Selections : Confirm(c) /\ known[c].for <= want[c] /\ known[c].since = changes =>
        \A b \in Banks : Eligible(b, want[c]) => avail[choice[c]] <= avail[b]]_selectionVars
  BY <1>2
<1> QED
  BY <1>1, <1>3, StepBest, PTL DEF SelectionSpec, LeastWaste
=============================================================================
