-------------------------------- MODULE Shell -------------------------------
(***************************************************************************)
(* The service worker of the admin panel and the page it serves: what is   *)
(* kept for offline use at installation and at every visit, which of it is *)
(* found again, and what a new version of the panel or of the worker does  *)
(* to it.                                                                  *)
(*                                                                         *)
(* A build of the panel is one document, the same at every address, and    *)
(* one script whose name holds its hash: a version stands for both.        *)
(***************************************************************************)
EXTENDS Integers, Sequences, FiniteSets, SequencesExt, Lists

CONSTANTS
  MaxVersion, \* bound: builds deployed
  Writes      \* bound: copies being written at once

ASSUME ShellAssumption == MaxVersion \in Nat \ {0} /\ Writes \in Nat

VARIABLES
  deployed,   \* the version the server has
  sw,         \* the version that last changed sw.js, and CACHE_NAME in it
  online,     \* whether the browser reaches the server
  installing, \* of the worker being installed: its sw, the version deployed when
              \* that began, and whether it has what it keeps; or 0
  active,     \* the sw of the worker in charge, 0 when there is none
  stores,     \* the names of the caches, in the order they were made
  documents,  \* of a cache: the version kept for each address, 0 when none
  scripts,    \* of a version: what RUNTIME_CACHE has under its name
  view,       \* the page shown
  puts,       \* writes to RUNTIME_CACHE nobody waits for
  sound       \* history: addresses whose last visit came whole and was all kept

workerVars == <<installing, active>>
shellVars == <<deployed, sw, online, workerVars, stores, documents, scripts, view, puts, sound>>

Versions == 1..MaxVersion
Runtime == 0                          \* RUNTIME_CACHE; the others are named by their sw
Static == {"/", "/index.html"}        \* STATIC_ASSETS, the manifest aside
Visited == {"/", "/dashboard"}
Urls == Static \cup Visited
NothingKept == [u \in Urls |-> 0]

\* What a name of a script answers: the script, or the document in its place.
Bodies == {"script", "document"}

\* A page of version 0 is none; "reload" is one about to be loaded again.
\* clean tells that nothing was deployed since it was asked of the server, kept
\* that all of it was asked through the worker, with no earlier copy of the address still
\* being written, which could land last, and that no write of it was lost.
View == [at : Urls, version : 0..MaxVersion,
         script : Bodies \cup {"asked", "missing", "reload"},
         ours : BOOLEAN, clean : BOOLEAN, kept : BOOLEAN]

Blank == [at |-> "/", version |-> 0, script |-> "missing",
          ours |-> FALSE, clean |-> FALSE, kept |-> FALSE]
None == [sw |-> 0, since |-> 0, done |-> FALSE]

Put == [at : Urls, version : Versions, script : {"none"}]
       \cup [at : {"script"}, version : Versions, script : Bodies]

ShellTypeOK ==
  /\ deployed \in Versions /\ sw \in 1..deployed /\ active \in 0..sw
  /\ installing \in [sw : 0..MaxVersion, since : 0..MaxVersion, done : BOOLEAN]
  /\ online \in BOOLEAN
  /\ stores \in Seq(0..sw) /\ IsInjective(stores)
  /\ documents \in [0..MaxVersion -> [Urls -> 0..deployed]]
  /\ \A s \in 0..MaxVersion : documents[s] # NothingKept => s \in ToSet(stores)
  /\ scripts \in [Versions -> Bodies \cup {"none"}]
  /\ view \in View
  /\ puts \subseteq Put
  /\ sound \subseteq Urls

ShellInit ==
  /\ deployed = 1 /\ sw = 1 /\ online = TRUE
  /\ installing = None /\ active = 0
  /\ stores = <<>>
  /\ documents = [s \in 0..MaxVersion |-> NothingKept]
  /\ scripts = [v \in Versions |-> "none"]
  /\ view = Blank /\ puts = {} /\ sound = {}

-----------------------------------------------------------------------------
(* Mutants: bugs this code could have had, each caught by a property below. *)
OnlyOwn(name) == name = installing.sw
FromCacheFirst(u, found) == active = 0 \/ found = 0

-----------------------------------------------------------------------------
(* The caches. *)

\* caches.match: the first cache that has it, in the order they were made.
Match(u) ==
  LET holders == Thin(stores, {i \in DOMAIN stores : documents[stores[i]][u] # 0})
  IN IF holders = <<>> THEN 0 ELSE documents[Head(holders)][u]

\* What an address shows offline, through the worker.
Offline(u) == IF Match(u) # 0 THEN Match(u) ELSE Match("/index.html")

Opened(name) == IF name \in ToSet(stores) THEN stores ELSE Append(stores, name)

\* The name under which the server has no file answers with the document.
Served(v) == IF v = deployed THEN "script" ELSE "document"

-----------------------------------------------------------------------------
(* The worker. *)

\* The browser meets a new sw.js, by registration or at a visit.
Installs ==
  /\ view.version # 0 /\ view.script = "script"
  /\ online /\ installing = None /\ active # sw
  /\ installing' = [sw |-> sw, since |-> deployed, done |-> FALSE]
  /\ stores' = Opened(sw)
  /\ UNCHANGED <<deployed, sw, online, active, documents, scripts, view, puts, sound>>

\* addAll: all of them or none, each as it was deployed when it was fetched; then
\* skipWaiting, so that the page that asks whether to update is not waited for.
Keeps ==
  /\ installing # None /\ ~installing.done /\ online
  /\ \E got \in [Static -> installing.since..deployed] :
       documents' = [documents EXCEPT ![installing.sw] =
                       [u \in Urls |-> IF u \in Static THEN got[u] ELSE @[u]]]
  /\ installing' = [installing EXCEPT !.done = TRUE]
  /\ UNCHANGED <<deployed, sw, online, active, stores, scripts, view, puts, sound>>

InstallFails ==
  /\ installing # None /\ ~installing.done
  /\ installing' = None
  /\ UNCHANGED <<deployed, sw, online, active, stores, documents, scripts, view, puts, sound>>

Spared(name) == name \in {installing.sw, Runtime}

\* activate: the caches of other names are deleted, and the pages claimed; one that runs
\* its script hears of it and reloads itself.
Activates ==
  /\ installing # None /\ installing.done
  /\ stores' = Thin(stores, {i \in DOMAIN stores : Spared(stores[i])})
  /\ documents' = [s \in 0..MaxVersion |-> IF Spared(s) THEN documents[s] ELSE NothingKept]
  /\ scripts' = IF Spared(Runtime) THEN scripts ELSE [v \in Versions |-> "none"]
  /\ active' = installing.sw /\ installing' = None
  /\ view' = [view EXCEPT !.script = IF @ = "script" THEN "reload" ELSE @, !.ours = TRUE]
  /\ UNCHANGED <<deployed, sw, online, puts, sound>>

-----------------------------------------------------------------------------
(* fetch: the document from the network first. *)
FromNetwork(u, found) == online

Shows(u, v, clean) ==
  view' = [at |-> u, version |-> v, script |-> "asked", ours |-> active # 0,
           clean |-> clean, kept |-> clean /\ active # 0 /\ \A x \in puts : x.at # u]

\* A visit or a reload, answered by the server; the copy is kept meanwhile.
OpensOnline(u) ==
  /\ online /\ FromNetwork(u, Match(u))
  /\ Shows(u, deployed, TRUE)
  /\ IF active # 0
     THEN /\ Cardinality(puts) < Writes
          /\ puts' = puts \cup {[at |-> u, version |-> deployed, script |-> "none"]}
          /\ sound' = sound \ {u}
     ELSE UNCHANGED <<puts, sound>>
  /\ UNCHANGED <<deployed, sw, online, workerVars, stores, documents, scripts>>

\* A visit answered from the caches, or not at all.
OpensKept(u) ==
  /\ ~FromNetwork(u, Match(u))
  /\ IF active # 0 /\ Offline(u) # 0
     THEN Shows(u, Offline(u), online)
     ELSE view' = Blank
  /\ UNCHANGED <<deployed, sw, online, workerVars, stores, documents, scripts, puts, sound>>

\* The visit to an address has been kept to its end.
SoundThen(shown, writing) ==
  IF shown.kept /\ shown.script = "script" /\ writing = {} THEN sound \cup {shown.at} ELSE sound

\* Everything else: from the caches first, then from the server; what it answers
\* with success is kept.
ScriptArrives ==
  /\ view.version # 0 /\ view.script = "asked" /\ Cardinality(puts) < Writes
  /\ LET v == view.version
         cached == IF view.ours THEN scripts[v] ELSE "none"
         got == CASE cached # "none" -> cached
                  [] cached = "none" /\ online -> Served(v)
                  [] OTHER -> "missing"
     IN /\ view' = [view EXCEPT !.script = got]
        /\ puts' = IF view.ours /\ cached = "none" /\ online
                   THEN puts \cup {[at |-> "script", version |-> v, script |-> got]} ELSE puts
        /\ sound' = SoundThen(view', puts')
  /\ UNCHANGED <<deployed, sw, online, workerVars, stores, documents, scripts>>

\* The writes land in any order.
PutLands(x) ==
  /\ x \in puts /\ puts' = puts \ {x}
  /\ stores' = Opened(Runtime)
  /\ IF x.at = "script"
     THEN scripts' = [scripts EXCEPT ![x.version] = x.script] /\ UNCHANGED documents
     ELSE documents' = [documents EXCEPT ![Runtime][x.at] = x.version] /\ UNCHANGED scripts
  /\ sound' = SoundThen(view, puts')
  /\ UNCHANGED <<deployed, sw, online, workerVars, view>>

\* The browser stops the worker, which has asked it to wait for none of them.
PutsLost ==
  /\ puts # {} /\ puts' = {}
  /\ view' = [view EXCEPT !.kept = FALSE]
  /\ UNCHANGED <<deployed, sw, online, workerVars, stores, documents, scripts, sound>>

-----------------------------------------------------------------------------
(* The network and the releases: a version is never deployed again. *)
Deploys ==
  /\ deployed < MaxVersion /\ deployed' = deployed + 1
  /\ sw' \in {sw, deployed'}
  /\ view' = [view EXCEPT !.clean = FALSE]
  /\ UNCHANGED <<online, workerVars, stores, documents, scripts, puts, sound>>

Connects ==
  /\ online' = ~online
  /\ UNCHANGED <<deployed, sw, workerVars, stores, documents, scripts, view, puts, sound>>

ShellNext ==
  \/ Installs \/ Keeps \/ InstallFails \/ Activates
  \/ \E u \in Visited : OpensOnline(u) \/ OpensKept(u)
  \/ ScriptArrives
  \/ \E x \in puts : PutLands(x)
  \/ PutsLost \/ Deploys \/ Connects

ShellSpec == ShellInit /\ [][ShellNext]_shellVars

-----------------------------------------------------------------------------
(* Properties. *)

\* Old copies do not break the panel online: a page asked of the server with
\* nothing deployed since is of the deployed version, and the name of its script
\* never gives a document that was kept in its place, though such are kept when a
\* release falls between the two requests and are served first for ever
\* (sw.js, network first and cache first).
OnlineDraws ==
  view.version # 0 /\ view.clean => view.version = deployed /\ view.script # "document"

\* What was visited whole, and kept to the end, can be visited offline: no later
\* version of the worker, no purge and no visit elsewhere takes a part of it away.
\* Not so for the two addresses kept at installation: the copy of that time comes
\* first, and nobody has kept its script (sw.js, activate and caches.match).
VisitedDrawsOffline ==
  \A u \in sound \ Static : Offline(u) # 0 /\ scripts[Offline(u)] = "script"
=============================================================================
