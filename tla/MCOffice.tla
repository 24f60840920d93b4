------------------------------ MODULE MCOffice ------------------------------
(***************************************************************************)
(* The smaller parts of the program, one per behaviour: they share no      *)
(* state, so their steps commute and nothing is lost by following each of  *)
(* them alone. The scene says which.                                       *)
(***************************************************************************)
EXTENDS Monitoring, Accounts, AutomationRules, StatementImport, Desk, Shell, TLC

CONSTANTS root, e1, p1, p2

VARIABLE scene

Scenes == {"collect", "watch", "accounts", "rules", "statement", "stats", "batch", "shell"}

\* Calm books at the thresholds, and strained ones for the collection.
MCBook(expired, approved, taken) ==
  [expired |-> expired, approved |-> approved, created |-> 10, limit |-> 100000,
   used |-> taken, available |-> 100000 - taken]
MCBooks == {MCBook(50, 2, 75000), MCBook(51, 1, 95000)}

MCSeeds == {[id |-> root, email |-> e1, role |-> "PSP_ADMIN", active |-> TRUE]}

MCBatches == {<<p1>>, <<p1, p2>>, <<p1, p1>>}

OfficeInit ==
  /\ scene \in Scenes
  /\ MonitoringInit /\ AccountsInit /\ RulesInit /\ StatementInit /\ DeskInit /\ ShellInit
  /\ books = IF scene = "collect" THEN MCBook(51, 1, 95000) ELSE MCBook(50, 2, 75000)
  /\ scene \notin {"stats", "batch"} => \A p \in Payments : status[p] = "PENDING"

Aside(own) == UNCHANGED scene /\ \A part \in 1..6 : part # own =>
  CASE part = 1 -> UNCHANGED monitoringVars
    [] part = 2 -> UNCHANGED accountsVars
    [] part = 3 -> UNCHANGED rulesVars
    [] part = 4 -> UNCHANGED statementVars
    [] part = 5 -> UNCHANGED deskVars
    [] part = 6 -> UNCHANGED shellVars

Collecting == scene = "collect" /\ (Environment \/ \E c \in Collections : CollectionStep(c))
Watching == scene = "watch" /\ (Environment \/ ProbeStep \/ LogStep)
Dealing ==
  \/ scene = "stats" /\ (StatsStep \/ OthersStep)
  \/ scene = "batch" /\ (BatchStep \/ OthersStep)

OfficeNext ==
  \/ (Collecting \/ Watching) /\ Aside(1)
  \/ scene = "accounts" /\ AccountsNext /\ Aside(2)
  \/ scene = "rules" /\ RulesNext /\ Aside(3)
  \/ scene = "statement" /\ StatementNext /\ Aside(4)
  \/ Dealing /\ Aside(5)
  \/ scene = "shell" /\ ShellNext /\ Aside(6)

officeVars == <<scene, monitoringVars, accountsVars, rulesVars, statementVars, deskVars,
                shellVars>>

OfficeSpec == OfficeInit /\ [][OfficeNext]_officeVars

TypeOK ==
  /\ MonitoringTypeOK /\ AccountsTypeOK /\ RulesTypeOK /\ StatementTypeOK /\ DeskTypeOK /\ ShellTypeOK
  /\ scene \in Scenes
=============================================================================
