-------------------------- MODULE StatementImport --------------------------
(***************************************************************************)
(* The page that imports a bank statement. Matching and approving are      *)
(* played by timers of two seconds each; nothing is sent to the backend.   *)
(* Timers of one length go off in the order they were set, which is why a  *)
(* queue stands for them.                                                  *)
(***************************************************************************)
EXTENDS Naturals, Sequences, FiniteSets

CONSTANTS
  Nothing,
  Matches,   \* the ids of the rows of a statement: every import uses the same
  Imports,   \* bound: imports of a behaviour
  Presses    \* bound: timers of approvals waiting at once

ASSUME StatementImportAssumption == Imports \in Nat /\ Presses \in Nat

VARIABLES
  file,       \* whether a file is chosen
  importing,
  results,    \* matchResults: the matched rows and the number of the import, or Nothing
  selected,   \* selectedMatches
  timers,     \* the timers set, in order: "import", or an approval
  imports     \* number of the last import

statementVars == <<file, importing, results, selected, timers, imports>>

Import == [what |-> "import", of |-> 0]
Approval(n) == [what |-> "approval", of |-> n]
Approvals == {i \in DOMAIN timers : timers[i].what = "approval"}

StatementTypeOK ==
  /\ file \in BOOLEAN /\ importing \in BOOLEAN
  /\ results = Nothing \/ results \in [matched : SUBSET Matches, import : 1..Imports]
  /\ selected \subseteq Matches
  /\ timers \in Seq({Import} \cup {Approval(n) : n \in 1..Imports})
  /\ imports \in 0..Imports

StatementInit ==
  /\ file = FALSE /\ importing = FALSE /\ results = Nothing /\ selected = {}
  /\ timers = <<>> /\ imports = 0

-----------------------------------------------------------------------------
(* Mutants: bugs this code could have had, each caught by a property below. *)
KeptSelection == selected
SlowApproval(rest) == rest # <<>> /\ rest[1].what = "import"

-----------------------------------------------------------------------------
Shown == results # Nothing

\* A file of a wrong type changes nothing. The field is there while no results are.
HandleFileChange ==
  /\ ~Shown
  /\ file' = TRUE
  /\ UNCHANGED <<importing, results, selected, timers, imports>>

HandleProcess ==
  /\ ~Shown /\ file /\ ~importing /\ imports < Imports
  /\ importing' = TRUE
  /\ timers' = Append(timers, Import) /\ imports' = imports + 1
  /\ UNCHANGED <<file, results, selected>>

AfterImport == FALSE
Imported(matched) == [matched |-> matched, import |-> imports]

\* Does the next timer wait for the one behind it?
Overtaken(rest) == FALSE

\* The next timer to go off, and those that stay.
Due == IF Len(timers) > 1 /\ timers[1].what = "approval" /\ Overtaken(Tail(timers))
       THEN 2 ELSE 1
Left == [i \in 1..(Len(timers) - 1) |-> IF i < Due THEN timers[i] ELSE timers[i + 1]]

\* Any rows may have been matched.
ImportEnds ==
  /\ timers # <<>> /\ timers[Due].what = "import"
  /\ \E matched \in SUBSET Matches : results' = Imported(matched)
  /\ importing' = AfterImport
  /\ timers' = Left
  /\ UNCHANGED <<file, selected, imports>>

\* A timer of an approval clears the page, whatever is on it by then.
ApprovalEnds ==
  /\ timers # <<>> /\ timers[Due].what = "approval"
  /\ selected' = {} /\ results' = Nothing /\ file' = FALSE
  /\ timers' = Left
  /\ UNCHANGED <<importing, imports>>

\* Nothing stops a second press while the first waits.
HandleBulkApprove ==
  /\ Shown /\ selected \cap results.matched # {}
  /\ Cardinality(Approvals) < Presses
  /\ timers' = Append(timers, Approval(results.import))
  /\ UNCHANGED <<file, importing, results, selected, imports>>

ToggleSelection(m) ==
  /\ Shown /\ m \in results.matched
  /\ selected' = IF m \in selected THEN selected \ {m} ELSE selected \cup {m}
  /\ UNCHANGED <<file, importing, results, timers, imports>>

\* The box of the header, or the two buttons.
SelectAllMatched ==
  /\ Shown
  /\ selected' \in {results.matched, {}}
  /\ UNCHANGED <<file, importing, results, timers, imports>>

SelectionAfterReset == {}

NewImport ==
  /\ Shown
  /\ results' = Nothing /\ file' = FALSE /\ selected' = SelectionAfterReset
  /\ UNCHANGED <<importing, timers, imports>>

TimerEnds == ImportEnds \/ ApprovalEnds

StatementNext ==
  \/ HandleFileChange \/ HandleProcess \/ HandleBulkApprove
  \/ (\E m \in Matches : ToggleSelection(m)) \/ SelectAllMatched \/ NewImport
  \/ TimerEnds

StatementSpec == StatementInit /\ [][StatementNext]_statementVars

-----------------------------------------------------------------------------
(* Properties. *)

\* What is selected is a matched row on the screen, though ids are used again by
\* every import and a late timer may clear the page: no approval ever counts a
\* row its user did not choose among the rows he sees (handleBulkApprove).
SelectedIsShown == selected # {} => Shown /\ selected \subseteq results.matched

\* Results leave the screen only when the user starts anew or by the timer of an
\* approval pressed on them: that of an earlier import never clears them, as
\* long as both timers are of one length (handleProcess, handleBulkApprove).
ResultsStay ==
  [][Shown /\ results' = Nothing /\ timers' # timers =>
       timers[Due] = Approval(results.import)]_statementVars
=============================================================================
