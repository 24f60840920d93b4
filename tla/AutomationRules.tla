-------------------------- MODULE AutomationRules --------------------------
(***************************************************************************)
(* The page of automation rules. Everything is in the memory of the page.  *)
(* The conditions are objects of JavaScript: editing one writes into the   *)
(* object, which whatever else points to it sees too.                      *)
(*                                                                         *)
(* A condition is the number of its object; only whether its value is      *)
(* filled in is kept.                                                      *)
(***************************************************************************)
EXTENDS Naturals, Sequences, SequencesExt, Lists

CONSTANTS
  Objects,    \* bound: the condition objects of a behaviour, a set of numbers
  MaxRules    \* bound: rules on the page

\* The objects the page starts with are there, and a place for each of its rules.
ASSUME AutomationRulesAssumption ==
  /\ Objects \subseteq Nat /\ 1..4 \subseteq Objects
  /\ MaxRules \in Nat /\ MaxRules >= 3

VARIABLES
  rules,      \* the list, each rule with its id, conditions, enabled and priority
  draft,      \* newRule: whether it is named, and its conditions
  dialog,     \* showNewRule
  filled,     \* the objects whose value is not empty
  used        \* the objects made so far

rulesVars == <<rules, draft, dialog, filled, used>>

Rule == [id : Nat, conditions : Seq(Objects), enabled : BOOLEAN, priority : Nat]

RulesTypeOK ==
  /\ rules \in Seq(Rule) /\ Len(rules) <= MaxRules
  /\ draft \in [named : BOOLEAN, conditions : Seq(Objects)]
  /\ Len(draft.conditions) > 0
  /\ dialog \in BOOLEAN
  /\ filled \subseteq used /\ used \subseteq Objects

\* The first object not made yet.
Fresh == CHOOSE o \in Objects \ used : \A p \in Objects \ used : o <= p

\* The three rules the page starts with.
RulesInit ==
  /\ rules = [i \in 1..3 |-> [id |-> i, conditions |-> <<i>>, enabled |-> i # 3, priority |-> i]]
  /\ draft = [named |-> FALSE, conditions |-> <<4>>]
  /\ dialog = FALSE
  /\ filled = 1..3 /\ used = 1..4

-----------------------------------------------------------------------------
(* Mutants: bugs this code could have had, each caught by a property below. *)
KeptDraft(object) == [named |-> FALSE, conditions |-> draft.conditions]

-----------------------------------------------------------------------------
\* Every rule with the id; ids are not unique once a rule was deleted.
ToggleRule(id) ==
  /\ rules' = [i \in DOMAIN rules |->
                 IF rules[i].id = id THEN [rules[i] EXCEPT !.enabled = ~@] ELSE rules[i]]
  /\ UNCHANGED <<draft, dialog, filled, used>>

\* The confirmation has been given.
DeleteRule(id) ==
  /\ rules' = Thin(rules, {i \in DOMAIN rules : rules[i].id # id})
  /\ UNCHANGED <<draft, dialog, filled, used>>

\* The dialog is opened, or closed without saving; the draft stays as it is.
Dialog(open) ==
  /\ dialog' = open
  /\ UNCHANGED <<rules, draft, filled, used>>

NameRule(named) ==
  /\ dialog
  /\ draft' = [draft EXCEPT !.named = named]
  /\ UNCHANGED <<rules, dialog, filled, used>>

AddCondition ==
  /\ dialog /\ used # Objects
  /\ draft' = [draft EXCEPT !.conditions = Append(@, Fresh)]
  /\ used' = used \cup {Fresh}
  /\ UNCHANGED <<rules, dialog, filled>>

\* The button is there while there is more than one.
Removable(i) == i \in DOMAIN draft.conditions /\ Len(draft.conditions) > 1

RemoveCondition(i) ==
  /\ dialog /\ Removable(i)
  /\ draft' = [draft EXCEPT !.conditions = RemoveAt(@, i)]
  /\ UNCHANGED <<rules, dialog, filled, used>>

\* The object of the condition is written into, not copied.
UpdateCondition(i, empty) ==
  /\ dialog /\ i \in DOMAIN draft.conditions
  /\ filled' = IF empty THEN filled \ {draft.conditions[i]}
                        ELSE filled \cup {draft.conditions[i]}
  /\ UNCHANGED <<rules, draft, dialog, used>>

\* The draft that follows a saved one has an object of its own.
NextDraft(object) == [named |-> FALSE, conditions |-> <<object>>]

SaveNewRule ==
  /\ dialog /\ used # Objects /\ Len(rules) < MaxRules
  /\ draft.named
  /\ ToSet(draft.conditions) \subseteq filled
  /\ rules' = Append(rules, [id |-> Len(rules) + 1, conditions |-> draft.conditions,
                             enabled |-> TRUE, priority |-> Len(rules) + 1])
  /\ dialog' = FALSE
  /\ draft' = NextDraft(Fresh) /\ used' = used \cup {Fresh}
  /\ UNCHANGED filled

RulesNext ==
  \/ \E r \in ToSet(rules) : ToggleRule(r.id) \/ DeleteRule(r.id)
  \/ \E choice \in BOOLEAN : Dialog(choice) \/ NameRule(choice)
  \/ AddCondition \/ SaveNewRule
  \/ \E i \in DOMAIN draft.conditions :
       RemoveCondition(i) \/ \E empty \in BOOLEAN : UpdateCondition(i, empty)

RulesSpec == RulesInit /\ [][RulesNext]_rulesVars

-----------------------------------------------------------------------------
(* Properties. *)

\* Once saved a rule has all its values for good: what is typed into later
\* drafts never reaches the conditions of a rule of the list, though editing
\* writes into shared objects (updateCondition, saveNewRule).
SavedStaysFilled ==
  \A i \in DOMAIN rules :
    /\ ToSet(rules[i].conditions) \subseteq filled
    /\ ToSet(rules[i].conditions) \cap ToSet(draft.conditions) = {}
=============================================================================
