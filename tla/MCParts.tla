------------------------------ MODULE MCParts -------------------------------
(***************************************************************************)
(* The parts that share no state with the money or with each other, one    *)
(* per behaviour: the office of MCOffice; and Intake with one order of two *)
(* attempts, of an accepted or a refused amount, after a past of nothing,  *)
(* of a payment of the hour by the same customer, of two that overran the  *)
(* limit, by another one at the same address, or of three small ones of    *)
(* the day.                                                                *)
(***************************************************************************)
EXTENDS MCOffice, Intake

CONSTANTS o1, mail, phone, ip

VARIABLE side

\* The shares of the past are not those of the code, they only have to add up.
Past(n, of, amount, unflagged) ==
  [req |-> <<"before", n>>, of |-> of, amount |-> amount, at |-> 0, unflagged |-> unflagged,
   platform |-> 0, psp |-> 0, net |-> amount]

MCBasket(amount) == o1 :> [of |-> {mail, ip}, from |-> ip, amount |-> amount]
MCBaskets == {MCBasket(amount) : amount \in {10051, 999}}
MCPasts ==
  {{}, {Past(0, {mail, ip}, 10051, TRUE)}}
       \cup {{Past(n, {phone, ip}, 10051, TRUE) : n \in 0..1}}
       \cup {{Past(n, {mail}, 1000, FALSE) : n \in 0..2}}

\* Where a part could begin matters on its side.
PartsInit ==
  /\ OfficeInit /\ IntakeInit
  /\ \/ side = "office" /\ order = MCBasket(999) /\ rows = {} /\ listed = {}
     \/ side = "intake" /\ scene = "rules"

PartsNext ==
  /\ \/ side = "office" /\ OfficeNext /\ UNCHANGED intakeVars
     \/ side = "intake" /\ IntakeNext /\ UNCHANGED officeVars
  /\ UNCHANGED side

PartsSpec == PartsInit /\ [][PartsNext]_<<side, officeVars, intakeVars>>
=============================================================================
