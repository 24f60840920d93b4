------------------------------ MODULE Accounts ------------------------------
(***************************************************************************)
(* The people of the panel: signing in, registering, and the guards every  *)
(* request passes. A guard reads the user behind the token; the handler    *)
(* runs later, and the user may have been changed meanwhile.               *)
(*                                                                         *)
(* No endpoint changes a user once registered: deactivations and changes   *)
(* of role are made in the database by hand.                               *)
(***************************************************************************)
EXTENDS Naturals

CONSTANTS
  Nobody,
  Requests,   \* bound: the requests of a behaviour
  Emails,
  Seeds, SeedUsers,  \* the users of prisma/seed.ts: their ids and rows
  Changes     \* bound: users changed by hand and tokens that lapse

Roles == {"PSP_ADMIN", "BANK_OWNER", "PLATFORM_ADMIN", "OPERATOR"}
Routes == {"login", "register", "me", "validate", "admin", "owner"}
User == [id : Seeds \cup Requests, email : Emails, role : Roles, active : BOOLEAN]
Token == [sub : Seeds \cup Requests, role : Roles]

ASSUME AccountsAssumption ==
  /\ Changes \in Nat /\ Emails # {} /\ Nobody \notin Requests \cup Seeds /\ Seeds \cap Requests = {}
  /\ SeedUsers \subseteq [id : Seeds, email : Emails, role : Roles, active : BOOLEAN]
  /\ \A u, v \in SeedUsers : u.id = v.id \/ u.email = v.email => u = v

VARIABLES
  users,     \* the rows of User
  tokens,    \* the tokens given out and not yet 24 hours old
  at,        \* of a request: where it stands
  asked,     \* of a request: its route, its token, the e-mail and role it gives
  left,      \* of a request: the guards it has still to pass
  user,      \* of a request: request.user, what the last guard read
  changes,
  allowed    \* history: the requests that had the right at some moment since they came

accountsVars == <<users, tokens, at, asked, left, user, changes, allowed>>

Ends == {"done", "unauthorized", "forbidden", "conflict", "error"}
Asked == [route : Routes, token : Token \cup {Nobody}, email : Emails, role : Roles,
          knows : BOOLEAN]

AccountsTypeOK ==
  /\ users \subseteq User /\ tokens \subseteq Token
  /\ at \in [Requests -> {"none", "guards", "handler", "found", "password"} \cup Ends]
  /\ \A r \in Requests : asked[r] \in Asked \/ (at[r] = "none" /\ asked[r] = Nobody)
  /\ left \in [Requests -> 0..2]
  /\ user \in [Requests -> User \cup {Nobody}]
  /\ changes \in 0..Changes
  /\ allowed \subseteq Requests

-----------------------------------------------------------------------------
(* Rights. *)

\* The @Roles of the controllers; a route without any is open to every user.
Needed(route) ==
  CASE route = "register" -> {"PSP_ADMIN"}
    [] route = "owner" -> {"BANK_OWNER"}
    [] route = "admin" -> {"PSP_ADMIN", "OPERATOR", "BANK_OWNER"}
    [] OTHER -> Roles

\* The global guards, and those a controller names once more.
Guards(route) == IF route \in {"register", "me", "validate", "owner"} THEN 2 ELSE 1

WithId(people, id) == {u \in people : u.id = id}
WithEmail(people, email) == {u \in people : u.email = email}

\* What a request asks, people may do: the one signed in, or the one who signs in.
Right(people, ask) ==
  IF ask.route = "login"
  THEN ask.knows /\ \E u \in WithEmail(people, ask.email) : u.active
  ELSE \E u \in WithId(people, ask.token.sub) : u.active /\ u.role \in Needed(ask.route)

UnderWay(stages) == {r \in Requests : stages[r] \notin {"none"} \cup Ends}

\* Every action ends with this: who of those under way has the right now?
Watched ==
  allowed' = allowed \cup {r \in UnderWay(at) \cup UnderWay(at') : Right(users', asked'[r])}

-----------------------------------------------------------------------------
(* Mutants: bugs this code could have had, each caught by a property below. *)
ClaimedRole(r, read) == asked[r].token.role

-----------------------------------------------------------------------------
(* JwtStrategy.validate and RolesGuard. *)

\* The active user with the id of the token, if any.
UserOf(r) == {u \in WithId(users, asked[r].token.sub) : u.active}

RoleOf(r, read) == read.role

Arrives(r, ask) ==
  /\ at[r] = "none"
  /\ asked' = [asked EXCEPT ![r] = ask]
  /\ IF ask.route = "login"
     THEN at' = [at EXCEPT ![r] = "handler"] /\ UNCHANGED left
     ELSE /\ at' = [at EXCEPT ![r] = "guards"]
          /\ left' = [left EXCEPT ![r] = Guards(ask.route)]
  /\ UNCHANGED <<users, tokens, user, changes>>
  /\ Watched

GuardPasses(r) ==
  /\ at[r] = "guards"
  /\ \E read \in UserOf(r) :
       /\ RoleOf(r, read) \in Needed(asked[r].route)
       /\ user' = [user EXCEPT ![r] = read]
  /\ left' = [left EXCEPT ![r] = @ - 1]
  /\ at' = [at EXCEPT ![r] = IF left[r] = 1 THEN "handler" ELSE "guards"]
  /\ UNCHANGED <<users, tokens, asked, changes>>
  /\ Watched

GuardRefuses(r) ==
  /\ at[r] = "guards"
  /\ \/ UserOf(r) = {} /\ at' = [at EXCEPT ![r] = "unauthorized"]
     \/ \E read \in UserOf(r) :
          /\ RoleOf(r, read) \notin Needed(asked[r].route)
          /\ at' = [at EXCEPT ![r] = "forbidden"]
  /\ UNCHANGED <<users, tokens, asked, left, user, changes>>
  /\ Watched

-----------------------------------------------------------------------------
(* AuthService. *)
To(r, stage) == at' = [at EXCEPT ![r] = stage]
TokenOf(u) == [sub |-> u.id, role |-> u.role]

\* login: the user is read once; the comparison of the password takes a while.
LoginFinds(r) ==
  /\ at[r] = "handler" /\ asked[r].route = "login"
  /\ LET found == {u \in WithEmail(users, asked[r].email) : u.active} IN
     IF found = {} THEN To(r, "unauthorized") /\ UNCHANGED user
     ELSE \E u \in found : To(r, "password") /\ user' = [user EXCEPT ![r] = u]
  /\ UNCHANGED <<users, tokens, asked, left, changes>>
  /\ Watched

LoginCompares(r) ==
  /\ at[r] = "password" /\ asked[r].route = "login"
  /\ IF asked[r].knows
     THEN To(r, "done") /\ tokens' = tokens \cup {TokenOf(user[r])}
     ELSE To(r, "unauthorized") /\ UNCHANGED tokens
  /\ UNCHANGED <<users, asked, left, user, changes>>
  /\ Watched

\* register: the e-mail is looked up, the password hashed, the row created.
RegisterFinds(r) ==
  /\ at[r] = "handler" /\ asked[r].route = "register"
  /\ To(r, IF WithEmail(users, asked[r].email) # {} THEN "conflict" ELSE "found")
  /\ UNCHANGED <<users, tokens, asked, left, user, changes>>
  /\ Watched

RegisterHashes(r) ==
  /\ at[r] = "found"
  /\ To(r, "password")
  /\ UNCHANGED <<users, tokens, asked, left, user, changes>>
  /\ Watched

\* The e-mail is unique in the schema.
Creatable(r) == WithEmail(users, asked[r].email) = {}

NewToken(r) == [sub |-> r, role |-> asked[r].role]

RegisterCreates(r) ==
  /\ at[r] = "password" /\ asked[r].route = "register"
  /\ IF Creatable(r)
     THEN /\ users' = users \cup {[id |-> r, email |-> asked[r].email,
                                   role |-> asked[r].role, active |-> TRUE]}
          /\ tokens' = tokens \cup {NewToken(r)}
          /\ To(r, "done")
     ELSE To(r, "error") /\ UNCHANGED <<users, tokens>>
  /\ UNCHANGED <<asked, left, user, changes>>
  /\ Watched

\* auth/validate reads the user of the token once more.
ValidateReads(r) ==
  /\ at[r] = "handler" /\ asked[r].route = "validate"
  /\ To(r, IF \E u \in WithId(users, user[r].id) : u.active
              THEN "done" ELSE "unauthorized")
  /\ UNCHANGED <<users, tokens, asked, left, user, changes>>
  /\ Watched

\* The handlers of the other routes, as one act each.
Performs(r) ==
  /\ at[r] = "handler" /\ asked[r].route \in {"me", "admin", "owner"}
  /\ To(r, "done")
  /\ UNCHANGED <<users, tokens, asked, left, user, changes>>
  /\ Watched

-----------------------------------------------------------------------------
(* Outside the program. *)
ChangeUser(u) ==
  /\ changes < Changes /\ changes' = changes + 1
  /\ \/ users' = (users \ {u}) \cup {[u EXCEPT !.active = ~@]}
     \/ \E role \in Roles \ {u.role} : users' = (users \ {u}) \cup {[u EXCEPT !.role = role]}
  /\ UNCHANGED <<tokens, at, asked, left, user>>
  /\ Watched

Lapse(t) ==
  /\ changes < Changes /\ changes' = changes + 1
  /\ tokens' = tokens \ {t}
  /\ UNCHANGED <<users, at, asked, left, user>>
  /\ Watched

Asks ==
  [route : {"login"}, token : {Nobody}, email : Emails, role : {"OPERATOR"}, knows : BOOLEAN]
  \cup [route : {"register"}, token : tokens, email : Emails, role : {"OPERATOR", "BANK_OWNER"},
        knows : {TRUE}]
  \cup [route : Routes \ {"login", "register"}, token : tokens,
        email : {CHOOSE e \in Emails : TRUE}, role : {"OPERATOR"}, knows : {TRUE}]

AccountsInit ==
  /\ users = SeedUsers
  /\ tokens = {TokenOf(u) : u \in users}
  /\ at = [r \in Requests |-> "none"] /\ asked = [r \in Requests |-> Nobody]
  /\ left = [r \in Requests |-> 0] /\ user = [r \in Requests |-> Nobody]
  /\ changes = 0 /\ allowed = {}

Handles(r) ==
  \/ GuardPasses(r) \/ GuardRefuses(r)
  \/ LoginFinds(r) \/ LoginCompares(r)
  \/ RegisterFinds(r) \/ RegisterHashes(r) \/ RegisterCreates(r)
  \/ ValidateReads(r) \/ Performs(r)

AccountsNext ==
  \/ \E r \in Requests : Handles(r) \/ \E ask \in Asks : Arrives(r, ask)
  \/ \E u \in users : ChangeUser(u)
  \/ \E t \in tokens : Lapse(t)

AccountsSpec == AccountsInit /\ [][AccountsNext]_accountsVars

-----------------------------------------------------------------------------
(* Properties. *)

\* Whatever is changed behind a request, and whatever its token still says, it
\* is done only if its user was active and had a role of the route at some
\* moment after it came; a login only if the account was active and the
\* password right. A user deactivated or demoted before a request does nothing
\* with it, whatever tokens are left (JwtStrategy.validate, RolesGuard, login).
DoneWasAllowed == \A r \in Requests : at[r] = "done" => r \in allowed
=============================================================================
