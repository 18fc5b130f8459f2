-------------------------------- MODULE Api ---------------------------------
(***************************************************************************)
(* Who may do what: the session middleware (internal/auth/jwt.go), the     *)
(* authorization middleware (internal/auth/authz.go) and the checks the    *)
(* handlers make themselves (internal/api), against a directory that       *)
(* changes under them.                                                     *)
(*                                                                         *)
(* A request is a process.  Every right it needs is looked up in a call of *)
(* its own, to Stalwart or to the database, and one action is one such     *)
(* call with the code up to the next.  The operation the request was made  *)
(* for is one action here (Store); module Directory takes it apart.  Only  *)
(* what rights depend on is kept: the kind of account behind a name, the   *)
(* domains it administers, and the addresses taken as aliases.             *)
(*                                                                         *)
(* A session is the record signed into its cookie: it can be presented     *)
(* until it expires, whatever became of the account, and a logout only     *)
(* takes it from the browser.  Names are canonical.                        *)
(***************************************************************************)
EXTENDS Naturals

CONSTANTS
  Calls,       \* requests that may be in progress at the same time
  Name,        \* addresses
  Domain,      \* domains
  DomainOf,    \* auth.DomainOf, on names
  Request,     \* what may be asked of the protected routes
  Change,      \* what else may happen in Stalwart: an account becomes something else
  InitRole, InitRows, InitAlias,  \* the directory and the admin rows to start with
  SignedIn,    \* who has a session to start with
  SignIns,     \* who may sign in later, with an account or without
  TTL,         \* tokenTTL (24 h)
  MaxTime,     \* bound: the clock
  MaxRequests, \* bound: requests begun, sign-ins included, since none was in progress
  MaxChanges   \* bound: changes made in Stalwart itself

Role  == {"none", "user", "admin", "group"}
Users == {"user", "admin"}   \* of Stalwart's type User, the only one `find' sees

\* Routes by the rights they ask for: one's own account, or one in one's domains.
SelfService == {"get", "patch", "password", "emails", "groups"}
DomainAdmin ==
  SelfService \cup {"delete", "add_email", "del_email", "add_group", "del_group"}
\* Routes on the collection, and those only full admins reach.
Collection  == {"list", "create"}
FullAdmin   == {"get_domains", "put_domains"}

\* A request: the account in its path (in its body for "create"), an address or
\* a group where the operation has one, whether it sets a quota, the domains of
\* a PUT to admin-domains.
Requests ==
  [op : DomainAdmin \cup Collection \cup FullAdmin,
   name : Name, arg : Name, quota : BOOLEAN, domains : SUBSET Domain]

ASSUME ApiAssumption ==
  /\ DomainOf \in [Name -> Domain]
  /\ Request \subseteq Requests
  /\ Change \subseteq [name : Name, role : Role]
  /\ InitRole \in [Name -> Role]
  /\ InitRows \in [Name -> SUBSET Domain]
  /\ InitAlias \subseteq Name \X Name
  /\ SignIns \subseteq Name
  /\ SignedIn \subseteq {n \in Name : InitRole[n] \in Users}
  /\ TTL \in Nat \ {0} /\ MaxTime \in Nat /\ MaxRequests \in Nat \ {0} /\ MaxChanges \in Nat

Session == [user : Name, admin : BOOLEAN, expires : Nat]

\* Where a request is: the right it looks up next, or what it does then.
Place ==
  {"idle", "signin_account", "signin_role",
   "domains", "target_role", "target_domains",
   "exists", "email_type", "address", "group_role", "group_domains",
   "store", "destroy", "own"}

SignInOp == [op : {"signin"}, name : Name]

VARIABLES
  clock,
  role,      \* Stalwart: what has each name as its primary address
  alias,     \* Stalwart: <<address, account>>
  rows,      \* directory.domain_admins
  sessions,  \* the sessions signed so far
  calls,     \* the requests in progress
  requests, changes,  \* how many there were of each, to bound them
  seen,      \* history: the directories of the time a request is in progress
  held       \* history: <<n, r, t>> when at time t name n had an account ("user")
             \*          or the Admin role ("admin")

directory == <<role, alias, rows>>
bounds    == <<requests, changes>>
history   == <<seen, held>>
vars == <<clock, directory, sessions, calls, bounds, history>>

Idle == [at |-> "idle"]

\* A request in progress: whose it is (with the session it came with, or for a
\* sign-in who signs in), what it asks, the domains its user was found to
\* administer, and when it began.
Busy == [at : Place \ {"idle"}, session : Session, req : Requests \cup SignInOp,
         doms : SUBSET Domain, begun : Nat]

-----------------------------------------------------------------------------
(* The checks, as functions of what they are given.                        *)

Manages(doms, n) == DomainOf[n] \in doms

\* AddressInUse
InUse(n) == role[n] # "none" \/ \E a \in alias : a[1] = n

\* The code of a handler up to its first remote call: where that leaves the
\* request of session s, "idle" when it has been refused.
Handler(s, r, doms) ==
  CASE r.op = "create" ->
         IF s.admin THEN "store"
         ELSE IF Manages(doms, r.name) /\ ~r.quota THEN "address" ELSE "idle"
    [] r.op = "patch" -> IF r.quota /\ ~s.admin THEN "idle" ELSE "store"
    [] r.op = "password" ->
         IF s.admin THEN "store"
         ELSE IF s.user = r.name THEN "own"
         ELSE IF Manages(doms, r.name) THEN "store" ELSE "idle"
    [] r.op \in {"get", "list", "delete"} -> "store"
    [] OTHER -> "exists"

\* isAuthorizedRequest and canManageAccount, up to their first remote call.
Routed(s, r, doms) ==
  LET own     == r.op \in SelfService /\ r.name = s.user
      managed == /\ r.op \in DomainAdmin
                 /\ r.op \in {"del_email", "del_group"} => Manages(doms, r.arg)
                 /\ Manages(doms, r.name)
  IN IF own \/ (r.op \in Collection /\ doms # {}) THEN Handler(s, r, doms)
     ELSE IF managed THEN "target_role" ELSE "idle"

\* The handlers that looked the account up first, up to their next remote call.
AfterLookup(s, r, doms) ==
  CASE r.op = "add_email" ->
         IF s.admin THEN "store" ELSE IF Manages(doms, r.arg) THEN "address" ELSE "idle"
    [] r.op = "add_group" ->
         IF s.admin THEN "store" ELSE IF Manages(doms, r.arg) THEN "group_role" ELSE "idle"
    [] r.op = "del_email" -> "email_type"
    [] OTHER -> "store"

-----------------------------------------------------------------------------
(* History.                                                                *)

World == [role |-> role, alias |-> alias, rows |-> rows]

Holds == {<<n, "user", clock>> : n \in {m \in Name : role[m] \in Users}}
           \cup {<<n, "admin", clock>> : n \in {m \in Name : role[m] = "admin"}}

\* The directories before and after a step belong to the requests it leaves in
\* progress.
Remember ==
  /\ seen' = [c \in Calls |->
       IF calls'[c] = Idle THEN {}
       ELSE IF calls[c] = Idle THEN {World'} ELSE seen[c] \cup {World'}]
  /\ held' = held \cup Holds'

-----------------------------------------------------------------------------
Init ==
  /\ clock = 0
  /\ role = InitRole
  /\ alias = InitAlias
  /\ rows = InitRows
  /\ sessions = {[user |-> n, admin |-> InitRole[n] = "admin", expires |-> TTL] : n \in SignedIn}
  /\ calls = [c \in Calls |-> Idle]
  /\ requests = 0 /\ changes = 0
  /\ seen = [c \in Calls |-> {}]
  /\ held = Holds

At(c, place) == calls[c] # Idle /\ calls[c].at = place

\* Mutant: a handler does not return after answering.
GoOn(c, place) == calls' = [calls EXCEPT ![c].at = place]

\* Call c goes on at a place; at "idle" it has been answered.
GoTo(c, place) ==
  calls' = [calls EXCEPT ![c] = IF place = "idle" THEN Idle ELSE [@ EXCEPT !.at = place]]

Begin(c, place, s, r) ==
  /\ calls[c] = Idle
  /\ IF \A d \in Calls : calls[d] = Idle THEN requests' = 1
     ELSE requests < MaxRequests /\ requests' = requests + 1
  /\ calls' = [calls EXCEPT ![c] =
       IF place = "idle" THEN Idle
       ELSE [at |-> place, session |-> s, req |-> r, doms |-> {}, begun |-> clock]]
  /\ UNCHANGED <<clock, directory, sessions, changes>>

-----------------------------------------------------------------------------
(* Sign-in: CallbackHandler from the lookup of the account on.             *)

\* The provider says it is the user of address n.
SignIn(c, n) ==
  Begin(c, "signin_account", [user |-> n, admin |-> FALSE, expires |-> 0],
        [op |-> "signin", name |-> n])

SignInAccount(c) ==
  /\ At(c, "signin_account")
  /\ GoTo(c, IF role[calls[c].req.name] \in Users THEN "signin_role" ELSE "idle")
  /\ UNCHANGED <<clock, directory, sessions, bounds>>

\* IsAdmin, and GenerateToken: the session says what was true just now.
SignInRole(c) ==
  /\ At(c, "signin_role")
  /\ LET n == calls[c].req.name IN
     sessions' = sessions \cup
       {[user |-> n, admin |-> role[n] = "admin", expires |-> clock + TTL]}
  /\ GoTo(c, "idle")
  /\ UNCHANGED <<clock, directory, bounds>>

-----------------------------------------------------------------------------
(* The rights of a signed-in user.                                         *)

\* Mutant: the age of a session is not looked at.
GoodAnyAge(s) == TRUE

\* ReadSession: ParseToken accepts the session.
Good(s) == clock < s.expires

\* A full admin's request goes to its handler, another's rights are looked up.
Ask(c, s, r) ==
  /\ Good(s)
  /\ Begin(c, IF s.admin THEN Handler(s, r, {}) ELSE "domains", s, r)

\* ListAdminDomains of the user, and isAuthorizedRequest.
ReadDomains(c) ==
  /\ At(c, "domains")
  /\ LET doms  == rows[calls[c].session.user]
         place == Routed(calls[c].session, calls[c].req, doms)
     IN calls' = [calls EXCEPT ![c] =
          IF place = "idle" THEN Idle ELSE [@ EXCEPT !.at = place, !.doms = doms]]
  /\ UNCHANGED <<clock, directory, sessions, bounds>>

\* Mutant: the target's admin rights are not compared with the user's.
CanManageAnyPeer(c, n, at_role, at_rows, next) ==
  /\ At(c, at_role)
  /\ GoTo(c, IF role[n] = "admin" THEN "idle" ELSE next)
  /\ UNCHANGED <<clock, directory, sessions, bounds>>

\* CanManageAccount from its calls on: IsAdmin, then ListAdminDomains.
CanManageAccount(c, n, at_role, at_rows, next) ==
  /\ \/ /\ At(c, at_role)
        /\ GoTo(c, IF role[n] = "admin" THEN "idle" ELSE at_rows)
     \/ /\ At(c, at_rows)
        /\ GoTo(c, IF rows[n] \subseteq calls[c].doms THEN next ELSE "idle")
  /\ UNCHANGED <<clock, directory, sessions, bounds>>

\* canManageAccount on the account in the path.
CheckTarget(c) ==
  CanManageAccount(c, calls[c].req.name, "target_role", "target_domains",
                   Handler(calls[c].session, calls[c].req, calls[c].doms))

-----------------------------------------------------------------------------
(* The handlers.                                                           *)

\* accountExists, groupAccountExists, and the lookup in AdminDomainsHandler.
LookUp(c) ==
  /\ At(c, "exists")
  /\ GoTo(c, IF role[calls[c].req.name] \in Users
             THEN AfterLookup(calls[c].session, calls[c].req, calls[c].doms) ELSE "idle")
  /\ UNCHANGED <<clock, directory, sessions, bounds>>

\* GetEmailType: the primary address stays.
ReadEmailType(c) ==
  /\ At(c, "email_type")
  /\ LET r == calls[c].req IN
     GoTo(c, IF role[r.name] \in Users /\ r.arg # r.name THEN "store" ELSE "idle")
  /\ UNCHANGED <<clock, directory, sessions, bounds>>

\* AddressInUse, for a new account's name or a new alias.
CheckAddress(c) ==
  /\ At(c, "address")
  /\ LET r == calls[c].req IN
     GoTo(c, IF InUse(IF r.op = "create" THEN r.name ELSE r.arg) THEN "idle" ELSE "store")
  /\ UNCHANGED <<clock, directory, sessions, bounds>>

\* CreateGroupHandler: the group must be one the user could manage.
CheckGroup(c) ==
  CanManageAccount(c, calls[c].req.arg, "group_role", "group_domains", "store")

\* The operation: what it does to the directory, when the store finds the
\* account it is for and Stalwart does not refuse.
Store(c) ==
  LET r == calls[c].req IN
  /\ At(c, "store")
  /\ \/ /\ r.op = "create" /\ role[r.name] = "none"
        /\ role' = [role EXCEPT ![r.name] = "user"]
        /\ GoTo(c, "idle")
        /\ UNCHANGED <<alias, rows>>
     \/ /\ r.op = "add_email" /\ role[r.name] \in Users /\ ~InUse(r.arg)
        /\ alias' = alias \cup {<<r.arg, r.name>>}
        /\ GoTo(c, "idle")
        /\ UNCHANGED <<role, rows>>
     \/ /\ r.op = "del_email" /\ role[r.name] \in Users
        /\ alias' = alias \ {<<r.arg, r.name>>}
        /\ GoTo(c, "idle")
        /\ UNCHANGED <<role, rows>>
     \/ /\ r.op = "delete" /\ role[r.name] \in Users
        /\ rows' = [rows EXCEPT ![r.name] = {}]
        /\ GoTo(c, "destroy")
        /\ UNCHANGED <<role, alias>>
     \/ /\ r.op = "put_domains"
        /\ rows' = [rows EXCEPT ![r.name] = r.domains]
        /\ GoTo(c, "idle")
        /\ UNCHANGED <<role, alias>>
     \/ /\ r.op \in (SelfService \cup {"list", "add_group", "del_group", "get_domains"})
        /\ GoTo(c, "idle")
        /\ UNCHANGED directory
  /\ UNCHANGED <<clock, sessions, bounds>>

\* DeleteAccount at Stalwart, the rows being gone: whatever has the name by now is
\* destroyed, and its aliases go with it.
Destroy(c) ==
  /\ At(c, "destroy")
  /\ LET n == calls[c].req.name IN
     /\ role' = [role EXCEPT ![n] = "none"]
     /\ alias' = {a \in alias : a[2] # n}
  /\ GoTo(c, "idle")
  /\ UNCHANGED <<clock, rows, sessions, bounds>>

\* changeOwn, the subject of module Session: the change is made as the user.
ChangeOwn(c) ==
  /\ At(c, "own")
  /\ GoTo(c, "idle")
  /\ UNCHANGED <<clock, directory, sessions, bounds>>

\* A call fails, or the store or Stalwart refuses the operation.
Fail(c) ==
  /\ calls[c] # Idle
  /\ GoTo(c, "idle")
  /\ UNCHANGED <<clock, directory, sessions, bounds>>

-----------------------------------------------------------------------------
(* The world outside the application.                                      *)

\* Somebody changes an account in Stalwart itself.
ChangeElsewhere(ch) ==
  /\ changes < MaxChanges
  /\ role[ch.name] # ch.role
  /\ changes' = changes + 1
  /\ role' = [role EXCEPT ![ch.name] = ch.role]
  /\ alias' = IF ch.role = "none" THEN {a \in alias : a[2] # ch.name} ELSE alias
  /\ UNCHANGED <<clock, rows, sessions, calls, requests>>

\* A unit of time is no shorter than a sign-in's 15 s and its lookups' 5 s take.
Tick ==
  /\ clock < MaxTime
  /\ \A c \in Calls : At(c, "signin_account") \/ At(c, "signin_role") => calls[c].begun = clock
  /\ clock' = clock + 1
  /\ UNCHANGED <<directory, sessions, calls, bounds>>

CallStep(c) ==
  \/ \E n \in SignIns : SignIn(c, n)
  \/ SignInAccount(c) \/ SignInRole(c)
  \/ \E s \in sessions, r \in Request : Ask(c, s, r)
  \/ ReadDomains(c) \/ CheckTarget(c)
  \/ LookUp(c) \/ ReadEmailType(c) \/ CheckAddress(c) \/ CheckGroup(c)
  \/ Store(c) \/ Destroy(c) \/ ChangeOwn(c)
  \/ Fail(c)

Next ==
  /\ \/ \E c \in Calls : CallStep(c)
     \/ \E ch \in Change : ChangeElsewhere(ch)
     \/ Tick
  /\ Remember

Spec == Init /\ [][Next]_vars

-----------------------------------------------------------------------------
(* Properties.                                                             *)

TypeOK ==
  /\ clock \in 0..MaxTime
  /\ role \in [Name -> Role]
  /\ alias \subseteq Name \X Name
  /\ rows \in [Name -> SUBSET Domain]
  /\ sessions \subseteq Session
  /\ calls \in [Calls -> Busy \cup {Idle}]
  /\ requests \in 0..MaxRequests
  /\ changes \in 0..MaxChanges
  /\ seen \in [Calls -> SUBSET [role : [Name -> Role], alias : SUBSET (Name \X Name),
                                rows : [Name -> SUBSET Domain]]]
  /\ held \subseteq Name \X {"user", "admin"} \X (0..MaxTime)

\* A name was free, or somebody's to manage who managed doms, at some moment of
\* the time a request is in progress.
WasFree(c, n) ==
  \E w \in seen[c] : w.role[n] = "none" /\ \A a \in w.alias : a[1] # n

WasManageable(c, doms, n) ==
  /\ Manages(doms, n)
  /\ \E w \in seen[c] : w.role[n] # "admin"
  /\ \E w \in seen[c] : w.rows[n] \subseteq doms

\* What README.md promises a user: everything to a full admin; one's own
\* account, with one's password by way of Stalwart; for a domain admin the
\* accounts, addresses and groups on the domains administered.
Entitled(c) ==
  LET s == calls[c].session
      r == calls[c].req
  IN s.admin \/
     /\ r.op \in {"patch", "create"} => ~r.quota
     /\ \/ r.op \in SelfService /\ r.name = s.user /\ (r.op = "password" => At(c, "own"))
        \/ \E w \in seen[c] : LET mine == w.rows[s.user] IN
             \/ r.op = "list" /\ mine # {}
             \/ r.op = "create" /\ Manages(mine, r.name) /\ WasFree(c, r.name)
             \/ /\ r.op \in DomainAdmin /\ WasManageable(c, mine, r.name)
                /\ r.op \in {"add_email", "del_email", "del_group"} => Manages(mine, r.arg)
                /\ r.op = "add_email" => WasFree(c, r.arg)
                /\ r.op = "add_group" => WasManageable(c, mine, r.arg)

\* A request that is about to do what it is for has every right it needs, and
\* had each of them at some moment since it came in: a check is never skipped,
\* and never answered from before the request, whatever other requests and
\* Stalwart's own administration change meanwhile.  (Each right is looked up in
\* a call of its own, so they need not have held together.)
ActsWithinRights ==
  \A c \in Calls :
    calls[c] # Idle /\ calls[c].at \in {"store", "destroy", "own"} => Entitled(c)

\* No request is taken from a session for longer than TTL after its user last
\* had an account, nor, if the session says so, the Admin role: what a session
\* outlives is outlived by that much at most.  A sign-in may take a tick.
SessionsExpire ==
  \A c \in Calls : calls[c] # Idle /\ calls[c].req.op # "signin" =>
    LET s == calls[c].session IN
    /\ \E t \in 0..MaxTime : <<s.user, "user", t>> \in held /\ calls[c].begun <= t + TTL
    /\ s.admin =>
         \E t \in 0..MaxTime : <<s.user, "admin", t>> \in held /\ calls[c].begun < t + TTL

\* README.md: domain admins cannot grant any admin rights.  Nothing they have
\* done gives an account domains to administer.
Administers == {p \in Name \X Domain : role[p[1]] \in Users /\ p[2] \in rows[p[1]]}

NoRightsGranted ==
  [][\A c \in Calls : Store(c) /\ ~calls[c].session.admin => Administers' \subseteq Administers]_vars

=============================================================================
