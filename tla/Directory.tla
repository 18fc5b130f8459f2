----------------------------- MODULE Directory -----------------------------
(***************************************************************************)
(* The account store behind the HTTP handlers (internal/directory) running *)
(* against a live Stalwart: every request is a small process that lists    *)
(* the directory, decides on that listing, and only then writes.  Between  *)
(* two remote calls of one request any step of any other request may       *)
(* happen; there is no lock and no conditional write anywhere.             *)
(*                                                                         *)
(* One action is one remote call (a JMAP method call or an SQL statement)  *)
(* with everything the code does up to its next remote call.  A remote     *)
(* call may fail or exceed its 5 s deadline.  A write given up on may      *)
(* still reach Stalwart later (`late').  A crash of the process ends every *)
(* call it was serving as a failed remote call would: the store keeps      *)
(* nothing in memory between requests.                                     *)
(*                                                                         *)
(* Abstracted: texts, passwords and quota values other than "which write   *)
(* was last"; the operations that only read (ListAccounts, GetAccount,     *)
(* ListEmails, ListGroups, IsAdmin).                                       *)
(***************************************************************************)
EXTENDS Stalwart, FiniteSets

CONSTANTS
  Calls,        \* the requests that may be in progress at the same time
  Requests,     \* the requests clients send in this instance
  InitAccounts, \* the directory at the start
  InitRows,     \* the domain_admins table at the start
  FirstId,      \* no account of InitAccounts has this id or a larger one
  MaxId,        \* bound: accounts are created up to this id
  MaxKey,       \* bound: list keys are chosen up to this one
  MaxLate       \* bound: abandoned writes under way at the same time

-----------------------------------------------------------------------------
(* Requests, after the handler has decoded the body and CanonicalName has  *)
(* been applied to every address in it.                                    *)

CreateRequest  == [op : {"create"}, name : Address, type : {"individual", "group"},
                   quota : Nat]
UpdateRequest  == [op : {"update"}, name : Address,
                   fields : SUBSET {"description", "quota", "inactive"}, quota : Nat]
AccountRequest == [op : {"delete", "password"}, name : Address]
EmailRequest   == [op : {"insert"}, name : Address, addr : Address,
                   type : {"alias", "primary"}]
RemoveRequest  == [op : {"remove"}, name : Address, addr : Address]
GroupRequest   == [op : {"add_group", "remove_group"}, name : Address, group : Address]
DomainsRequest == [op : {"put_domains"}, name : Address, domains : SUBSET Domain]

Request == CreateRequest \cup UpdateRequest \cup AccountRequest \cup EmailRequest
             \cup RemoveRequest \cup GroupRequest \cup DomainsRequest

\* What a request that found its account decides to do, and one that has not.
NoPlan  == [kind |-> "none"]
Noop    == [kind |-> "noop"]     \* answer success without a write
Refusal == [kind |-> "refuse"]   \* answer a client error without a write
Plan    == AccountWrite \cup {NoPlan, Noop, Refusal}

NoRequest == [op |-> "none"]

\* Account ids start at 1, so that 0 says "no account".
ASSUME DirectoryAssumption ==
  /\ Requests \subseteq Request
  /\ InitAccounts \subseteq Account
  /\ \A a \in InitAccounts : a.id < FirstId /\ a.id # 0
  /\ \A a, b \in InitAccounts : (a.id = b.id \/ a.email = b.email) => a = b
  /\ InitRows \in [Address -> SUBSET Domain]
  /\ FirstId \in Nat \ {0}
  /\ MaxId \in Nat /\ MaxKey \in Nat /\ MaxLate \in Nat

VARIABLES
  accounts,  \* Stalwart's directory
  nextId,    \* the id Stalwart gives the next account; ids are not reused
  rows,      \* directory.domain_admins: the domains each name administers
  pc,        \* per call: the remote call it makes next, "idle" when answered
  req,       \* per call: the request
  found,     \* per call: id of the account its listing showed, 0 before that
  plan,      \* per call: what it decided on that listing
  answer,    \* per call: the last answer, "none" while one is due
  touched,   \* history, per call: ids others wrote to since its listing
  late,      \* abandoned writes that may still arrive: [write, name]
  clearing   \* per call: the rows its open transaction has deleted

vars == <<accounts, nextId, rows, pc, req, found, plan, answer, touched, late, clearing>>

stores == <<accounts, nextId, rows, late, clearing>>

Locations == { "idle", "accounts", "domains", "rows", "commit", "query_domain",
               "query_account", "write" }

-----------------------------------------------------------------------------
(* Lookups and decisions on a listing.                                     *)

\* Mutant: an account is also found by one of its aliases.
FindByTypeOrAlias(accts, type, name) ==
  {a \in accts : a.type = type /\ (a.email = name \/ \E al \in a.aliases : al.addr = name)}

FindByType(accts, type, name) == {a \in accts : a.type = type /\ a.email = name}

\* aliasAddresses: aliases whose domain is not hosted are not seen.
VisibleAliases(a) == {al \in a.aliases : al.addr.domain \in Hosted}

\* Mutant: groups are not looked at.
OwnersUsers(accts, addr) ==
  {a \in accts : a.type = "User" /\ (a.email = addr \/ \E al \in VisibleAliases(a) : al.addr = addr)}

\* addressInUse, as the set of accounts, users and groups, that have addr.
Owners(accts, addr) ==
  {a \in accts : a.email = addr \/ \E al \in VisibleAliases(a) : al.addr = addr}

\* Mutant: the largest key itself.
NextListKeyLast(keys) == {n \in {0} \cup keys : \A k \in keys : k <= n}

\* nextListKey: one more than the largest key, 0 when there is none.
NextListKey(keys) == {n \in {0} \cup {k + 1 : k \in keys} : \A k \in keys : k < n}

KeysOf(list) == {x.key : x \in list}

\* InsertEmail once both listings are there.
InsertPlans(a, r, accts) ==
  IF r.addr.domain \notin Hosted \/ Owners(accts, r.addr) # {}
  THEN {Refusal}
  ELSE {[kind |-> "alias", id |-> a.id, key |-> key, addr |-> r.addr] :
           key \in NextListKey(KeysOf(a.aliases))}

\* Mutant: the address is not compared.
RemovePlansAny(a, r) ==
  {[kind |-> "unalias", id |-> a.id, key |-> al.key] : al \in VisibleAliases(a)}

\* DeleteEmail: Go's map order picks one of the keys that hold the address.
RemovePlans(a, r) ==
  LET held == {al \in VisibleAliases(a) : al.addr = r.addr}
  IN  IF a.email = r.addr THEN {Refusal}
      ELSE IF held = {} THEN {Noop}
      ELSE {[kind |-> "unalias", id |-> a.id, key |-> al.key] : al \in held}

\* Mutants: a new entry every time; a new entry always under key 0.
PasswordPlansAdd(a) ==
  {[kind |-> "credential", id |-> a.id, key |-> key] : key \in NextListKey(KeysOf(a.creds))}
PasswordPlansZero(a) ==
  IF \E cr \in a.creds : cr.type = "Password"
  THEN {[kind |-> "secret", id |-> a.id, key |-> cr.key] :
           cr \in {x \in a.creds : x.type = "Password"}}
  ELSE {[kind |-> "credential", id |-> a.id, key |-> 0]}

\* SetPassword: the Password credential with the smallest key, or a new one.
PasswordPlans(a) ==
  LET passwords == {cr \in a.creds : cr.type = "Password"}
  IN  IF passwords = {}
      THEN {[kind |-> "credential", id |-> a.id, key |-> key] :
               key \in NextListKey(KeysOf(a.creds))}
      ELSE {[kind |-> "secret", id |-> a.id, key |-> cr.key] :
               cr \in {x \in passwords : \A y \in passwords : x.key <= y.key}}

\* UpdateAccount: an empty patch is not sent.
UpdatePlans(a, r) ==
  LET patch == r.fields \ {"inactive"}
  IN  IF patch = {} THEN {Noop}
      ELSE {[kind |-> "profile", id |-> a.id, fields |-> patch, quota |-> r.quota]}

AddGroupPlans(a, r, accts) ==
  LET groups == FindByType(accts, "Group", r.group)
  IN  IF groups = {} THEN {Refusal}
      ELSE {IF g.id \in a.groups THEN Noop
            ELSE [kind |-> "join", id |-> a.id, group |-> g.id] : g \in groups}

RemoveGroupPlans(a, r, accts) ==
  LET groups == {g \in FindByType(accts, "Group", r.group) : g.id \in a.groups}
  IN  IF groups = {} THEN {Refusal}
      ELSE {[kind |-> "leave", id |-> a.id, group |-> g.id] : g \in groups}

\* What request r may decide for the user a it found in the listing accts.
Plans(a, r, accts) ==
  CASE r.op = "insert"       -> InsertPlans(a, r, accts)
    [] r.op = "remove"       -> RemovePlans(a, r)
    [] r.op = "password"     -> PasswordPlans(a)
    [] r.op = "update"       -> UpdatePlans(a, r)
    [] r.op = "add_group"    -> AddGroupPlans(a, r, accts)
    [] r.op = "remove_group" -> RemoveGroupPlans(a, r, accts)
    [] OTHER                 -> {NoPlan}

WithinBound(p) == p.kind \in {"alias", "credential"} => p.key <= MaxKey

\* Refused before any remote call.
Unsupported(r) ==
  \/ r.op = "create" /\ r.type = "group"
  \/ r.op = "update" /\ "inactive" \in r.fields
  \/ r.op = "insert" /\ r.type # "alias"

-----------------------------------------------------------------------------
Init ==
  /\ accounts = InitAccounts
  /\ nextId = FirstId
  /\ rows = InitRows
  /\ pc = [c \in Calls |-> "idle"]
  /\ req = [c \in Calls |-> NoRequest]
  /\ found = [c \in Calls |-> 0]
  /\ plan = [c \in Calls |-> NoPlan]
  /\ answer = [c \in Calls |-> "none"]
  /\ touched = [c \in Calls |-> {}]
  /\ late = {}
  /\ clearing = [c \in Calls |-> {}]

\* Mutant: the handler does not return after answering.
AnswerAndGoOn(c, result) ==
  /\ req' = [req EXCEPT ![c] = NoRequest]
  /\ found' = [found EXCEPT ![c] = 0]
  /\ plan' = [plan EXCEPT ![c] = NoPlan]
  /\ answer' = [answer EXCEPT ![c] = result]
  /\ UNCHANGED pc

\* Call c is over: its goroutine returns and nothing of it is left.
Answer(c, result) ==
  /\ pc' = [pc EXCEPT ![c] = "idle"]
  /\ req' = [req EXCEPT ![c] = NoRequest]
  /\ found' = [found EXCEPT ![c] = 0]
  /\ plan' = [plan EXCEPT ![c] = NoPlan]
  /\ answer' = [answer EXCEPT ![c] = result]

Forget(c) == touched' = [touched EXCEPT ![c] = {}]

Begin(c) ==
  /\ pc[c] = "idle"
  /\ \E r \in Requests :
       /\ ~ Unsupported(r)
       /\ r.op = "create" => nextId <= MaxId
       /\ req' = [req EXCEPT ![c] = r]
       /\ pc' = [pc EXCEPT ![c] = IF r.op = "create" THEN "query_domain" ELSE "accounts"]
  /\ answer' = [answer EXCEPT ![c] = "none"]
  /\ UNCHANGED <<stores, found, plan, touched>>

Reject(c) ==
  /\ pc[c] = "idle"
  /\ \E r \in Requests : Unsupported(r)
  /\ answer' = [answer EXCEPT ![c] = "refused"]
  /\ UNCHANGED <<stores, pc, req, found, plan, touched>>

\* Mutant: the rows are left for after the account is gone.
AfterListingKeepRows(r) ==
  CASE r.op \in {"insert", "remove"} -> "domains"
    [] r.op = "delete"               -> "query_domain"
    [] r.op = "put_domains"          -> "rows"
    [] OTHER                         -> "write"

AfterListing(r) ==
  CASE r.op \in {"insert", "remove"}      -> "domains"
    [] r.op \in {"delete", "put_domains"} -> "rows"
    [] OTHER                              -> "write"

\* x:Account/get, and find / findByType on the answer.
ListAccounts(c) ==
  /\ pc[c] = "accounts"
  /\ \E a \in FindByType(accounts, "User", req[c].name) :
       /\ found' = [found EXCEPT ![c] = a.id]
       /\ \E p \in Plans(a, req[c], accounts) :
            /\ WithinBound(p)
            /\ plan' = [plan EXCEPT ![c] = p]
  /\ pc' = [pc EXCEPT ![c] = AfterListing(req[c])]
  /\ Forget(c)
  /\ UNCHANGED <<stores, req, answer>>

\* ErrAccountNotFound
NotListed(c) ==
  /\ pc[c] = "accounts" /\ req[c].op # "insert"
  /\ FindByType(accounts, "User", req[c].name) = {}
  /\ Answer(c, "refused")
  /\ Forget(c)
  /\ UNCHANGED stores

\* InsertEmail looks for the account when it has listed the domains too.
NotListedForInsert(c) ==
  /\ pc[c] = "accounts" /\ req[c].op = "insert"
  /\ FindByType(accounts, "User", req[c].name) = {}
  /\ pc' = [pc EXCEPT ![c] = "domains"]
  /\ plan' = [plan EXCEPT ![c] = Refusal]
  /\ Forget(c)
  /\ UNCHANGED <<stores, req, found, answer>>

\* x:Domain/get; the hosted domains do not change while the program runs.
ListDomains(c) ==
  /\ pc[c] = "domains"
  /\ pc' = [pc EXCEPT ![c] = "write"]
  /\ UNCHANGED <<stores, req, found, plan, answer, touched>>

\* Mutant: deleting leaves the rows of the name.
RowsAfterKept(r, left) ==
  IF r.op = "put_domains" THEN [rows EXCEPT ![r.name] = left \cup r.domains] ELSE rows

\* The table when request r has written its rows; left are the rows of the name
\* that its DELETE did not see.
RowsAfter(r, left) ==
  [rows EXCEPT ![r.name] = IF r.op = "put_domains" THEN left \cup r.domains ELSE {}]

\* Rows of name that call c deletes for good: no other transaction holds them.
Release(c, name, deleted) ==
  clearing' = [d \in Calls |->
                 IF d = c THEN {}
                 ELSE IF pc[d] = "commit" /\ req[d].name = name
                      THEN clearing[d] \ deleted
                      ELSE clearing[d]]

\* DeleteAdminDomains, one statement.  (One that waits for a transaction deletes
\* what it saw when it started: as if it had come before it.)
WriteRows(c) ==
  /\ pc[c] = "rows" /\ req[c].op = "delete"
  /\ rows' = RowsAfter(req[c], {})
  /\ Release(c, req[c].name, rows[req[c].name])
  /\ pc' = [pc EXCEPT ![c] = "query_domain"]
  /\ UNCHANGED <<accounts, nextId, late, req, found, plan, answer, touched>>

\* The statement took effect and its answer did not come back in time.
LoseRowsAnswer(c) ==
  /\ pc[c] = "rows" /\ req[c].op = "delete"
  /\ rows' = RowsAfter(req[c], {})
  /\ Release(c, req[c].name, rows[req[c].name])
  /\ Answer(c, "failed") /\ Forget(c)
  /\ UNCHANGED <<accounts, nextId, late>>

\* Mutant: the transaction does not start with a DELETE.
ClearRowsNot(c) ==
  /\ pc[c] = "rows" /\ req[c].op = "put_domains"
  /\ pc' = [pc EXCEPT ![c] = "commit"]
  /\ UNCHANGED <<stores, req, found, plan, answer, touched>>

\* SetAdminDomains, at the database's default READ COMMITTED: its DELETE sees the
\* committed rows, and of two transactions that saw a row the first to commit
\* deletes it.
ClearRows(c) ==
  /\ pc[c] = "rows" /\ req[c].op = "put_domains"
  /\ clearing' = [clearing EXCEPT ![c] = rows[req[c].name]]
  /\ pc' = [pc EXCEPT ![c] = "commit"]
  /\ UNCHANGED <<accounts, nextId, rows, late, req, found, plan, answer, touched>>

\* Its INSERTs and COMMIT.  A row that is already there, (name, domain) being the
\* primary key, fails the transaction.  The answer to the COMMIT may be lost.
CommitRows(c) ==
  /\ pc[c] = "commit"
  /\ LET r == req[c]
         left == rows[r.name] \ clearing[c]
     IN  /\ left \cap r.domains = {}
         /\ rows' = RowsAfter(r, left)
         /\ Release(c, r.name, clearing[c])
  /\ \E result \in {"ok", "failed"} : Answer(c, result)
  /\ Forget(c)
  /\ UNCHANGED <<accounts, nextId, late>>

Rollback(c) ==
  /\ pc[c] = "commit"
  /\ Answer(c, "failed") /\ Forget(c)
  /\ clearing' = [clearing EXCEPT ![c] = {}]
  /\ UNCHANGED <<accounts, nextId, rows, late>>

\* x:Domain/query of the client's CreateAccount and DeleteAccount.
QueryDomain(c) ==
  /\ pc[c] = "query_domain"
  /\ req[c].name.domain \in Hosted
  /\ IF req[c].op = "create"
     THEN /\ pc' = [pc EXCEPT ![c] = "write"]
          /\ plan' = [plan EXCEPT ![c] =
               [kind |-> "create", email |-> req[c].name, quota |-> req[c].quota]]
     ELSE /\ pc' = [pc EXCEPT ![c] = "query_account"]
          /\ UNCHANGED plan
  /\ UNCHANGED <<stores, req, found, answer, touched>>

\* x:Account/query filters on name and domain, not on the type.
QueryAccount(name) == {a \in accounts : a.email = name}

FindForDelete(c) ==
  /\ pc[c] = "query_account"
  /\ \E a \in QueryAccount(req[c].name) :
       plan' = [plan EXCEPT ![c] = [kind |-> "destroy", id |-> a.id]]
  /\ pc' = [pc EXCEPT ![c] = "write"]
  /\ UNCHANGED <<stores, req, found, answer, touched>>

\* Already gone: logged, and answered as a success.
GoneBeforeDelete(c) ==
  /\ pc[c] = "query_account"
  /\ QueryAccount(req[c].name) = {}
  /\ Answer(c, "ok") /\ Forget(c)
  /\ UNCHANGED stores

\* Decisions that need no write are answered without another remote call.
Settle(c) ==
  /\ pc[c] = "write"
  /\ plan[c].kind \in {"noop", "refuse"}
  /\ Answer(c, IF plan[c].kind = "noop" THEN "ok" ELSE "refused")
  /\ Forget(c)
  /\ UNCHANGED stores

Writing(c) == pc[c] = "write" /\ plan[c] \in AccountWrite

\* Stalwart carries out write w; others are the calls it comes as news to.
Commit(w, others) ==
  /\ Accepts(accounts, w)
  /\ w.kind = "create" => nextId <= MaxId
  /\ accounts' = Effect(accounts, w, nextId)
  /\ nextId' = IF w.kind = "create" THEN nextId + 1 ELSE nextId
  /\ touched' = [d \in Calls |->
                   IF d \notin others THEN {}
                   ELSE IF found[d] = 0 THEN touched[d]
                   ELSE touched[d] \cup {IF w.kind = "create" THEN nextId ELSE w.id}]
  /\ UNCHANGED <<rows, clearing>>

\* x:Account/set answers created, updated or destroyed.
Write(c) ==
  /\ Writing(c)
  /\ Commit(plan[c], Calls \ {c})
  /\ Answer(c, "ok")
  /\ UNCHANGED late

\* Mutant: notCreated, notUpdated and notDestroyed are not looked at.
WriteRefusedUnseen(c) == Writing(c) /\ Answer(c, "ok") /\ Forget(c) /\ UNCHANGED stores

\* x:Account/set answers notCreated, notUpdated or notDestroyed: because the
\* write can not be applied, or for a reason of its own (password policy).
\* alreadyExists, invalidPatch and invalidProperties are the client's fault;
\* notFound is not.
WriteRefused(c) ==
  /\ Writing(c)
  /\ \E result \in {"refused", "failed"} :
       /\ ~ Accepts(accounts, plan[c]) =>
            (result = "refused" <=> plan[c].kind \in {"create", "secret"})
       /\ Answer(c, result)
  /\ Forget(c)
  /\ UNCHANGED stores

\* A remote call fails, its deadline passes before it is carried out, or the
\* process crashes.
Fail(c) ==
  /\ pc[c] \notin {"idle", "commit"}
  /\ Answer(c, "failed") /\ Forget(c)
  /\ UNCHANGED stores

\* The deadline passes with the write still on its way to Stalwart.
Abandon(c) ==
  /\ Writing(c)
  /\ Cardinality(late) < MaxLate
  /\ late' = late \cup {[write |-> plan[c], name |-> req[c].name]}
  /\ Answer(c, "failed") /\ Forget(c)
  /\ UNCHANGED <<accounts, nextId, rows, clearing>>

LateWrite ==
  /\ \E l \in late : Commit(l.write, Calls) /\ late' = late \ {l}
  /\ UNCHANGED <<pc, req, found, plan, answer>>

LateWriteLost ==
  /\ \E l \in late : late' = late \ {l}
  /\ UNCHANGED <<accounts, nextId, rows, clearing, pc, req, found, plan, answer, touched>>

Step(c) ==
  \/ ListAccounts(c) \/ NotListed(c) \/ NotListedForInsert(c) \/ ListDomains(c)
  \/ WriteRows(c) \/ LoseRowsAnswer(c) \/ ClearRows(c) \/ CommitRows(c) \/ Rollback(c)
  \/ QueryDomain(c) \/ FindForDelete(c) \/ GoneBeforeDelete(c)
  \/ Settle(c) \/ Write(c) \/ WriteRefused(c)
  \/ Fail(c) \/ Abandon(c)

Next ==
  \/ \E c \in Calls : Begin(c) \/ Reject(c) \/ Step(c)
  \/ LateWrite
  \/ LateWriteLost

Spec == Init /\ [][Next]_vars

-----------------------------------------------------------------------------
(* What must hold.                                                         *)

\* Every variable keeps its type, and what a call carries fits where it is.
TypeOK ==
  /\ accounts \subseteq Account
  /\ nextId \in Nat \ {0}
  /\ rows \in [Address -> SUBSET Domain]
  /\ pc \in [Calls -> Locations]
  /\ req \in [Calls -> Requests \cup {NoRequest}]
  /\ found \in [Calls -> Nat]
  /\ plan \in [Calls -> Plan]
  /\ answer \in [Calls -> {"none", "ok", "refused", "failed"}]
  /\ touched \in [Calls -> SUBSET Nat]
  /\ late \subseteq [write : AccountWrite, name : Address]
  /\ clearing \in [Calls -> SUBSET Domain]
  /\ \A c \in Calls : pc[c] # "idle" => req[c] \in Requests

\* An account changes or disappears only while a request, or the late write of
\* one, names exactly its primary address, and only if it is a user: a write by
\* id never lands on a group, on an account that merely has the address as an
\* alias, or on the account that took the address over after a delete (findByType,
\* "so a name the authorization checks treat as different can't reach another
\* account").
OnlyNamedChange ==
  [][\A a \in accounts \ accounts' :
       /\ a.type = "User"
       /\ \/ \E c \in Calls : pc[c] = "write" /\ req[c].name = a.email
          \/ \E l \in late : l.name = a.email]_vars

\* As long as nobody else writes to the account after InsertEmail listed it, the
\* key it chose is free, so the alias it adds replaces none.
InsertFits ==
  \A c \in Calls :
    (plan[c].kind = "alias" /\ plan[c].id \notin touched[c]) =>
      \A a \in accounts : a.id = plan[c].id => plan[c].key \notin KeysOf(a.aliases)

\* As long as nobody else writes to the account after DeleteEmail listed it, the
\* key it is about to clear holds the address it was asked to remove.
RemoveFits ==
  \A c \in Calls :
    (plan[c].kind = "unalias" /\ plan[c].id \notin touched[c]) =>
      \A a \in accounts : a.id = plan[c].id =>
        [key |-> plan[c].key, addr |-> req[c].addr] \in a.aliases

\* An address InsertEmail is about to add is owned by no account, user or group,
\* except one that was written to since the listing: addressInUse misses none.
AddressClear ==
  \A c \in Calls :
    plan[c].kind = "alias" =>
      \A a \in accounts :
        (plan[c].addr = a.email \/ plan[c].addr \in {al.addr : al \in a.aliases}) =>
          a.id \in touched[c]

\* SetPassword never costs an account another credential: an API key goes only
\* together with its account, whatever is interleaved or arrives late.
ApiKeysKept ==
  [][\A a \in accounts, b \in accounts' :
       a.id = b.id => {cr \in a.creds : cr.type = "ApiKey"} \subseteq b.creds]_vars

\* No account ever has a second Password credential, so the one SetPassword
\* replaces is the one that signs the user in.
OnePassword ==
  \A a \in accounts : \A x, y \in a.creds : (x.type = "Password" /\ y.type = "Password") => x = y

\* Domain admin rows exist only for users in the directory: DeleteAccount removes
\* them before the account, "a re-created address would inherit the orphaned
\* rows" otherwise.
NoOrphanRows ==
  \A name \in Address : rows[name] # {} => FindByType(accounts, "User", name) # {}

\* An alias leaves an account that stays only when a request to remove that very
\* address is at its write: adding an alias costs no other alias, and DeleteEmail
\* "removes an alias", the one in its path.
AliasGoesOnRequest ==
  [][\A a \in accounts, b \in accounts' : a.id = b.id =>
       \A al \in a.aliases :
          \/ al.addr \in {x.addr : x \in b.aliases}
          \/ \E c \in Calls :
               pc[c] = "write" /\ req[c].op = "remove" /\ req[c].addr = al.addr]_vars

\* "Replace the domains an account administers" (README.md): whenever the domains
\* of a name change, nothing is left of them or they are what one request asked
\* for.  Two grants that overlap may leave a mix of both.
GrantReplaces ==
  [][\A name \in Address : rows'[name] # rows[name] =>
       \/ rows'[name] = {}
       \/ \E c \in Calls :
            pc[c] = "commit" /\ req[c].name = name /\ rows'[name] = req[c].domains]_vars

\* What a success answer promises of request r, whose account has the given id.
Done(r, id) ==
  LET target == {a \in accounts : a.id = id}
  IN  CASE r.op = "create" -> FindByType(accounts, "User", r.name) # {}
        [] r.op = "delete" -> target = {} /\ rows[r.name] = {}
        [] r.op = "insert" -> \E a \in target : \E al \in a.aliases : al.addr = r.addr
        [] r.op = "remove" -> \A a \in target : \A al \in VisibleAliases(a) : al.addr # r.addr
        [] r.op = "password" -> \E a \in target : \E cr \in a.creds : cr.type = "Password"
        [] r.op = "update" ->
             "quota" \in r.fields => \E a \in target : a.quota = r.quota
        [] r.op = "add_group" ->
             \E a \in target, g \in FindByType(accounts, "Group", r.group) : g.id \in a.groups
        [] r.op = "remove_group" ->
             \A a \in target, g \in FindByType(accounts, "Group", r.group) : g.id \notin a.groups
        [] r.op = "put_domains" -> rows[r.name] = r.domains
        [] OTHER -> TRUE

\* A request answered with success has been carried out, unless somebody else
\* wrote to the account in the meantime.
OkMeansDone ==
  [][\A c \in Calls : \A r \in {req[c]}, id \in {found[c]} :
       (pc[c] # "idle" /\ answer'[c] = "ok" /\ id \notin touched[c]) => Done(r, id)']_vars
=============================================================================
