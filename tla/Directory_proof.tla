--------------------------- MODULE Directory_proof ---------------------------
(***************************************************************************)
(* Proofs about Directory, for every set of calls, requests, accounts and  *)
(* bounds.                                                                 *)
(***************************************************************************)
EXTENDS Directory, TLAPS

-----------------------------------------------------------------------------
(* What a write does to the directory, whatever the write is.              *)

\* A patched account is an account; its identity does not change.
LEMMA PatchedFacts ==
  ASSUME NEW a \in Account, NEW w \in PatchWrite
  PROVE  /\ Patched(a, w) \in Account
         /\ Patched(a, w).id = a.id
         /\ Patched(a, w).type = a.type
         /\ Patched(a, w).email = a.email
<1> USE DEF Account
<1>1. CASE w \in AliasWrite
  <2>1. w.kind = "alias" /\ w.key \in Nat /\ w.addr \in Address
    BY <1>1 DEF AliasWrite
  <2>2. Patched(a, w) = [a EXCEPT !.aliases = PutEntry(a.aliases, [key |-> w.key, addr |-> w.addr])]
    BY <2>1 DEF Patched
  <2>3. PutEntry(a.aliases, [key |-> w.key, addr |-> w.addr]) \in SUBSET Alias
    BY <2>1 DEF PutEntry, Alias
  <2> QED BY <2>2, <2>3
<1>2. CASE w \in UnaliasWrite
  BY <1>2 DEF UnaliasWrite, Patched
<1>3. CASE w \in MemberWrite
  <2>1. w.kind \in {"join", "leave"} /\ w.group \in Nat
    BY <1>3 DEF MemberWrite
  <2> QED BY <2>1 DEF Patched
<1>4. CASE w \in ProfileWrite
  <2>1. w.kind = "profile" /\ w.quota \in Nat
    BY <1>4 DEF ProfileWrite
  <2> QED BY <2>1 DEF Patched
<1>5. CASE w \in SecretWrite
  BY <1>5 DEF SecretWrite, Patched
<1>6. CASE w \in CredentialWrite
  <2>1. w.kind = "credential" /\ w.key \in Nat
    BY <1>6 DEF CredentialWrite
  <2>2. Patched(a, w) = [a EXCEPT !.creds = PutEntry(a.creds, [key |-> w.key, type |-> "Password"])]
    BY <2>1 DEF Patched
  <2>3. PutEntry(a.creds, [key |-> w.key, type |-> "Password"]) \in SUBSET Credential
    BY <2>1 DEF PutEntry, Credential
  <2> QED BY <2>2, <2>3
<1> QED BY <1>1, <1>2, <1>3, <1>4, <1>5, <1>6 DEF PatchWrite

\* A created account is an account.
LEMMA NewAccountFacts ==
  ASSUME NEW id \in Nat, NEW w \in CreateWrite
  PROVE  /\ NewAccount(id, w) \in Account
         /\ NewAccount(id, w).id = id
         /\ NewAccount(id, w).type = "User"
         /\ NewAccount(id, w).email = w.email
  BY DEF NewAccount, CreateWrite, Account, Credential, Alias

\* What kinds of writes there are.
LEMMA WriteKinds ==
  ASSUME NEW w \in AccountWrite
  PROVE  \/ w \in CreateWrite /\ w.kind = "create"
         \/ w \in DestroyWrite /\ w.kind = "destroy" /\ w.id \in Nat
         \/ /\ w \in PatchWrite /\ w.id \in Nat
            /\ w.kind \in {"alias", "unalias", "join", "leave", "profile", "secret", "credential"}
  BY DEF AccountWrite, CreateWrite, DestroyWrite, PatchWrite, AliasWrite, UnaliasWrite,
         MemberWrite, ProfileWrite, SecretWrite, CredentialWrite

\* An accepted write leaves every account that it does not address as it was,
\* keeps the identity of the one it addresses, and makes at most one new user.
LEMMA EffectFacts ==
  ASSUME NEW accts \in SUBSET Account, NEW w \in AccountWrite, NEW id \in Nat
  PROVE  /\ Effect(accts, w, id) \subseteq Account
         /\ \A b \in Effect(accts, w, id) :
              \/ \E a \in accts : a.id = b.id /\ a.type = b.type /\ a.email = b.email
              \/ w.kind = "create" /\ b = NewAccount(id, w)
         /\ \A a \in accts : a \notin Effect(accts, w, id) =>
              w.kind # "create" /\ a.id = w.id
<1>1. CASE w \in CreateWrite /\ w.kind = "create"
  <2>1. Effect(accts, w, id) = accts \cup {NewAccount(id, w)}
    BY <1>1 DEF Effect
  <2> QED BY <1>1, <2>1, NewAccountFacts
<1>2. CASE w \in DestroyWrite /\ w.kind = "destroy"
  <2>1. Effect(accts, w, id) = {a \in accts : a.id # w.id}
    BY <1>2 DEF Effect
  <2> QED BY <1>2, <2>1
<1>3. CASE w \in PatchWrite /\ w.kind \notin {"create", "destroy"}
  <2>1. Effect(accts, w, id) = {IF a.id = w.id THEN Patched(a, w) ELSE a : a \in accts}
    BY <1>3 DEF Effect
  <2>2. \A a \in accts :
          /\ Patched(a, w) \in Account
          /\ Patched(a, w).id = a.id
          /\ Patched(a, w).type = a.type
          /\ Patched(a, w).email = a.email
    BY <1>3, PatchedFacts
  <2> QED BY <1>3, <2>1, <2>2
<1> QED BY <1>1, <1>2, <1>3, WriteKinds

-----------------------------------------------------------------------------
(* What a request decides on its listing.                                  *)

\* The keys chosen for new entries are natural numbers.
LEMMA NextListKeyFacts ==
  ASSUME NEW keys \in SUBSET Nat
  PROVE  NextListKey(keys) \subseteq Nat
  BY DEF NextListKey

\* Whatever a request decides is a plan, and a write it plans is a patch of the
\* very account that was found.
LEMMA PlansFacts ==
  ASSUME NEW accts \in SUBSET Account, NEW a \in accts, NEW r \in Request,
         NEW p \in Plans(a, r, accts)
  PROVE  p \in {NoPlan, Noop, Refusal} \/ (p \in PatchWrite /\ p.id = a.id)
<1>1. /\ a.id \in Nat /\ a.aliases \subseteq Alias /\ a.creds \subseteq Credential
      /\ \A g \in accts : g.id \in Nat
  BY DEF Account
<1>2. KeysOf(a.aliases) \subseteq Nat /\ KeysOf(a.creds) \subseteq Nat
  BY <1>1 DEF KeysOf, Alias, Credential
<1>3. CASE r.op = "insert"
  <2>1. r.addr \in Address
    BY <1>3 DEF Request, CreateRequest, UpdateRequest, AccountRequest, EmailRequest,
                RemoveRequest, GroupRequest, DomainsRequest
  <2>2. p \in InsertPlans(a, r, accts)
    BY <1>3 DEF Plans
  <2>3. p = Refusal \/ (p \in AliasWrite /\ p.id = a.id)
    BY <1>1, <1>2, <2>1, <2>2, NextListKeyFacts DEF InsertPlans, AliasWrite
  <2> QED BY <2>3 DEF PatchWrite
<1>4. CASE r.op = "remove"
  <2>1. p \in RemovePlans(a, r)
    BY <1>4 DEF Plans
  <2>2. p \in {Refusal, Noop} \/ (p \in UnaliasWrite /\ p.id = a.id)
    BY <1>1, <2>1 DEF RemovePlans, UnaliasWrite, VisibleAliases, Alias
  <2> QED BY <2>2 DEF PatchWrite
<1>5. CASE r.op = "password"
  <2>1. p \in PasswordPlans(a)
    BY <1>5 DEF Plans
  <2>2. (p \in SecretWrite \/ p \in CredentialWrite) /\ p.id = a.id
    BY <1>1, <1>2, <2>1, NextListKeyFacts
       DEF PasswordPlans, SecretWrite, CredentialWrite, Credential
  <2> QED BY <2>2 DEF PatchWrite
<1>6. CASE r.op = "update"
  <2>1. p \in UpdatePlans(a, r)
    BY <1>6 DEF Plans
  <2>2. r.fields \subseteq {"description", "quota", "inactive"} /\ r.quota \in Nat
    BY <1>6 DEF Request, CreateRequest, UpdateRequest, AccountRequest, EmailRequest,
                RemoveRequest, GroupRequest, DomainsRequest
  <2>3. p = Noop \/ (p \in ProfileWrite /\ p.id = a.id)
    BY <1>1, <2>1, <2>2 DEF UpdatePlans, ProfileWrite
  <2> QED BY <2>3 DEF PatchWrite
<1>7. CASE r.op = "add_group"
  <2>1. p \in AddGroupPlans(a, r, accts)
    BY <1>7 DEF Plans
  <2>2. p \in {Refusal, Noop} \/ (p \in MemberWrite /\ p.id = a.id)
    BY <1>1, <2>1 DEF AddGroupPlans, FindByType, MemberWrite
  <2> QED BY <2>2 DEF PatchWrite
<1>8. CASE r.op = "remove_group"
  <2>1. p \in RemoveGroupPlans(a, r, accts)
    BY <1>8 DEF Plans
  <2>2. p = Refusal \/ (p \in MemberWrite /\ p.id = a.id)
    BY <1>1, <2>1 DEF RemoveGroupPlans, FindByType, MemberWrite
  <2> QED BY <2>2 DEF PatchWrite
<1>9. CASE r.op \notin {"insert", "remove", "password", "update", "add_group", "remove_group"}
  BY <1>9 DEF Plans
<1> QED BY <1>3, <1>4, <1>5, <1>6, <1>7, <1>8, <1>9

-----------------------------------------------------------------------------
(* Type correctness.                                                       *)

\* A request names an address, and has nothing in common with NoRequest.
LEMMA RequestFacts ==
  ASSUME NEW r \in Request
  PROVE  /\ r.name \in Address
         /\ r.op = "create" => r.quota \in Nat
         /\ r.op = "put_domains" => r.domains \in SUBSET Domain
  BY DEF Request, CreateRequest, UpdateRequest, AccountRequest, EmailRequest,
         RemoveRequest, GroupRequest, DomainsRequest

\* Answering a call keeps the types of what belongs to it.
LEMMA AnswerTypes ==
  ASSUME TypeOK, NEW c \in Calls, NEW result \in {"ok", "refused", "failed"},
         Answer(c, result)
  PROVE  /\ pc' \in [Calls -> Locations]
         /\ req' \in [Calls -> Requests \cup {NoRequest}]
         /\ found' \in [Calls -> Nat]
         /\ plan' \in [Calls -> Plan]
         /\ answer' \in [Calls -> {"none", "ok", "refused", "failed"}]
         /\ \A d \in Calls : pc'[d] # "idle" => req'[d] \in Requests
  BY DEF TypeOK, Answer, Locations, Plan

\* So does carrying out a write, for what belongs to Stalwart and the history.
LEMMA CommitTypes ==
  ASSUME TypeOK, NEW w \in AccountWrite, NEW others \in SUBSET Calls, Commit(w, others)
  PROVE  /\ accounts' \subseteq Account
         /\ nextId' \in Nat \ {0}
         /\ touched' \in [Calls -> SUBSET Nat]
         /\ rows' = rows /\ clearing' = clearing
<1>1. nextId \in Nat /\ accounts \in SUBSET Account
  BY DEF TypeOK
<1>2. accounts' \subseteq Account
  BY <1>1, EffectFacts DEF Commit
<1>3. nextId' \in Nat \ {0}
  BY DEF Commit, TypeOK
<1>4. (IF w.kind = "create" THEN nextId ELSE w.id) \in Nat
  BY <1>1, WriteKinds
<1>5. touched' \in [Calls -> SUBSET Nat]
  BY <1>4 DEF Commit, TypeOK
<1> QED BY <1>2, <1>3, <1>5 DEF Commit

LEMMA TypeInit == Init => TypeOK
  BY DirectoryAssumption DEF Init, TypeOK, Locations, Plan

LEMMA TypeStep == TypeOK /\ [Next]_vars => TypeOK'
<1> SUFFICES ASSUME TypeOK, [Next]_vars
             PROVE  TypeOK'
  OBVIOUS
<1>1. CASE UNCHANGED vars
  BY <1>1 DEF TypeOK, vars
<1>2. ASSUME NEW c \in Calls, Begin(c) PROVE TypeOK'
  BY <1>2 DEF TypeOK, Begin, stores, Locations
<1>3. ASSUME NEW c \in Calls, Reject(c) PROVE TypeOK'
  BY <1>3 DEF TypeOK, Reject, stores
<1>4. ASSUME NEW c \in Calls, ListAccounts(c) PROVE TypeOK'
  <2>1. PICK a \in FindByType(accounts, "User", req[c].name) :
          /\ found' = [found EXCEPT ![c] = a.id]
          /\ \E p \in Plans(a, req[c], accounts) : plan' = [plan EXCEPT ![c] = p]
    BY <1>4 DEF ListAccounts
  <2>0. PICK p \in Plans(a, req[c], accounts) : plan' = [plan EXCEPT ![c] = p]
    BY <2>1
  <2>2. a \in accounts /\ a.id \in Nat /\ req[c] \in Request
    BY <1>4, DirectoryAssumption DEF ListAccounts, FindByType, TypeOK, Account
  <2>3. p \in Plan
    BY <2>2, PlansFacts DEF TypeOK, Plan, AccountWrite
  <2>4. pc' \in [Calls -> Locations]
    <3>1. AfterListing(req[c]) \in {"domains", "rows", "write"}
      BY DEF AfterListing
    <3> QED BY <1>4, <3>1 DEF ListAccounts, TypeOK, Locations
  <2>5. touched' \in [Calls -> SUBSET Nat]
    BY <1>4 DEF ListAccounts, Forget, TypeOK
  <2> QED BY <1>4, <2>1, <2>0, <2>2, <2>3, <2>4, <2>5 DEF ListAccounts, TypeOK, stores
<1>5. ASSUME NEW c \in Calls, NotListed(c) PROVE TypeOK'
  BY <1>5, AnswerTypes DEF TypeOK, NotListed, Forget, stores
<1>6. ASSUME NEW c \in Calls, ListDomains(c) PROVE TypeOK'
  BY <1>6 DEF TypeOK, ListDomains, stores, Locations
<1>7. ASSUME NEW c \in Calls, pc[c] # "idle", NEW left \in SUBSET Domain
      PROVE  RowsAfter(req[c], left) \in [Address -> SUBSET Domain]
  BY <1>7, RequestFacts, DirectoryAssumption DEF TypeOK, RowsAfter
<1>r. ASSUME NEW c \in Calls, NEW name, NEW deleted, Release(c, name, deleted)
      PROVE  clearing' \in [Calls -> SUBSET Domain]
  BY <1>r DEF Release, TypeOK
<1>8. ASSUME NEW c \in Calls, WriteRows(c) PROVE TypeOK'
  <2>1. rows' \in [Address -> SUBSET Domain]
    BY <1>7, <1>8 DEF WriteRows
  <2>2. clearing' \in [Calls -> SUBSET Domain]
    BY <1>r, <1>8 DEF WriteRows
  <2> QED BY <1>8, <2>1, <2>2 DEF TypeOK, WriteRows, Locations
<1>9. ASSUME NEW c \in Calls, LoseRowsAnswer(c) PROVE TypeOK'
  <2>1. rows' \in [Address -> SUBSET Domain]
    BY <1>7, <1>9 DEF LoseRowsAnswer
  <2>2. clearing' \in [Calls -> SUBSET Domain]
    BY <1>r, <1>9 DEF LoseRowsAnswer
  <2> QED BY <1>9, <2>1, <2>2, AnswerTypes DEF TypeOK, LoseRowsAnswer, Forget
<1>21. ASSUME NEW c \in Calls, ClearRows(c) PROVE TypeOK'
  <2>1. rows[req[c].name] \in SUBSET Domain
    BY <1>21, RequestFacts, DirectoryAssumption DEF ClearRows, TypeOK
  <2> QED BY <1>21, <2>1 DEF TypeOK, ClearRows, Locations
<1>22. ASSUME NEW c \in Calls, CommitRows(c) PROVE TypeOK'
  <2>1. req[c].name \in Address /\ rows[req[c].name] \ clearing[c] \in SUBSET Domain
    BY <1>22, RequestFacts, DirectoryAssumption DEF CommitRows, TypeOK
  <2>2. rows' \in [Address -> SUBSET Domain]
    BY <1>7, <1>22, <2>1 DEF CommitRows
  <2>3. clearing' \in [Calls -> SUBSET Domain]
    BY <1>r, <1>22 DEF CommitRows
  <2>4. PICK result \in {"ok", "failed"} : Answer(c, result)
    BY <1>22 DEF CommitRows
  <2> QED BY <1>22, <2>2, <2>3, <2>4, AnswerTypes DEF TypeOK, CommitRows, Forget
<1>23. ASSUME NEW c \in Calls, Rollback(c) PROVE TypeOK'
  BY <1>23, AnswerTypes DEF TypeOK, Rollback, Forget
<1>10. ASSUME NEW c \in Calls, QueryDomain(c) PROVE TypeOK'
  <2>1. CASE req[c].op = "create"
    <3>1. req[c] \in Request
      BY <1>10, DirectoryAssumption DEF QueryDomain, TypeOK
    <3>2. [kind |-> "create", email |-> req[c].name, quota |-> req[c].quota] \in CreateWrite
      BY <2>1, <3>1, RequestFacts DEF CreateWrite
    <3> QED BY <1>10, <2>1, <3>2 DEF QueryDomain, TypeOK, Locations, Plan, AccountWrite, stores
  <2>2. CASE req[c].op # "create"
    BY <1>10, <2>2 DEF QueryDomain, TypeOK, Locations, stores
  <2> QED BY <2>1, <2>2
<1>11. ASSUME NEW c \in Calls, FindForDelete(c) PROVE TypeOK'
  <2>1. PICK a \in QueryAccount(req[c].name) :
          plan' = [plan EXCEPT ![c] = [kind |-> "destroy", id |-> a.id]]
    BY <1>11 DEF FindForDelete
  <2>2. [kind |-> "destroy", id |-> a.id] \in DestroyWrite
    BY DEF QueryAccount, TypeOK, Account, DestroyWrite
  <2> QED BY <1>11, <2>1, <2>2 DEF FindForDelete, TypeOK, Locations, Plan, AccountWrite, stores
<1>12. ASSUME NEW c \in Calls, GoneBeforeDelete(c) PROVE TypeOK'
  BY <1>12, AnswerTypes DEF TypeOK, GoneBeforeDelete, Forget, stores
<1>13. ASSUME NEW c \in Calls, Settle(c) PROVE TypeOK'
  BY <1>13, AnswerTypes DEF TypeOK, Settle, Forget, stores
<1>14. ASSUME NEW c \in Calls, Write(c) PROVE TypeOK'
  BY <1>14, AnswerTypes, CommitTypes DEF TypeOK, Write, Writing
<1>15. ASSUME NEW c \in Calls, WriteRefused(c) PROVE TypeOK'
  BY <1>15, AnswerTypes DEF TypeOK, WriteRefused, Forget, stores
<1>16. ASSUME NEW c \in Calls, Fail(c) PROVE TypeOK'
  BY <1>16, AnswerTypes DEF TypeOK, Fail, Forget, stores
<1>17. ASSUME NEW c \in Calls, Abandon(c) PROVE TypeOK'
  <2>1. [write |-> plan[c], name |-> req[c].name] \in [write : AccountWrite, name : Address]
    BY <1>17, RequestFacts, DirectoryAssumption DEF Abandon, Writing, TypeOK
  <2> QED BY <1>17, <2>1, AnswerTypes DEF TypeOK, Abandon, Forget
<1>18. CASE LateWrite
  <2>1. PICK l \in late : Commit(l.write, Calls) /\ late' = late \ {l}
    BY <1>18 DEF LateWrite
  <2>2. l.write \in AccountWrite
    BY DEF TypeOK
  <2> QED BY <1>18, <2>1, <2>2, CommitTypes DEF TypeOK, LateWrite
<1>19. CASE LateWriteLost
  BY <1>19 DEF TypeOK, LateWriteLost
<1>20. ASSUME NEW c \in Calls, NotListedForInsert(c) PROVE TypeOK'
  BY <1>20 DEF TypeOK, NotListedForInsert, Forget, stores, Locations, Plan
<1> QED BY <1>1, <1>2, <1>3, <1>4, <1>5, <1>6, <1>8, <1>9, <1>10, <1>11, <1>12, <1>13,
           <1>14, <1>15, <1>16, <1>17, <1>18, <1>19, <1>20, <1>21, <1>22, <1>23 DEF Next, Step

\* Every variable keeps its type, for any calls, requests and bounds.
THEOREM TypeCorrect == Spec => []TypeOK
<1>1. Init => TypeOK
  BY TypeInit
<1>2. TypeOK /\ [Next]_vars => TypeOK'
  BY TypeStep
<1> QED BY <1>1, <1>2, PTL DEF Spec

-----------------------------------------------------------------------------
(* Writes reach the account that was named.                                *)
(*                                                                         *)
(* A write carries an id, not an address, and is sent some time after the  *)
(* id was looked up.  It stays aimed because Stalwart never gives an id    *)
(* twice, no account changes its address or type, and an address that had  *)
(* a user when it was listed is only ever taken by a user again.           *)

Identity ==
  /\ \A a \in accounts : a.id # 0 /\ a.id < nextId
  /\ \A a, b \in accounts : (a.id = b.id \/ a.email = b.email) => a = b

\* Write w can only change the user called name.
Aimed(w, name) ==
  w.kind # "create" =>
    /\ w.id < nextId
    /\ \A a \in accounts : a.id = w.id => a.email = name /\ a.type = "User"

CallsAimed ==
  \A c \in Calls :
    plan[c] \in AccountWrite => pc[c] \in {"domains", "write"} /\ Aimed(plan[c], req[c].name)

LateAimed == \A l \in late : Aimed(l.write, l.name)

\* An account that is about to be looked up again, to be deleted, is a user.
DeletesUser ==
  \A c \in Calls :
    (pc[c] \in {"rows", "query_account"} \/ (pc[c] = "query_domain" /\ req[c].op # "create"))
      => \A a \in accounts : a.email = req[c].name => a.type = "User"

AimInv == TypeOK /\ Identity /\ CallsAimed /\ LateAimed /\ DeletesUser

\* A write that is carried out keeps every account's identity and every aim.
LEMMA CommitKeepsAim ==
  ASSUME AimInv, NEW w \in AccountWrite, NEW others \in SUBSET Calls, Commit(w, others)
  PROVE  /\ Identity'
         /\ nextId <= nextId'
         /\ \A b \in accounts' :
              \/ \E a \in accounts : a.id = b.id /\ a.type = b.type /\ a.email = b.email
              \/ b.id = nextId /\ b.type = "User"
         /\ \A v \in AccountWrite : \A name \in Address : Aimed(v, name) => Aimed(v, name)'
<1>1. /\ nextId \in Nat \ {0} /\ accounts \in SUBSET Account
      /\ Accepts(accounts, w)
      /\ accounts' = Effect(accounts, w, nextId)
      /\ nextId' = IF w.kind = "create" THEN nextId + 1 ELSE nextId
  BY DEF AimInv, TypeOK, Commit
<1>2. \A b \in accounts' :
        \/ \E a \in accounts : a.id = b.id /\ a.type = b.type /\ a.email = b.email
        \/ w.kind = "create" /\ b = NewAccount(nextId, w)
  BY <1>1, EffectFacts
<1>3. w.kind = "create" =>
        /\ NewAccount(nextId, w).id = nextId
        /\ NewAccount(nextId, w).type = "User"
        /\ NewAccount(nextId, w).email = w.email
        /\ accounts' = accounts \cup {NewAccount(nextId, w)}
        /\ \A a \in accounts : a.email # w.email
  BY <1>1, WriteKinds, NewAccountFacts DEF Effect, Accepts, NewAccount
<1>4. nextId <= nextId'
  BY <1>1
<1>5. Identity'
  <2>1. \A b \in accounts' : b.id # 0 /\ b.id < nextId'
    BY <1>1, <1>2, <1>3 DEF AimInv, Identity, Account
  <2>2. \A a, b \in accounts' : (a.id = b.id \/ a.email = b.email) => a = b
    <3>1. CASE w.kind = "create"
      BY <1>1, <1>3, <3>1 DEF AimInv, Identity
    <3>2. CASE w.kind = "destroy"
      <4>1. accounts' \subseteq accounts
        BY <1>1, <3>2 DEF Effect
      <4> QED BY <4>1 DEF AimInv, Identity
    <3>3. CASE w.kind \notin {"create", "destroy"}
      <4>1. accounts' = {IF a.id = w.id THEN Patched(a, w) ELSE a : a \in accounts}
        BY <1>1, <3>3 DEF Effect
      <4>2. w \in PatchWrite
        BY <3>3, WriteKinds
      <4>3. \A a \in accounts : Patched(a, w).id = a.id /\ Patched(a, w).email = a.email
        BY <1>1, <4>2, PatchedFacts
      <4> QED BY <4>1, <4>3 DEF AimInv, Identity
    <3> QED BY <3>1, <3>2, <3>3
  <2> QED BY <2>1, <2>2 DEF Identity
<1>6. ASSUME NEW v \in AccountWrite, NEW name \in Address, Aimed(v, name)
      PROVE  Aimed(v, name)'
  <2>1. SUFFICES ASSUME v.kind # "create"
                 PROVE  /\ v.id < nextId'
                        /\ \A b \in accounts' : b.id = v.id => b.email = name /\ b.type = "User"
    BY DEF Aimed
  <2>2. v.id \in Nat /\ v.id < nextId
    BY <1>6, <2>1, WriteKinds DEF Aimed
  <2> QED BY <1>1, <1>2, <1>3, <1>4, <1>6, <2>1, <2>2 DEF Aimed
<1> QED BY <1>2, <1>3, <1>4, <1>5, <1>6

\* Answering a call leaves no plan behind and asks nothing of the directory.
LEMMA AnswerKeepsAim ==
  ASSUME AimInv, NEW c \in Calls, NEW result, Answer(c, result), UNCHANGED accounts,
         UNCHANGED nextId
  PROVE  CallsAimed' /\ DeletesUser'
<1>1. NoPlan \notin AccountWrite
  BY WriteKinds DEF NoPlan
<1>2. \A d \in Calls : d # c => pc'[d] = pc[d] /\ req'[d] = req[d] /\ plan'[d] = plan[d]
  BY DEF Answer, AimInv, TypeOK
<1>3. pc'[c] = "idle" /\ plan'[c] = NoPlan
  BY DEF Answer, AimInv, TypeOK
<1>4. CallsAimed'
  BY <1>1, <1>2, <1>3 DEF AimInv, CallsAimed, Aimed
<1>5. DeletesUser'
  BY <1>2, <1>3 DEF AimInv, DeletesUser
<1> QED BY <1>4, <1>5

\* A call that is not idle names an address.
LEMMA ActiveName ==
  ASSUME TypeOK, NEW c \in Calls, pc[c] # "idle"
  PROVE  req[c] \in Request /\ req[c].name \in Address
  BY RequestFacts, DirectoryAssumption DEF TypeOK

LEMMA AimInit == Init => AimInv
<1> SUFFICES ASSUME Init PROVE AimInv
  OBVIOUS
<1>1. TypeOK
  BY TypeInit
<1>2. Identity
  BY DirectoryAssumption DEF Init, Identity
<1>3. NoPlan \notin AccountWrite
  BY WriteKinds DEF NoPlan
<1>4. CallsAimed
  BY <1>3 DEF Init, CallsAimed
<1>5. LateAimed /\ DeletesUser
  BY DEF Init, LateAimed, DeletesUser
<1> QED BY <1>1, <1>2, <1>4, <1>5 DEF AimInv

LEMMA AimStep == AimInv /\ [Next]_vars => AimInv'
<1> SUFFICES ASSUME AimInv, [Next]_vars
             PROVE  AimInv'
  OBVIOUS
<1> USE DEF AimInv
<1>0. TypeOK'
  BY TypeStep
<1>n. NoPlan \notin AccountWrite /\ Noop \notin AccountWrite /\ Refusal \notin AccountWrite
  BY WriteKinds DEF NoPlan, Noop, Refusal
<1>k. ASSUME UNCHANGED <<accounts, nextId>>
      PROVE  Identity' /\ \A w, name : Aimed(w, name)' <=> Aimed(w, name)
  BY <1>k DEF Identity, Aimed
<1>1. CASE UNCHANGED vars
  BY <1>0, <1>1 DEF vars, Identity, CallsAimed, Aimed, LateAimed, DeletesUser
<1>2. ASSUME NEW c \in Calls, Begin(c) PROVE AimInv'
  <2>1. UNCHANGED <<accounts, nextId, late>> /\ UNCHANGED plan /\ pc[c] = "idle"
    BY <1>2 DEF Begin, stores
  <2>2. \A d \in Calls : d # c => pc'[d] = pc[d] /\ req'[d] = req[d]
    BY <1>2 DEF Begin, TypeOK
  <2>3. plan[c] \notin AccountWrite
    BY <2>1 DEF CallsAimed
  <2>4. CallsAimed'
    BY <1>k, <2>1, <2>2, <2>3 DEF CallsAimed
  <2>5. pc'[c] \in {"query_domain", "accounts"} /\ (pc'[c] = "query_domain" => req'[c].op = "create")
    BY <1>2 DEF Begin, TypeOK
  <2>6. DeletesUser'
    BY <2>1, <2>2, <2>5 DEF DeletesUser
  <2> QED BY <1>0, <1>k, <2>1, <2>4, <2>6 DEF LateAimed
<1>3. ASSUME NEW c \in Calls, Reject(c) PROVE AimInv'
  BY <1>0, <1>3 DEF Reject, stores, Identity, CallsAimed, Aimed, LateAimed, DeletesUser
<1>4. ASSUME NEW c \in Calls, ListAccounts(c) PROVE AimInv'
  <2>1. PICK a \in FindByType(accounts, "User", req[c].name) :
          /\ found' = [found EXCEPT ![c] = a.id]
          /\ \E p \in Plans(a, req[c], accounts) : plan' = [plan EXCEPT ![c] = p]
    BY <1>4 DEF ListAccounts
  <2>2. PICK p \in Plans(a, req[c], accounts) : plan' = [plan EXCEPT ![c] = p]
    BY <2>1
  <2>3. /\ UNCHANGED <<accounts, nextId, late>> /\ UNCHANGED req
        /\ pc' = [pc EXCEPT ![c] = AfterListing(req[c])]
        /\ a \in accounts /\ a.email = req[c].name /\ a.type = "User"
        /\ req[c] \in Request
    BY <1>4, ActiveName DEF ListAccounts, stores, FindByType
  <2>4. \A b \in accounts : (b.id = a.id \/ b.email = a.email) => b = a
    BY <2>3 DEF Identity
  <2>5. p \in {NoPlan, Noop, Refusal} \/ (p \in PatchWrite /\ p.id = a.id)
    BY <2>3, PlansFacts DEF TypeOK
  <2>6. p \in AccountWrite => Aimed(p, req[c].name)
    BY <1>n, <2>3, <2>4, <2>5 DEF Aimed, Identity
  <2>7. p \in AccountWrite => AfterListing(req[c]) \in {"domains", "write"}
    <3>1. CASE req[c].op \in {"delete", "put_domains"}
      <4>1. Plans(a, req[c], accounts) = {NoPlan}
        BY <3>1 DEF Plans
      <4> QED BY <1>n, <4>1
    <3>2. CASE req[c].op \notin {"delete", "put_domains"}
      BY <3>2 DEF AfterListing
    <3> QED BY <3>1, <3>2
  <2>8. \A d \in Calls : d # c => pc'[d] = pc[d] /\ plan'[d] = plan[d]
    BY <2>2, <2>3 DEF TypeOK
  <2>9. pc'[c] = AfterListing(req[c]) /\ plan'[c] = p
    BY <2>2, <2>3 DEF TypeOK
  <2>10. CallsAimed'
    BY <1>k, <2>3, <2>6, <2>7, <2>8, <2>9 DEF CallsAimed
  <2>11. DeletesUser'
    BY <2>3, <2>4, <2>8 DEF DeletesUser
  <2> QED BY <1>0, <1>k, <2>3, <2>10, <2>11 DEF LateAimed
<1>5. ASSUME NEW c \in Calls, NEW result, Answer(c, result), UNCHANGED <<accounts, nextId, late>>
      PROVE  AimInv'
  BY <1>0, <1>k, <1>5, AnswerKeepsAim DEF LateAimed
<1>6. ASSUME NEW c \in Calls, ListDomains(c) PROVE AimInv'
  BY <1>0, <1>k, <1>6 DEF ListDomains, stores, TypeOK, CallsAimed, LateAimed, DeletesUser
<1>7. ASSUME NEW c \in Calls, WriteRows(c) \/ ClearRows(c) PROVE AimInv'
  <2>1. /\ pc[c] = "rows" /\ \E l \in {"query_domain", "commit"} : pc' = [pc EXCEPT ![c] = l]
        /\ UNCHANGED <<accounts, nextId, late, req, plan>>
    BY <1>7 DEF WriteRows, ClearRows
  <2>2. pc'[c] = "query_domain" => req[c].op = "delete"
    BY <1>7 DEF WriteRows, ClearRows, TypeOK
  <2>3. CallsAimed'
    BY <1>k, <2>1 DEF CallsAimed, TypeOK
  <2>4. DeletesUser'
    BY <2>1, <2>2 DEF DeletesUser, TypeOK
  <2> QED BY <1>0, <1>k, <2>1, <2>3, <2>4 DEF LateAimed
<1>8. ASSUME NEW c \in Calls, QueryDomain(c) PROVE AimInv'
  <2>1. /\ pc[c] = "query_domain" /\ UNCHANGED <<accounts, nextId, late, req>>
        /\ \A d \in Calls : d # c => pc'[d] = pc[d] /\ plan'[d] = plan[d]
    BY <1>8 DEF QueryDomain, stores, TypeOK
  <2>2. CASE req[c].op = "create"
    <3>1. pc'[c] = "write" /\ plan'[c].kind = "create"
      BY <1>8, <2>2 DEF QueryDomain, TypeOK
    <3>2. CallsAimed'
      BY <1>k, <2>1, <3>1 DEF CallsAimed, Aimed
    <3>3. DeletesUser'
      BY <2>1, <3>1 DEF DeletesUser
    <3> QED BY <1>0, <1>k, <2>1, <3>2, <3>3 DEF LateAimed
  <2>3. CASE req[c].op # "create"
    <3>1. pc'[c] = "query_account" /\ plan'[c] = plan[c]
      BY <1>8, <2>3 DEF QueryDomain, TypeOK
    <3>2. CallsAimed'
      BY <1>k, <2>1, <3>1 DEF CallsAimed
    <3>3. DeletesUser'
      BY <2>1, <2>3, <3>1 DEF DeletesUser
    <3> QED BY <1>0, <1>k, <2>1, <3>2, <3>3 DEF LateAimed
  <2> QED BY <2>2, <2>3
<1>9. ASSUME NEW c \in Calls, FindForDelete(c) PROVE AimInv'
  <2>1. PICK a \in QueryAccount(req[c].name) :
          plan' = [plan EXCEPT ![c] = [kind |-> "destroy", id |-> a.id]]
    BY <1>9 DEF FindForDelete
  <2>2. /\ pc[c] = "query_account" /\ pc' = [pc EXCEPT ![c] = "write"]
        /\ UNCHANGED <<accounts, nextId, late, req>>
        /\ a \in accounts /\ a.email = req[c].name
    BY <1>9 DEF FindForDelete, stores, QueryAccount
  <2>3. a.type = "User" /\ a.id < nextId
    BY <2>2 DEF DeletesUser, Identity
  <2>4. Aimed([kind |-> "destroy", id |-> a.id], req[c].name)
    BY <2>2, <2>3 DEF Aimed, Identity
  <2>5. \A d \in Calls : d # c => pc'[d] = pc[d] /\ plan'[d] = plan[d]
    BY <2>1, <2>2 DEF TypeOK
  <2>6. pc'[c] = "write" /\ plan'[c] = [kind |-> "destroy", id |-> a.id]
    BY <2>1, <2>2 DEF TypeOK
  <2>7. CallsAimed'
    BY <1>k, <2>2, <2>4, <2>5, <2>6 DEF CallsAimed
  <2>8. DeletesUser'
    BY <2>2, <2>5, <2>6 DEF DeletesUser
  <2> QED BY <1>0, <1>k, <2>2, <2>7, <2>8 DEF LateAimed
<1>10. ASSUME NEW w \in AccountWrite, NEW others \in SUBSET Calls, Commit(w, others),
              NEW S \in SUBSET Calls,
              \A d \in Calls \ S : pc'[d] = pc[d] /\ req'[d] = req[d] /\ plan'[d] = plan[d],
              \A d \in S : pc'[d] = "idle" /\ plan'[d] = NoPlan,
              late' \subseteq late
       PROVE  AimInv'
  <2>1. /\ Identity'
        /\ \A b \in accounts' :
             \/ \E a \in accounts : a.id = b.id /\ a.type = b.type /\ a.email = b.email
             \/ b.id = nextId /\ b.type = "User"
        /\ \A v \in AccountWrite : \A name \in Address : Aimed(v, name) => Aimed(v, name)'
    BY <1>10, CommitKeepsAim
  <2>5. \A v \in AccountWrite : \A name \in Address :
          Aimed(v, name) /\ v.kind # "create" =>
            /\ v.id < nextId'
            /\ \A a \in accounts' : a.id = v.id => a.email = name /\ a.type = "User"
    BY <2>1 DEF Aimed
  <2>2. CallsAimed'
    <3> SUFFICES ASSUME NEW d \in Calls, plan'[d] \in AccountWrite
                 PROVE  pc'[d] \in {"domains", "write"} /\ Aimed(plan[d], req[d].name)'
      BY DEF CallsAimed
    <3>1. d \notin S
      BY <1>n, <1>10
    <3>2. pc'[d] = pc[d] /\ req'[d] = req[d] /\ plan'[d] = plan[d]
      BY <1>10, <3>1
    <3>3. pc[d] \in {"domains", "write"} /\ Aimed(plan[d], req[d].name)
      BY <3>2 DEF CallsAimed
    <3>4. req[d].name \in Address
      BY <3>3, ActiveName
    <3> QED BY <2>5, <3>2, <3>3, <3>4 DEF Aimed
  <2>3. LateAimed'
    <3>1. \A l \in late : l.write \in AccountWrite /\ l.name \in Address
      BY DEF TypeOK
    <3> QED BY <1>10, <2>1, <3>1 DEF LateAimed
  <2>4. DeletesUser'
    BY <1>10, <2>1 DEF DeletesUser
  <2> QED BY <1>0, <2>1, <2>2, <2>3, <2>4
<1>11. ASSUME NEW c \in Calls, Write(c) PROVE AimInv'
  <2>1. /\ \A d \in Calls \ {c} : pc'[d] = pc[d] /\ req'[d] = req[d] /\ plan'[d] = plan[d]
        /\ pc'[c] = "idle" /\ plan'[c] = NoPlan
    BY <1>11 DEF Write, Answer, TypeOK
  <2> QED BY <1>10, <1>11, <2>1 DEF Write, Writing
<1>12. ASSUME NEW c \in Calls, Abandon(c) PROVE AimInv'
  <2>1. /\ UNCHANGED <<accounts, nextId>>
        /\ Answer(c, "failed")
        /\ late' = late \cup {[write |-> plan[c], name |-> req[c].name]}
        /\ plan[c] \in AccountWrite
    BY <1>12 DEF Abandon, Writing
  <2>2. LateAimed'
    BY <1>k, <2>1 DEF LateAimed, CallsAimed
  <2>3. CallsAimed' /\ DeletesUser'
    BY <2>1, AnswerKeepsAim
  <2> QED BY <1>0, <1>k, <2>1, <2>2, <2>3
<1>13. CASE LateWrite
  <2>1. PICK l \in late : Commit(l.write, Calls) /\ late' = late \ {l}
    BY <1>13 DEF LateWrite
  <2>2. l.write \in AccountWrite /\ UNCHANGED <<pc, req, plan>>
    BY <1>13 DEF TypeOK, LateWrite
  <2> DEFINE none == {d \in Calls : FALSE}
  <2>3. /\ none \in SUBSET Calls /\ Calls \in SUBSET Calls
        /\ \A d \in Calls \ none : pc'[d] = pc[d] /\ req'[d] = req[d] /\ plan'[d] = plan[d]
        /\ \A d \in none : pc'[d] = "idle" /\ plan'[d] = NoPlan
        /\ late' \subseteq late
    BY <2>1, <2>2
  <2> HIDE DEF none
  <2> QED BY <1>10, <2>1, <2>2, <2>3
<1>14. CASE LateWriteLost
  BY <1>0, <1>k, <1>14 DEF LateWriteLost, CallsAimed, LateAimed, DeletesUser
<1>15. ASSUME NEW c \in Calls,
              \/ NotListed(c) \/ LoseRowsAnswer(c) \/ GoneBeforeDelete(c)
              \/ CommitRows(c) \/ Rollback(c)
              \/ Settle(c) \/ WriteRefused(c) \/ Fail(c)
       PROVE  AimInv'
  BY <1>5, <1>15 DEF NotListed, LoseRowsAnswer, GoneBeforeDelete, CommitRows, Rollback,
                     Settle, WriteRefused, Fail, stores
<1>16. ASSUME NEW c \in Calls, NotListedForInsert(c) PROVE AimInv'
  <2>1. /\ UNCHANGED <<accounts, nextId, late, req>>
        /\ pc' = [pc EXCEPT ![c] = "domains"] /\ plan' = [plan EXCEPT ![c] = Refusal]
    BY <1>16 DEF NotListedForInsert, stores
  <2>2. \A d \in Calls : d # c => pc'[d] = pc[d] /\ plan'[d] = plan[d]
    BY <2>1 DEF TypeOK
  <2>3. pc'[c] = "domains" /\ plan'[c] \notin AccountWrite
    BY <1>n, <2>1 DEF TypeOK
  <2>4. CallsAimed' /\ DeletesUser'
    BY <1>k, <2>1, <2>2, <2>3 DEF CallsAimed, DeletesUser
  <2> QED BY <1>0, <1>k, <2>1, <2>4 DEF LateAimed
<1> QED BY <1>1, <1>2, <1>3, <1>4, <1>6, <1>7, <1>8, <1>9, <1>11, <1>12, <1>13, <1>14, <1>15, <1>16
        DEF Next, Step

\* Whatever overlaps, fails or arrives late, an account changes only when it is a
\* user and a request in progress, or given up, named its primary address.
THEOREM OnlyNamedAccountsChange == Spec => OnlyNamedChange
<1> DEFINE A == \A a \in accounts \ accounts' :
                  /\ a.type = "User"
                  /\ \/ \E c \in Calls : pc[c] = "write" /\ req[c].name = a.email
                     \/ \E l \in late : l.name = a.email
<1>1. AimInv /\ [Next]_vars => [A]_vars
  <2> SUFFICES ASSUME AimInv, Next, NEW a \in accounts, a \notin accounts'
               PROVE  /\ a.type = "User"
                      /\ \/ \E c \in Calls : pc[c] = "write" /\ req[c].name = a.email
                         \/ \E l \in late : l.name = a.email
    OBVIOUS
  <2>1. ASSUME NEW w \in AccountWrite, NEW others, Commit(w, others), NEW name, Aimed(w, name)
        PROVE  a.type = "User" /\ a.email = name
    <3>1. w.kind # "create" /\ a.id = w.id
      BY <2>1, EffectFacts DEF AimInv, TypeOK, Commit
    <3> QED BY <2>1, <3>1 DEF Aimed
  <2>2. ASSUME NEW c \in Calls, Write(c) PROVE a.type = "User" /\ pc[c] = "write" /\ req[c].name = a.email
    BY <2>1, <2>2 DEF Write, Writing, AimInv, CallsAimed
  <2>3. ASSUME LateWrite PROVE a.type = "User" /\ \E l \in late : l.name = a.email
    BY <2>1, <2>3 DEF LateWrite, AimInv, LateAimed, TypeOK
  <2>4. ASSUME NEW c \in Calls, Write(c) \/ ~ UNCHANGED accounts, Begin(c) \/ Reject(c) \/ Step(c)
        PROVE  Write(c)
    BY <2>4 DEF Begin, Reject, Step, ListAccounts, NotListed, NotListedForInsert, ListDomains, WriteRows,
                LoseRowsAnswer, ClearRows, CommitRows, Rollback, QueryDomain, FindForDelete, GoneBeforeDelete, Settle,
                WriteRefused, Fail, Abandon, stores
  <2> QED BY <2>2, <2>3, <2>4 DEF Next, LateWriteLost
<1>2. Spec => []AimInv
  BY AimInit, AimStep, PTL DEF Spec
<1> QED BY <1>1, <1>2, PTL DEF Spec, OnlyNamedChange
=============================================================================
