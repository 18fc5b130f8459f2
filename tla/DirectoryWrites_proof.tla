----------------------- MODULE DirectoryWrites_proof -----------------------
(***************************************************************************)
(* More proofs about Directory, for every set of calls, requests, accounts *)
(* and bounds: what a request decided on its listing is still right when   *)
(* it writes, unless somebody wrote to the account in between; a password  *)
(* change costs no other credential; rights belong to users; and a success *)
(* answer is true.                                                         *)
(***************************************************************************)
EXTENDS Directory_proof

-----------------------------------------------------------------------------
(* What a step does to the calls.                                          *)

\* Call d is where it was, as far as its decision goes.
Kept(d) == plan'[d] = plan[d] /\ req'[d] = req[d] /\ found'[d] = found[d]

\* Call d has no write in hand.
Blank(d) == plan'[d] \notin AccountWrite

\* Call c looks its account up and decides.
Decides(c) ==
  /\ pc[c] = "accounts" /\ req[c] \in Requests
  /\ \E a \in FindByType(accounts, "User", req[c].name) :
       /\ found'[c] = a.id
       /\ plan'[c] \in Plans(a, req[c], accounts)
  /\ req'[c] = req[c] /\ touched'[c] = {}

\* Call c is about to create or delete an account.
Replaces(c) ==
  /\ req'[c] = req[c]
  /\ \/ /\ req[c].op = "create" /\ req[c].name.domain \in Hosted
        /\ plan'[c] = [kind |-> "create", email |-> req[c].name, quota |-> req[c].quota]
     \/ /\ pc[c] = "query_account"
        /\ \E a \in QueryAccount(req[c].name) : plan'[c] = [kind |-> "destroy", id |-> a.id]

\* A step that leaves the directory alone.
Quiet ==
  /\ UNCHANGED <<accounts, nextId>>
  /\ \/ /\ late' \subseteq late
        /\ \A d \in Calls : Blank(d) \/ (Kept(d) /\ touched'[d] = touched[d])
     \/ \E c \in Calls :
          /\ plan[c] \in AccountWrite /\ Blank(c)
          /\ late' = late \cup {[write |-> plan[c], name |-> req[c].name]}
          /\ \A d \in Calls \ {c} : Kept(d) /\ touched'[d] = touched[d]

\* A step in which call c takes a write in hand.
Takes(c) ==
  /\ UNCHANGED <<accounts, nextId, late>>
  /\ Decides(c) \/ Replaces(c)
  /\ \A d \in Calls \ {c} : Kept(d) /\ touched'[d] = touched[d]

\* Stalwart carries out write w, news to the others.
Carries(w, others) ==
  /\ w \in AccountWrite /\ others \subseteq Calls /\ Commit(w, others)
  /\ late' \subseteq late
  /\ \A d \in Calls : Kept(d) \/ Blank(d)
  /\ \A d \in Calls \ others : Blank(d)

LEMMA CallSteps ==
  ASSUME AimInv, [Next]_vars
  PROVE  \/ Quiet
         \/ \E c \in Calls : Takes(c)
         \/ \E c \in Calls : plan[c] \in AccountWrite /\ Carries(plan[c], Calls \ {c})
         \/ \E l \in late : Carries(l.write, Calls)
<1> USE DEF AimInv
<1>n. NoPlan \notin AccountWrite /\ Noop \notin AccountWrite /\ Refusal \notin AccountWrite
  BY WriteKinds DEF NoPlan, Noop, Refusal
<1>a. ASSUME NEW c \in Calls, NEW result, Answer(c, result)
      PROVE  Blank(c) /\ \A d \in Calls \ {c} : Kept(d)
  BY <1>n, <1>a DEF Answer, TypeOK, Blank, Kept
<1>f. ASSUME NEW c \in Calls, Forget(c)
      PROVE  \A d \in Calls \ {c} : touched'[d] = touched[d]
  BY <1>f DEF Forget, TypeOK
<1>1. CASE UNCHANGED vars
  BY <1>1 DEF vars, Quiet, Kept
<1>2. ASSUME NEW c \in Calls, Begin(c) PROVE Quiet
  <2>1. plan[c] \notin AccountWrite
    BY <1>2 DEF Begin, CallsAimed
  <2>2. /\ UNCHANGED <<accounts, nextId, late, plan, found, touched>>
        /\ \A d \in Calls \ {c} : req'[d] = req[d]
    BY <1>2 DEF Begin, TypeOK, stores
  <2> QED BY <2>1, <2>2 DEF Quiet, Blank, Kept
<1>3. ASSUME NEW c \in Calls, Reject(c) PROVE Quiet
  BY <1>3 DEF Reject, Quiet, Kept, stores
<1>4. ASSUME NEW c \in Calls, ListAccounts(c) PROVE Takes(c)
  <2>1. PICK a \in FindByType(accounts, "User", req[c].name) :
          /\ found' = [found EXCEPT ![c] = a.id]
          /\ \E p \in Plans(a, req[c], accounts) : plan' = [plan EXCEPT ![c] = p]
    BY <1>4 DEF ListAccounts
  <2>2. PICK p \in Plans(a, req[c], accounts) : plan' = [plan EXCEPT ![c] = p]
    BY <2>1
  <2>3. /\ pc[c] = "accounts" /\ req[c] \in Requests /\ UNCHANGED <<accounts, nextId, late, req>>
        /\ touched' = [touched EXCEPT ![c] = {}]
    BY <1>4 DEF ListAccounts, TypeOK, stores, Forget
  <2>4. found'[c] = a.id /\ plan'[c] = p /\ touched'[c] = {}
    BY <2>1, <2>2, <2>3 DEF TypeOK
  <2>5. Decides(c)
    BY <2>3, <2>4 DEF Decides
  <2>6. \A d \in Calls \ {c} : Kept(d) /\ touched'[d] = touched[d]
    BY <2>1, <2>2, <2>3 DEF TypeOK, Kept
  <2> QED BY <2>3, <2>5, <2>6 DEF Takes
<1>5. ASSUME NEW c \in Calls, NotListed(c) \/ GoneBeforeDelete(c) \/ Settle(c) \/ WriteRefused(c)
                              \/ Fail(c) \/ LoseRowsAnswer(c) \/ CommitRows(c) \/ Rollback(c)
      PROVE  Quiet
  <2>1. /\ \E result : Answer(c, result)
        /\ Forget(c) /\ UNCHANGED <<accounts, nextId, late>>
    BY <1>5 DEF NotListed, GoneBeforeDelete, Settle, WriteRefused, Fail, LoseRowsAnswer,
                CommitRows, Rollback, stores
  <2> QED BY <1>a, <1>f, <2>1 DEF Quiet
<1>6. ASSUME NEW c \in Calls, NotListedForInsert(c) PROVE Quiet
  <2>1. Blank(c) /\ \A d \in Calls \ {c} : Kept(d)
    BY <1>n, <1>6 DEF NotListedForInsert, TypeOK, Blank, Kept
  <2> QED BY <1>f, <1>6, <2>1 DEF NotListedForInsert, Quiet, stores
<1>7. ASSUME NEW c \in Calls, ListDomains(c) \/ WriteRows(c) \/ ClearRows(c) PROVE Quiet
  BY <1>7 DEF ListDomains, WriteRows, ClearRows, Quiet, Kept, stores
<1>8. ASSUME NEW c \in Calls, QueryDomain(c) PROVE Quiet \/ Takes(c)
  <2>1. CASE req[c].op = "create"
    <3>1. Replaces(c)
      BY <1>8, <2>1 DEF QueryDomain, Replaces, TypeOK
    <3>2. \A d \in Calls \ {c} : Kept(d) /\ touched'[d] = touched[d]
      BY <1>8, <2>1 DEF QueryDomain, Kept, TypeOK
    <3> QED BY <1>8, <3>1, <3>2 DEF QueryDomain, Takes, stores
  <2>2. CASE req[c].op # "create"
    BY <1>8, <2>2 DEF QueryDomain, Quiet, Kept, stores
  <2> QED BY <2>1, <2>2
<1>9. ASSUME NEW c \in Calls, FindForDelete(c) PROVE Takes(c)
  <2>1. PICK a \in QueryAccount(req[c].name) :
          plan' = [plan EXCEPT ![c] = [kind |-> "destroy", id |-> a.id]]
    BY <1>9 DEF FindForDelete
  <2>2. Replaces(c)
    BY <1>9, <2>1 DEF FindForDelete, Replaces, TypeOK
  <2>3. \A d \in Calls \ {c} : Kept(d) /\ touched'[d] = touched[d]
    BY <1>9, <2>1 DEF FindForDelete, Kept, TypeOK
  <2> QED BY <1>9, <2>2, <2>3 DEF FindForDelete, Takes, stores
<1>10. ASSUME NEW c \in Calls, Write(c)
       PROVE  plan[c] \in AccountWrite /\ Carries(plan[c], Calls \ {c})
  <2>1. Blank(c) /\ \A d \in Calls \ {c} : Kept(d)
    BY <1>a, <1>10 DEF Write
  <2> QED BY <1>10, <2>1 DEF Write, Writing, Carries
<1>11. ASSUME NEW c \in Calls, Abandon(c) PROVE Quiet
  <2>1. Blank(c) /\ \A d \in Calls \ {c} : Kept(d)
    BY <1>a, <1>11 DEF Abandon
  <2> QED BY <1>f, <1>11, <2>1 DEF Abandon, Writing, Quiet
<1>12. ASSUME LateWrite PROVE \E l \in late : Carries(l.write, Calls)
  <2>1. PICK l \in late : Commit(l.write, Calls) /\ late' = late \ {l}
    BY <1>12 DEF LateWrite
  <2>2. l.write \in AccountWrite /\ \A d \in Calls : Kept(d)
    BY <1>12 DEF TypeOK, LateWrite, Kept
  <2> QED BY <2>1, <2>2 DEF Carries
<1>13. ASSUME LateWriteLost PROVE Quiet
  BY <1>13 DEF LateWriteLost, Quiet, Kept
<1> QED BY <1>1, <1>2, <1>3, <1>4, <1>5, <1>6, <1>7, <1>8, <1>9, <1>10, <1>11, <1>12, <1>13
        DEF Next, Step

-----------------------------------------------------------------------------
(* Decisions stay right for accounts that nobody writes to.                *)
(*                                                                         *)
(* The three invariants say the same of three decisions.  They are         *)
(* inductive with one addition: a call with such a decision has found the  *)
(* account it is about, so that what others write to it is news to it.     *)

Decided ==
  \A c \in Calls :
    plan[c].kind \in {"alias", "unalias"} => found[c] # 0 /\ plan[c].id = found[c]

DecisionInv == AimInv /\ Decided /\ InsertFits /\ RemoveFits /\ AddressClear

\* What is not as it was after a write has the id that was written to.
LEMMA ChangedIsWritten ==
  ASSUME NEW accts \in SUBSET Account, NEW w \in AccountWrite, NEW id \in Nat,
         NEW b \in Effect(accts, w, id), b \notin accts
  PROVE  b.id = IF w.kind = "create" THEN id ELSE w.id
<1>1. CASE w \in CreateWrite /\ w.kind = "create"
  BY <1>1, NewAccountFacts DEF Effect
<1>2. CASE w.kind = "destroy"
  BY <1>2 DEF Effect
<1>3. CASE w \in PatchWrite /\ w.kind \notin {"create", "destroy"}
  <2>1. PICK a \in accts : b = IF a.id = w.id THEN Patched(a, w) ELSE a
    BY <1>3 DEF Effect
  <2> QED BY <1>3, <2>1, PatchedFacts
<1> QED BY <1>1, <1>2, <1>3, WriteKinds

\* A call that has found its account hears of every account that changes.
LEMMA NewsReaches ==
  ASSUME AimInv, NEW w, NEW others, Carries(w, others), NEW d \in others, found[d] # 0
  PROVE  /\ touched[d] \subseteq touched'[d]
         /\ \A b \in accounts' : b \in accounts \/ b.id \in touched'[d]
<1>1. /\ w \in AccountWrite /\ others \subseteq Calls
      /\ accounts' = Effect(accounts, w, nextId)
      /\ touched' = [e \in Calls |->
                       IF e \notin others THEN {}
                       ELSE IF found[e] = 0 THEN touched[e]
                       ELSE touched[e] \cup {IF w.kind = "create" THEN nextId ELSE w.id}]
  BY DEF Carries, Commit
<1>2. touched'[d] = touched[d] \cup {IF w.kind = "create" THEN nextId ELSE w.id}
  BY <1>1
<1>3. accounts \in SUBSET Account /\ nextId \in Nat
  BY DEF AimInv, TypeOK
<1>4. \A b \in accounts' : b \in accounts \/ b.id = IF w.kind = "create" THEN nextId ELSE w.id
  BY <1>1, <1>3, ChangedIsWritten
<1> QED BY <1>2, <1>4

\* A call without a write has no decision that could go wrong.
LEMMA BlankDecidesNothing ==
  ASSUME TypeOK', NEW d \in Calls, Blank(d)
  PROVE  plan'[d].kind \notin {"alias", "unalias"}
<1>1. plan'[d] \in {NoPlan, Noop, Refusal}
  BY DEF TypeOK, Plan, Blank
<1> QED BY <1>1 DEF NoPlan, Noop, Refusal

\* The decision is right when it is taken.
LEMMA DecidesRight ==
  ASSUME AimInv, NEW c \in Calls, Decides(c), UNCHANGED accounts
  PROVE  /\ plan'[c].kind \in {"alias", "unalias"} => found'[c] # 0 /\ plan'[c].id = found'[c]
         /\ plan'[c].kind = "alias" =>
              /\ \A b \in accounts : b.id = plan'[c].id => plan'[c].key \notin KeysOf(b.aliases)
              /\ \A b \in accounts :
                   plan'[c].addr # b.email /\ plan'[c].addr \notin {al.addr : al \in b.aliases}
         /\ plan'[c].kind = "unalias" =>
              \A b \in accounts : b.id = plan'[c].id =>
                [key |-> plan'[c].key, addr |-> req[c].addr] \in b.aliases
<1> DEFINE r == req[c]
           p == plan'[c]
<1>1. PICK a \in FindByType(accounts, "User", r.name) :
        found'[c] = a.id /\ p \in Plans(a, r, accounts)
  BY DEF Decides
<1>2. a \in accounts /\ a.id # 0 /\ (\A b \in accounts : b.id = a.id => b = a)
  BY <1>1 DEF FindByType, AimInv, Identity
<1>3. r \in Request /\ accounts \in SUBSET Account
  BY DirectoryAssumption DEF Decides, AimInv, TypeOK
<1>4. \A b \in accounts : b.aliases \subseteq Alias
  BY <1>3 DEF Account
<1>5. p \in {NoPlan, Noop, Refusal} \/ (p \in PatchWrite /\ p.id = a.id)
  BY <1>1, <1>2, <1>3, PlansFacts
<1>6. p.kind \in {"alias", "unalias"} => p.id = a.id
  BY <1>5 DEF NoPlan, Noop, Refusal
<1>7. CASE r.op = "insert"
  <2>1. p \in InsertPlans(a, r, accounts)
    BY <1>1, <1>7 DEF Plans
  <2>2. CASE p = Refusal
    BY <2>2 DEF Refusal
  <2>3. CASE p # Refusal
    <3>1. /\ p.kind = "alias" /\ p.addr = r.addr /\ r.addr.domain \in Hosted
          /\ Owners(accounts, r.addr) = {} /\ p.key \in NextListKey(KeysOf(a.aliases))
      BY <2>1, <2>3 DEF InsertPlans
    <3>2. p.key \notin KeysOf(a.aliases)
      <4>1. KeysOf(a.aliases) \subseteq Nat
        BY <1>2, <1>4 DEF KeysOf, Alias
      <4> QED BY <3>1, <4>1 DEF NextListKey
    <3>3. ASSUME NEW b \in accounts
          PROVE  r.addr # b.email /\ r.addr \notin {al.addr : al \in b.aliases}
      BY <3>1, <3>3 DEF Owners, VisibleAliases
    <3> QED BY <1>2, <1>6, <1>1, <3>1, <3>2, <3>3
  <2> QED BY <2>2, <2>3
<1>8. CASE r.op = "remove"
  <2>1. p \in RemovePlans(a, r)
    BY <1>1, <1>8 DEF Plans
  <2>2. CASE p \in {Refusal, Noop}
    BY <2>2 DEF Refusal, Noop
  <2>3. CASE p \notin {Refusal, Noop}
    <3>1. PICK al \in a.aliases :
            al.addr = r.addr /\ p = [kind |-> "unalias", id |-> a.id, key |-> al.key]
      BY <2>1, <2>3 DEF RemovePlans, VisibleAliases
    <3>2. al = [key |-> al.key, addr |-> al.addr]
      BY <1>2, <1>4 DEF Alias
    <3>3. p.kind = "unalias" /\ p.key = al.key /\ p.id = a.id
      BY <3>1
    <3>4. [key |-> p.key, addr |-> r.addr] \in a.aliases
      BY <3>1, <3>2, <3>3
    <3>5. \A b \in accounts : b.id = p.id => [key |-> p.key, addr |-> r.addr] \in b.aliases
      <4> HIDE DEF p
      <4> QED BY <1>2, <3>3, <3>4
    <3> QED BY <1>1, <1>2, <3>3, <3>5
  <2> QED BY <2>2, <2>3
<1>9. CASE r.op \notin {"insert", "remove"}
  <2>1. p.kind \notin {"alias", "unalias"}
    BY <1>1, <1>9 DEF Plans, PasswordPlans, UpdatePlans, AddGroupPlans, RemoveGroupPlans,
                      NoPlan, Noop, Refusal
  <2> QED BY <2>1
<1> QED BY <1>7, <1>8, <1>9

LEMMA ReplacesKind ==
  ASSUME NEW c \in Calls, Replaces(c)
  PROVE  plan'[c].kind \in {"create", "destroy"}
<1>1. CASE plan'[c] = [kind |-> "create", email |-> req[c].name, quota |-> req[c].quota]
  BY <1>1
<1>2. CASE \E a \in QueryAccount(req[c].name) : plan'[c] = [kind |-> "destroy", id |-> a.id]
  BY <1>2
<1> QED BY <1>1, <1>2 DEF Replaces

LEMMA DecisionStep == DecisionInv /\ [Next]_vars => DecisionInv'
<1> SUFFICES ASSUME DecisionInv, [Next]_vars
             PROVE  DecisionInv'
  OBVIOUS
<1> USE DEF DecisionInv
<1>1. AimInv' /\ TypeOK'
  BY AimStep DEF AimInv
\* What is right of a decision, in one formula.
<1> DEFINE Right(pl, r, f, t, accts) ==
      /\ pl.kind \in {"alias", "unalias"} => f # 0 /\ pl.id = f
      /\ (pl.kind = "alias" /\ pl.id \notin t) =>
           \A a \in accts : a.id = pl.id => pl.key \notin KeysOf(a.aliases)
      /\ (pl.kind = "unalias" /\ pl.id \notin t) =>
           \A a \in accts : a.id = pl.id => [key |-> pl.key, addr |-> r.addr] \in a.aliases
      /\ pl.kind = "alias" =>
           \A a \in accts :
             (pl.addr = a.email \/ pl.addr \in {al.addr : al \in a.aliases}) => a.id \in t
<1>2. \A d \in Calls : Right(plan[d], req[d], found[d], touched[d], accounts)
  BY DEF Decided, InsertFits, RemoveFits, AddressClear
<1>3. ASSUME \A d \in Calls : Right(plan'[d], req'[d], found'[d], touched'[d], accounts')
      PROVE  DecisionInv'
  BY <1>1, <1>3 DEF Decided, InsertFits, RemoveFits, AddressClear
<1>4. ASSUME NEW d \in Calls, Blank(d)
      PROVE  Right(plan'[d], req'[d], found'[d], touched'[d], accounts')
  BY <1>1, <1>4, BlankDecidesNothing
<1>5. CASE Quiet
  <2>1. \A d \in Calls : Blank(d) \/ (Kept(d) /\ touched'[d] = touched[d])
    BY <1>5 DEF Quiet
  <2>2. accounts' = accounts
    BY <1>5 DEF Quiet
  <2> HIDE DEF Right
  <2> QED BY <1>2, <1>3, <1>4, <2>1, <2>2 DEF Kept
<1>6. ASSUME NEW c \in Calls, Takes(c) PROVE DecisionInv'
  <2>1. accounts' = accounts /\ \A d \in Calls \ {c} : Kept(d) /\ touched'[d] = touched[d]
    BY <1>6 DEF Takes
  <2>2. Right(plan'[c], req'[c], found'[c], touched'[c], accounts')
    <3>1. CASE Decides(c)
      <4>1. req'[c] = req[c]
        BY <3>1 DEF Decides
      <4>2. AimInv /\ UNCHANGED accounts
        BY <2>1
      <4>3. /\ plan'[c].kind \in {"alias", "unalias"} => found'[c] # 0 /\ plan'[c].id = found'[c]
            /\ plan'[c].kind = "alias" =>
                 /\ \A b \in accounts : b.id = plan'[c].id => plan'[c].key \notin KeysOf(b.aliases)
                 /\ \A b \in accounts :
                      plan'[c].addr # b.email /\ plan'[c].addr \notin {al.addr : al \in b.aliases}
            /\ plan'[c].kind = "unalias" =>
                 \A b \in accounts : b.id = plan'[c].id =>
                   [key |-> plan'[c].key, addr |-> req[c].addr] \in b.aliases
        BY <3>1, <4>2, DecidesRight
      <4> QED BY <2>1, <4>1, <4>3
    <3>2. CASE Replaces(c)
      <4>1. plan'[c].kind = "create" \/ plan'[c].kind = "destroy"
        BY <3>2, ReplacesKind
      <4> QED BY <4>1
    <3> QED BY <1>6, <3>1, <3>2 DEF Takes
  <2> HIDE DEF Right
  <2> QED BY <1>2, <1>3, <2>1, <2>2 DEF Kept
<1>7. ASSUME NEW w, NEW others, Carries(w, others) PROVE DecisionInv'
  <2>1. ASSUME NEW d \in Calls
        PROVE  Right(plan'[d], req'[d], found'[d], touched'[d], accounts')
    <3>1. CASE Blank(d)
      BY <1>4, <3>1
    <3>2. CASE ~ Blank(d) /\ plan[d].kind \notin {"alias", "unalias"}
      BY <1>7, <3>2 DEF Carries, Kept
    <3>3. CASE ~ Blank(d) /\ plan[d].kind \in {"alias", "unalias"}
      <4>1. Kept(d) /\ d \in others /\ found[d] # 0
        BY <1>2, <1>7, <3>3 DEF Carries
      <4>2. /\ touched[d] \subseteq touched'[d]
            /\ \A b \in accounts' : b \in accounts \/ b.id \in touched'[d]
        BY <1>7, <4>1, NewsReaches
      <4> QED BY <1>2, <4>1, <4>2 DEF Kept
    <3> QED BY <3>1, <3>2, <3>3
  <2> HIDE DEF Right
  <2> QED BY <1>3, <2>1
<1> HIDE DEF DecisionInv
<1>8. AimInv
  BY DEF DecisionInv
<1> QED BY <1>5, <1>6, <1>7, <1>8, CallSteps

LEMMA DecisionInit == Init => DecisionInv
<1> SUFFICES ASSUME Init PROVE DecisionInv
  OBVIOUS
<1>1. \A c \in Calls : plan[c].kind = "none"
  BY DEF Init, NoPlan
<1> QED BY <1>1, AimInit DEF DecisionInv, Decided, InsertFits, RemoveFits, AddressClear

\* The key InsertEmail chose is free in the account's alias list, however old the
\* listing is, as long as nobody else has written to that account.
THEOREM InsertedKeyFree == Spec => []InsertFits
<1>1. DecisionInv => InsertFits
  BY DEF DecisionInv
<1> QED BY <1>1, DecisionInit, DecisionStep, PTL DEF Spec

\* The key DeleteEmail is about to clear holds the address it was asked to remove,
\* as long as nobody else has written to that account.
THEOREM RemovedKeyHolds == Spec => []RemoveFits
<1>1. DecisionInv => RemoveFits
  BY DEF DecisionInv
<1> QED BY <1>1, DecisionInit, DecisionStep, PTL DEF Spec

\* addressInUse misses nobody: whoever has the address InsertEmail is about to
\* add, as a user's or group's address or as an alias, was written to since.
THEOREM InsertedAddressClear == Spec => []AddressClear
<1>1. DecisionInv => AddressClear
  BY DEF DecisionInv
<1> QED BY <1>1, DecisionInit, DecisionStep, PTL DEF Spec

-----------------------------------------------------------------------------
(* Passwords and API keys.                                                 *)
(*                                                                         *)
(* A password change that found no Password adds one under the next key.   *)
(* That is safe although others write in between: until the account has a  *)
(* Password its credentials do not change at all, and then the write that  *)
(* comes too late replaces that very Password.                             *)

\* Write w is decided and not carried out: a call has it in hand, or has given
\* it up and it may still arrive.
Waiting(w) == (\E c \in Calls : plan[c] = w) \/ (\E l \in late : l.write = w)

\* No two entries of a list have the same key.
Keyed(list) == \A x, y \in list : x.key = y.key => x = y

HasPassword(a) == \E cr \in a.creds : cr.type = "Password"

\* The new credential in write w suits account a: it replaces a Password, or
\* becomes the only one without replacing anything.
Suits(w, a) ==
  \/ [key |-> w.key, type |-> "Password"] \in a.creds
  \/ w.key \in NextListKey(KeysOf(a.creds)) /\ ~ HasPassword(a)

CredentialsFit ==
  \A w \in CredentialWrite : Waiting(w) => \A a \in accounts : a.id = w.id => Suits(w, a)

\* What a step does to the directory and to the writes that wait.
LEMMA WaitingSteps ==
  ASSUME AimInv, [Next]_vars
  PROVE  \/ /\ UNCHANGED accounts
            /\ \A w \in AccountWrite : Waiting(w)' =>
                 \/ Waiting(w)
                 \/ \E c \in Calls : (Decides(c) \/ Replaces(c)) /\ plan'[c] = w
         \/ \E v \in AccountWrite :
              /\ Waiting(v) /\ Accepts(accounts, v)
              /\ accounts' = Effect(accounts, v, nextId)
              /\ \A w \in AccountWrite : Waiting(w)' => Waiting(w)
<1>1. CASE Quiet
  <2>1. \A w \in AccountWrite : Waiting(w)' => Waiting(w)
    BY <1>1 DEF Quiet, Blank, Kept, Waiting
  <2> QED BY <1>1, <2>1 DEF Quiet
<1>2. ASSUME NEW c \in Calls, Takes(c)
      PROVE  /\ UNCHANGED accounts
             /\ \A w \in AccountWrite : Waiting(w)' =>
                  \/ Waiting(w)
                  \/ \E d \in Calls : (Decides(d) \/ Replaces(d)) /\ plan'[d] = w
  BY <1>2 DEF Takes, Kept, Waiting
<1>3. ASSUME NEW v \in AccountWrite, NEW others, Carries(v, others), Waiting(v)
      PROVE  /\ Waiting(v) /\ Accepts(accounts, v)
             /\ accounts' = Effect(accounts, v, nextId)
             /\ \A w \in AccountWrite : Waiting(w)' => Waiting(w)
  <2>1. Accepts(accounts, v) /\ accounts' = Effect(accounts, v, nextId)
    BY <1>3 DEF Carries, Commit
  <2>2. \A w \in AccountWrite : Waiting(w)' => Waiting(w)
    BY <1>3 DEF Carries, Blank, Kept, Waiting
  <2> QED BY <1>3, <2>1, <2>2
<1>4. ASSUME NEW c \in Calls, plan[c] \in AccountWrite PROVE Waiting(plan[c])
  BY <1>4 DEF Waiting
<1>5. ASSUME NEW l \in late PROVE l.write \in AccountWrite /\ Waiting(l.write)
  BY <1>5 DEF AimInv, TypeOK, Waiting
<1> QED BY <1>1, <1>2, <1>3, <1>4, <1>5, CallSteps

\* A waiting patch or destroy is for no account that is still to be created.
LEMMA WaitingIsOld ==
  ASSUME AimInv, NEW w \in AccountWrite, Waiting(w), w.kind # "create"
  PROVE  w.id < nextId
<1>1. CASE \E c \in Calls : plan[c] = w
  BY <1>1 DEF AimInv, CallsAimed, Aimed
<1>2. CASE \E l \in late : l.write = w
  BY <1>2 DEF AimInv, LateAimed, Aimed
<1> QED BY <1>1, <1>2 DEF Waiting

\* There is one next key.
LEMMA NextKeyIsOne ==
  ASSUME NEW keys \in SUBSET Nat, NEW m \in NextListKey(keys), NEW n \in NextListKey(keys)
  PROVE  m = n
<1>1. ASSUME NEW i \in NextListKey(keys), NEW j \in NextListKey(keys) PROVE ~ (i < j)
  <2>1. i \in Nat /\ j \in Nat /\ (\A k \in keys : k < i)
    BY <1>1 DEF NextListKey
  <2>2. j = 0 \/ \E k \in keys : j = k + 1
    BY <1>1 DEF NextListKey
  <2> QED BY <2>1, <2>2
<1>2. m \in Nat /\ n \in Nat
  BY DEF NextListKey
<1> QED BY <1>1, <1>2

\* What becomes of an account that is there after a write: it is new, or it was
\* there, and a patch for it changed it.
LEMMA EffectOrigin ==
  ASSUME NEW accts \in SUBSET Account, NEW v \in AccountWrite, NEW id \in Nat,
         NEW b \in Effect(accts, v, id)
  PROVE  \/ v \in CreateWrite /\ v.kind = "create" /\ b = NewAccount(id, v)
         \/ b \in accts
         \/ v \in PatchWrite /\ \E a \in accts : a.id = v.id /\ b = Patched(a, v)
<1>1. CASE v \in CreateWrite /\ v.kind = "create"
  BY <1>1 DEF Effect
<1>2. CASE v.kind = "destroy"
  BY <1>2 DEF Effect
<1>3. CASE v \in PatchWrite /\ v.kind \notin {"create", "destroy"}
  BY <1>3 DEF Effect
<1> QED BY <1>1, <1>2, <1>3, WriteKinds

\* Of all patches only a new credential changes the credentials.
LEMMA PatchedCreds ==
  ASSUME NEW a \in Account, NEW v \in PatchWrite
  PROVE  \/ Patched(a, v).creds = a.creds
         \/ /\ v \in CredentialWrite
            /\ Patched(a, v).creds = PutEntry(a.creds, [key |-> v.key, type |-> "Password"])
<1> USE DEF Account
<1>1. CASE v \in AliasWrite \cup UnaliasWrite \cup MemberWrite \cup ProfileWrite \cup SecretWrite
  BY <1>1 DEF AliasWrite, UnaliasWrite, MemberWrite, ProfileWrite, SecretWrite, Patched
<1>2. CASE v \in CredentialWrite
  BY <1>2 DEF CredentialWrite, Patched
<1> QED BY <1>1, <1>2 DEF PatchWrite

\* A credential that suits an account still suits it when another that suits it
\* has been written.
LEMMA SuitsAfter ==
  ASSUME NEW a \in Account, NEW w \in CredentialWrite, NEW v \in CredentialWrite,
         Suits(w, a), Suits(v, a), NEW b,
         b.creds = PutEntry(a.creds, [key |-> v.key, type |-> "Password"])
  PROVE  Suits(w, b)
<1>1. w.key \in Nat /\ v.key \in Nat /\ KeysOf(a.creds) \subseteq Nat
  BY DEF CredentialWrite, Account, Credential, KeysOf
<1>2. [key |-> v.key, type |-> "Password"] \in b.creds
  BY DEF PutEntry
<1>3. CASE [key |-> w.key, type |-> "Password"] \in a.creds
  <2>1. CASE w.key = v.key
    BY <1>2, <2>1 DEF Suits
  <2>2. CASE w.key # v.key
    BY <1>3, <2>2 DEF Suits, PutEntry
  <2> QED BY <2>1, <2>2
<1>4. CASE w.key \in NextListKey(KeysOf(a.creds)) /\ ~ HasPassword(a)
  <2>1. v.key \in NextListKey(KeysOf(a.creds))
    BY <1>4 DEF Suits, HasPassword
  <2>2. w.key = v.key
    BY <1>1, <1>4, <2>1, NextKeyIsOne
  <2> QED BY <1>2, <2>2 DEF Suits
<1> QED BY <1>3, <1>4 DEF Suits

\* The credential that a password change decides on suits the account listed.
LEMMA DecidedSuits ==
  ASSUME AimInv, NEW c \in Calls, Decides(c), plan'[c] \in CredentialWrite
  PROVE  \A a \in accounts : a.id = plan'[c].id => Suits(plan'[c], a)
<1> DEFINE r == req[c]
           w == plan'[c]
<1>1. PICK a \in FindByType(accounts, "User", r.name) : w \in Plans(a, r, accounts)
  BY DEF Decides
<1>2. a \in accounts /\ (\A b \in accounts : b.id = a.id => b = a)
  BY <1>1 DEF FindByType, AimInv, Identity
<1>3. w.kind = "credential"
  BY DEF CredentialWrite
<1>4. r.op = "password"
  <2> SUFFICES ASSUME r.op # "password" PROVE FALSE
    OBVIOUS
  <2>1. CASE r.op = "insert"
    BY <1>1, <1>3, <2>1 DEF Plans, InsertPlans, Refusal
  <2>2. CASE r.op = "remove"
    BY <1>1, <1>3, <2>2 DEF Plans, RemovePlans, Refusal, Noop
  <2>3. CASE r.op = "update"
    BY <1>1, <1>3, <2>3 DEF Plans, UpdatePlans, Noop
  <2>4. CASE r.op = "add_group"
    BY <1>1, <1>3, <2>4 DEF Plans, AddGroupPlans, Refusal, Noop
  <2>5. CASE r.op = "remove_group"
    BY <1>1, <1>3, <2>5 DEF Plans, RemoveGroupPlans, Refusal
  <2>6. CASE r.op \notin {"insert", "remove", "password", "update", "add_group", "remove_group"}
    BY <1>1, <1>3, <2>6 DEF Plans, NoPlan
  <2> QED BY <2>1, <2>2, <2>3, <2>4, <2>5, <2>6
<1>5. w \in PasswordPlans(a)
  BY <1>1, <1>4 DEF Plans
<1>6. /\ \A cr \in a.creds : cr.type # "Password"
      /\ w \in {[kind |-> "credential", id |-> a.id, key |-> key] :
                   key \in NextListKey(KeysOf(a.creds))}
  BY <1>3, <1>5 DEF PasswordPlans
<1>7. w.id = a.id /\ w.key \in NextListKey(KeysOf(a.creds))
  BY <1>6
<1>8. Suits(w, a)
  BY <1>6, <1>7 DEF Suits, HasPassword
<1> HIDE DEF w
<1>9. \A b \in accounts : b.id = w.id => Suits(w, b)
  BY <1>2, <1>7, <1>8
<1> QED BY <1>9 DEF w

LEMMA CredentialsInit == Init => CredentialsFit
<1> SUFFICES ASSUME Init PROVE CredentialsFit
  OBVIOUS
<1>1. \A w \in CredentialWrite : w # NoPlan
  BY DEF CredentialWrite, NoPlan
<1> QED BY <1>1 DEF Init, CredentialsFit, Waiting

\* A patch that waits and suits its account, or is no credential, leaves another
\* credential that suits it suitable.
LEMMA CredentialsStep == AimInv /\ CredentialsFit /\ [Next]_vars => CredentialsFit'
<1> SUFFICES ASSUME AimInv, CredentialsFit, [Next]_vars, NEW w \in CredentialWrite, Waiting(w)',
                    NEW b \in accounts', b.id = w.id
             PROVE  Suits(w, b)
  BY DEF CredentialsFit
<1>w. w \in AccountWrite /\ w.kind = "credential"
  BY DEF CredentialWrite, AccountWrite, PatchWrite
<1>1. CASE UNCHANGED accounts /\ Waiting(w)
  BY <1>1 DEF CredentialsFit
<1>2. CASE UNCHANGED accounts /\ \E c \in Calls : (Decides(c) \/ Replaces(c)) /\ plan'[c] = w
  <2>1. PICK c \in Calls : (Decides(c) \/ Replaces(c)) /\ plan'[c] = w
    BY <1>2
  <2>2. Decides(c)
    BY <1>w, <2>1, ReplacesKind
  <2> QED BY <1>2, <2>1, <2>2, DecidedSuits
<1>3. ASSUME NEW v \in AccountWrite, Waiting(v), accounts' = Effect(accounts, v, nextId), Waiting(w)
      PROVE  Suits(w, b)
  <2>1. accounts \in SUBSET Account /\ nextId \in Nat
    BY DEF AimInv, TypeOK
  <2>2. CASE b \in accounts
    BY <1>3, <2>2 DEF CredentialsFit
  <2>3. CASE v \in CreateWrite /\ b = NewAccount(nextId, v)
    <3>1. b.id = nextId
      BY <2>3 DEF NewAccount
    <3>2. w.id < nextId
      BY <1>3, <1>w, WaitingIsOld
    <3> QED BY <2>1, <3>1, <3>2
  <2>4. ASSUME NEW a \in accounts, v \in PatchWrite, a.id = v.id, b = Patched(a, v)
        PROVE  Suits(w, b)
    <3>1. a \in Account /\ a.id = w.id
      BY <2>1, <2>4, PatchedFacts
    <3>2. Suits(w, a)
      BY <1>3, <3>1 DEF CredentialsFit
    <3>3. CASE b.creds = a.creds
      BY <3>2, <3>3 DEF Suits, HasPassword
    <3>4. CASE v \in CredentialWrite /\ b.creds = PutEntry(a.creds, [key |-> v.key, type |-> "Password"])
      <4>1. Suits(v, a)
        BY <1>3, <2>4, <3>4 DEF CredentialsFit
      <4> QED BY <3>1, <3>2, <3>4, <4>1, SuitsAfter
    <3> QED BY <2>4, <3>1, <3>3, <3>4, PatchedCreds
  <2> QED BY <1>3, <2>1, <2>2, <2>3, <2>4, EffectOrigin
<1> QED BY <1>w, <1>1, <1>2, <1>3, WaitingSteps

\* What the credentials of an account come from in a step.
LEMMA CredsStep ==
  ASSUME AimInv, CredentialsFit, [Next]_vars, NEW b \in accounts'
  PROVE  \/ b.creds = {[key |-> 0, type |-> "Password"]} /\ b.id = nextId
         \/ \E a \in accounts :
              /\ a.id = b.id
              /\ \/ b.creds = a.creds
                 \/ \E w \in CredentialWrite :
                      /\ Suits(w, a)
                      /\ b.creds = PutEntry(a.creds, [key |-> w.key, type |-> "Password"])
<1>1. CASE UNCHANGED accounts
  BY <1>1
<1>2. ASSUME NEW v \in AccountWrite, Waiting(v), accounts' = Effect(accounts, v, nextId)
      PROVE  \/ b.creds = {[key |-> 0, type |-> "Password"]} /\ b.id = nextId
             \/ \E a \in accounts :
                  /\ a.id = b.id
                  /\ \/ b.creds = a.creds
                     \/ \E w \in CredentialWrite :
                          /\ Suits(w, a)
                          /\ b.creds = PutEntry(a.creds, [key |-> w.key, type |-> "Password"])
  <2>1. accounts \in SUBSET Account /\ nextId \in Nat
    BY DEF AimInv, TypeOK
  <2>2. CASE b = NewAccount(nextId, v)
    BY <2>2 DEF NewAccount
  <2>3. ASSUME NEW a \in accounts, v \in PatchWrite, a.id = v.id, b = Patched(a, v)
        PROVE  /\ a.id = b.id
               /\ \/ b.creds = a.creds
                  \/ \E w \in CredentialWrite :
                       /\ Suits(w, a)
                       /\ b.creds = PutEntry(a.creds, [key |-> w.key, type |-> "Password"])
    <3>1. a \in Account /\ b.id = a.id
      BY <2>1, <2>3, PatchedFacts
    <3>2. v \in CredentialWrite => Suits(v, a)
      BY <1>2, <2>3 DEF CredentialsFit
    <3> QED BY <2>3, <3>1, <3>2, PatchedCreds
  <2> QED BY <1>2, <2>1, <2>2, <2>3, EffectOrigin
<1> QED BY <1>1, <1>2, WaitingSteps

LEMMA CredentialsHold == Spec => [](AimInv /\ CredentialsFit)
  BY AimInit, AimStep, CredentialsInit, CredentialsStep, PTL DEF Spec

\* At the start nobody has two passwords.
OnePasswordAtStart ==
  \A a \in InitAccounts : \A x, y \in a.creds : (x.type = "Password" /\ y.type = "Password") => x = y

\* Nobody ever has a second Password credential who did not have it from the
\* start: two password changes at once, or one that arrives late, end in one.
THEOREM OnlyOnePassword ==
  ASSUME OnePasswordAtStart
  PROVE  Spec => []OnePassword
<1>1. Init => OnePassword
  BY OnePasswordAtStart DEF Init, OnePassword, OnePasswordAtStart
<1>2. AimInv /\ CredentialsFit /\ OnePassword /\ [Next]_vars => OnePassword'
  <2> SUFFICES ASSUME AimInv, CredentialsFit, OnePassword, [Next]_vars, NEW b \in accounts',
                      NEW x \in b.creds, NEW y \in b.creds, x.type = "Password", y.type = "Password"
               PROVE  x = y
    BY DEF OnePassword
  <2>1. CASE b.creds = {[key |-> 0, type |-> "Password"]}
    BY <2>1
  <2>2. ASSUME NEW a \in accounts, b.creds = a.creds
        PROVE  x = y
    BY <2>2 DEF OnePassword
  <2>3. ASSUME NEW a \in accounts, NEW w \in CredentialWrite, Suits(w, a),
               b.creds = PutEntry(a.creds, [key |-> w.key, type |-> "Password"])
        PROVE  x = y
    <3> DEFINE new == [key |-> w.key, type |-> "Password"]
    <3>1. \A z \in b.creds : z = new \/ z \in a.creds
      BY <2>3 DEF PutEntry
    <3>2. CASE new \in a.creds
      BY <2>3, <3>1, <3>2 DEF OnePassword
    <3>3. CASE ~ HasPassword(a)
      BY <3>1, <3>3 DEF HasPassword
    <3> QED BY <2>3, <3>2, <3>3 DEF Suits
  <2> QED BY <2>1, <2>2, <2>3, CredsStep
<1> QED BY <1>1, <1>2, CredentialsHold, PTL DEF Spec

\* At the start no two credentials of an account have the same key.
CredentialsKeyedAtStart == \A a \in InitAccounts : Keyed(a.creds)

\* An API key is never lost to a password change, whatever is interleaved or
\* arrives late: the key under which a new Password goes is free or its own.
THEOREM PasswordCostsNoKey ==
  ASSUME CredentialsKeyedAtStart
  PROVE  Spec => ApiKeysKept
<1> DEFINE I == \A a \in accounts : Keyed(a.creds)
           A == \A a \in accounts, b \in accounts' :
                  a.id = b.id => {cr \in a.creds : cr.type = "ApiKey"} \subseteq b.creds
<1>1. Init => I
  BY CredentialsKeyedAtStart DEF Init, CredentialsKeyedAtStart
<1>2. AimInv /\ CredentialsFit /\ I /\ [Next]_vars => I'
  <2> SUFFICES ASSUME AimInv, CredentialsFit, I, [Next]_vars, NEW b \in accounts'
               PROVE  Keyed(b.creds)
    OBVIOUS
  <2>1. CASE b.creds = {[key |-> 0, type |-> "Password"]}
    BY <2>1 DEF Keyed
  <2>2. ASSUME NEW a \in accounts,
               b.creds = a.creds \/ \E e : b.creds = PutEntry(a.creds, e)
        PROVE  Keyed(b.creds)
    BY <2>2 DEF Keyed, PutEntry
  <2> QED BY <2>1, <2>2, CredsStep
<1>3. AimInv /\ CredentialsFit /\ I /\ [Next]_vars => [A]_vars
  <2> SUFFICES ASSUME AimInv, CredentialsFit, I, [Next]_vars,
                      NEW d \in accounts, NEW b \in accounts', d.id = b.id,
                      NEW cr \in d.creds, cr.type = "ApiKey"
               PROVE  cr \in b.creds
    BY DEF vars
  <2>i. d.id # nextId /\ (\A a \in accounts : a.id = d.id => a = d) /\ d \in Account
    BY DEF AimInv, Identity, TypeOK, Account
  <2>1. ASSUME NEW w \in CredentialWrite, Suits(w, d),
               b.creds = PutEntry(d.creds, [key |-> w.key, type |-> "Password"])
        PROVE  cr \in b.creds
    <3>1. cr.key # w.key
      <4>1. CASE [key |-> w.key, type |-> "Password"] \in d.creds
        BY <4>1 DEF Keyed
      <4>2. CASE w.key \in NextListKey(KeysOf(d.creds))
        <5>1. cr.key \in KeysOf(d.creds) /\ cr.key \in Nat
          BY <2>i DEF KeysOf, Account, Credential
        <5> QED BY <4>2, <5>1 DEF NextListKey
      <4> QED BY <2>1, <4>1, <4>2 DEF Suits
    <3> QED BY <2>1, <3>1 DEF PutEntry
  <2> QED BY <2>i, <2>1, CredsStep
<1> QED BY <1>1, <1>2, <1>3, CredentialsHold, PTL DEF Spec, ApiKeysKept

-----------------------------------------------------------------------------
(* Domain admin rows.                                                      *)
(*                                                                         *)
(* An account loses its rows before it goes, and only a grant brings rows  *)
(* back.  So the rows of a name are gone as long as its delete goes on,    *)
(* and as long as a destroy that was given up may still arrive, unless the *)
(* same name is given domains in between.                                  *)

\* What is known of the call at each remote call of a delete or a grant.
Stage(c) ==
  /\ pc[c] = "query_domain" => req[c].op \in {"create", "delete"}
  /\ pc[c] = "query_account" => req[c].op = "delete"
  /\ pc[c] = "commit" => req[c].op = "put_domains"
  /\ (pc[c] \in {"query_domain", "query_account"} /\ req[c].op = "delete") =>
       rows[req[c].name] = {}
  /\ (pc[c] \in {"rows", "commit"} /\ req[c].op = "put_domains") =>
       FindByType(accounts, "User", req[c].name) # {}

Stages == \A c \in Calls : Stage(c)

\* The account that write w destroys has no rows.
Cleared(w) == \A a \in accounts : a.id = w.id => rows[a.email] = {}

DestroysCleared == \A w \in DestroyWrite : Waiting(w) => Cleared(w)

\* What a call is about to write is what its request asks for.
PlansAsked ==
  \A c \in Calls :
    /\ plan[c] \in DestroyWrite => req[c].op = "delete"
    /\ plan[c] \in CreateWrite => req[c].op = "create" /\ plan[c].email = req[c].name
    /\ plan[c] \in AliasWrite => req[c].op = "insert" /\ plan[c].addr = req[c].addr

\* A call that goes on is at a stage it knows, whatever is the case for others.
LEMMA StageStep ==
  ASSUME AimInv, Stages, [Next]_vars, NEW d \in Calls
  PROVE  (pc'[d] = pc[d] /\ req'[d] = req[d]) \/ Stage(d)'
<1> DEFINE Same(x) == pc'[x] = pc[x] /\ req'[x] = req[x]
<1> USE DEF AimInv
<1>1. CASE UNCHANGED vars
  BY <1>1 DEF vars
<1>2. ASSUME NEW c \in Calls,
             pc'[c] \in {"idle", "accounts", "domains", "write"},
             \A x \in Calls \ {c} : Same(x)
      PROVE  Same(d) \/ Stage(d)'
  BY <1>2 DEF Stage
<1>3. ASSUME NEW c \in Calls, NEW result, Answer(c, result)
      PROVE  pc'[c] = "idle" /\ \A x \in Calls \ {c} : Same(x)
  BY <1>3 DEF Answer, TypeOK
<1>4. ASSUME NEW c \in Calls,
             \/ NotListed(c) \/ LoseRowsAnswer(c) \/ CommitRows(c) \/ Rollback(c)
             \/ GoneBeforeDelete(c) \/ Settle(c) \/ Write(c) \/ WriteRefused(c)
             \/ Fail(c) \/ Abandon(c)
      PROVE  Same(d) \/ Stage(d)'
  <2>1. \E result : Answer(c, result)
    BY <1>4 DEF NotListed, LoseRowsAnswer, CommitRows, Rollback, GoneBeforeDelete, Settle,
                Write, WriteRefused, Fail, Abandon
  <2> QED BY <1>2, <1>3, <2>1
<1>5. ASSUME NEW c \in Calls, Begin(c) PROVE Same(d) \/ Stage(d)'
  <2>1. /\ pc'[c] = IF req'[c].op = "create" THEN "query_domain" ELSE "accounts"
        /\ \A x \in Calls \ {c} : Same(x)
    BY <1>5 DEF Begin, TypeOK
  <2> QED BY <1>2, <2>1 DEF Stage
<1>6. ASSUME NEW c \in Calls, Reject(c) \/ LateWrite \/ LateWriteLost PROVE Same(d)
  BY <1>6 DEF Reject, LateWrite, LateWriteLost
<1>7. ASSUME NEW c \in Calls, NotListedForInsert(c) \/ ListDomains(c) \/ FindForDelete(c)
      PROVE  Same(d) \/ Stage(d)'
  <2>1. pc'[c] \in {"domains", "write"} /\ \A x \in Calls \ {c} : Same(x)
    BY <1>7 DEF NotListedForInsert, ListDomains, FindForDelete, TypeOK
  <2> QED BY <1>2, <2>1
<1>8. ASSUME NEW c \in Calls, ListAccounts(c) PROVE Same(d) \/ Stage(d)'
  <2>1. /\ pc'[c] = AfterListing(req[c]) /\ req'[c] = req[c] /\ accounts' = accounts
        /\ FindByType(accounts, "User", req[c].name) # {}
        /\ \A x \in Calls \ {c} : Same(x)
    BY <1>8 DEF ListAccounts, TypeOK, stores
  <2>2. AfterListing(req[c]) \in {"domains", "rows", "write"}
    BY DEF AfterListing
  <2>3. Stage(c)'
    BY <2>1, <2>2 DEF Stage, FindByType
  <2> QED BY <2>1, <2>3
<1>9. ASSUME NEW c \in Calls, WriteRows(c) PROVE Same(d) \/ Stage(d)'
  <2>1. /\ pc'[c] = "query_domain" /\ req'[c] = req[c] /\ req[c].op = "delete"
        /\ \A x \in Calls \ {c} : Same(x)
        /\ rows' = RowsAfter(req[c], {})
    BY <1>9 DEF WriteRows, TypeOK
  <2>2. req[c].name \in Address
    BY <1>9, ActiveName DEF WriteRows
  <2>3. rows'[req[c].name] = {}
    BY <2>1, <2>2 DEF RowsAfter, TypeOK
  <2>4. Stage(c)'
    BY <2>1, <2>3 DEF Stage
  <2> QED BY <2>1, <2>4
<1>10. ASSUME NEW c \in Calls, ClearRows(c) PROVE Same(d) \/ Stage(d)'
  <2>1. /\ pc'[c] = "commit" /\ req'[c] = req[c] /\ req[c].op = "put_domains"
        /\ \A x \in Calls \ {c} : Same(x)
        /\ pc[c] = "rows" /\ accounts' = accounts
    BY <1>10 DEF ClearRows, TypeOK
  <2>2. Stage(c)'
    BY <2>1 DEF Stages, Stage, FindByType
  <2> QED BY <2>1, <2>2
<1>11. ASSUME NEW c \in Calls, QueryDomain(c) PROVE Same(d) \/ Stage(d)'
  <2>1. /\ pc'[c] = IF req[c].op = "create" THEN "write" ELSE "query_account"
        /\ req'[c] = req[c] /\ rows' = rows /\ pc[c] = "query_domain"
        /\ \A x \in Calls \ {c} : Same(x)
    BY <1>11 DEF QueryDomain, TypeOK, stores
  <2>2. Stage(c)'
    BY <2>1 DEF Stages, Stage
  <2> QED BY <2>1, <2>2
<1> QED BY <1>1, <1>4, <1>5, <1>6, <1>7, <1>8, <1>9, <1>10, <1>11 DEF Next, Step

\* What a step does to the rows.
LEMMA RowSteps ==
  ASSUME AimInv, [Next]_vars
  PROVE  \/ rows' = rows
         \/ \E c \in Calls, left \in SUBSET Domain :
              /\ pc[c] \in {"rows", "commit"} /\ req[c].name \in Address
              /\ pc[c] = "rows" => req[c].op = "delete"
              /\ pc[c] = "commit" => left = rows[req[c].name] \ clearing[c]
              /\ rows' = RowsAfter(req[c], left)
              /\ UNCHANGED <<accounts, late>>
              /\ \A d \in Calls : plan'[d] = plan[d] \/ plan'[d] = NoPlan
<1> USE DEF AimInv
<1>1. CASE UNCHANGED vars
  BY <1>1 DEF vars
<1>2. ASSUME NEW c \in Calls, WriteRows(c) \/ LoseRowsAnswer(c) \/ CommitRows(c)
      PROVE  \E left \in SUBSET Domain :
               /\ pc[c] \in {"rows", "commit"} /\ req[c].name \in Address
               /\ pc[c] = "rows" => req[c].op = "delete"
               /\ pc[c] = "commit" => left = rows[req[c].name] \ clearing[c]
               /\ rows' = RowsAfter(req[c], left)
               /\ UNCHANGED <<accounts, late>>
               /\ \A d \in Calls : plan'[d] = plan[d] \/ plan'[d] = NoPlan
  <2>1. pc[c] \in {"rows", "commit"}
    BY <1>2 DEF WriteRows, LoseRowsAnswer, CommitRows
  <2>2. req[c].name \in Address
    BY <2>1, ActiveName
  <2>3. UNCHANGED <<accounts, late>>
    BY <1>2 DEF WriteRows, LoseRowsAnswer, CommitRows
  <2>4. \A d \in Calls : plan'[d] = plan[d] \/ plan'[d] = NoPlan
    BY <1>2 DEF WriteRows, LoseRowsAnswer, CommitRows, Answer, TypeOK
  <2>5. CASE CommitRows(c)
    <3>1. rows' = RowsAfter(req[c], rows[req[c].name] \ clearing[c]) /\ pc[c] = "commit"
      BY <2>5 DEF CommitRows
    <3>2. rows[req[c].name] \ clearing[c] \in SUBSET Domain
      BY <2>2 DEF TypeOK
    <3> QED BY <2>2, <2>3, <2>4, <3>1, <3>2
  <2>6. CASE WriteRows(c) \/ LoseRowsAnswer(c)
    <3>1. rows' = RowsAfter(req[c], {}) /\ pc[c] = "rows" /\ req[c].op = "delete"
      BY <2>6 DEF WriteRows, LoseRowsAnswer
    <3> QED BY <2>2, <2>3, <2>4, <3>1
  <2> QED BY <1>2, <2>5, <2>6
<1>3. ASSUME NEW c \in Calls,
             \/ Begin(c) \/ Reject(c) \/ ListAccounts(c) \/ NotListed(c) \/ NotListedForInsert(c)
             \/ ListDomains(c) \/ ClearRows(c) \/ Rollback(c) \/ QueryDomain(c)
             \/ FindForDelete(c) \/ GoneBeforeDelete(c) \/ Settle(c) \/ Write(c)
             \/ WriteRefused(c) \/ Fail(c) \/ Abandon(c)
      PROVE  rows' = rows
  BY <1>3 DEF Begin, Reject, ListAccounts, NotListed, NotListedForInsert, ListDomains, ClearRows,
              Rollback, QueryDomain, FindForDelete, GoneBeforeDelete, Settle, Write, Commit,
              WriteRefused, Fail, Abandon, stores
<1>4. ASSUME LateWrite \/ LateWriteLost PROVE rows' = rows
  BY <1>4 DEF LateWrite, LateWriteLost, Commit
<1> QED BY <1>1, <1>2, <1>3, <1>4 DEF Next, Step

\* A request to delete name is under way, or its late write may still arrive.
Deleting(name) ==
  \/ \E c \in Calls : req[c].op = "delete" /\ req[c].name = name
  \/ \E l \in late : l.write \in DestroyWrite /\ l.name = name

\* Nobody gives domains to a name that is being deleted.  When the two overlap,
\* the name may end with the rows of the grant and without an account.
GrantsAndDeletesApart ==
  \A c \in Calls : req[c].op = "put_domains" => ~ Deleting(req[c].name)

\* At the start only users of the directory administer domains.
RowsOwnedAtStart ==
  \A name \in Address : InitRows[name] # {} => FindByType(InitAccounts, "User", name) # {}

RowsInv == AimInv /\ NoOrphanRows /\ Stages /\ PlansAsked /\ DestroysCleared

LEMMA RowsInit ==
  ASSUME RowsOwnedAtStart
  PROVE  Init => RowsInv
<1> SUFFICES ASSUME Init PROVE RowsInv
  OBVIOUS
<1>1. NoOrphanRows
  BY RowsOwnedAtStart DEF Init, NoOrphanRows, RowsOwnedAtStart
<1>2. Stages
  BY DEF Init, Stages, Stage
<1>3. DestroysCleared
  BY DEF Init, DestroysCleared, Waiting, DestroyWrite, NoPlan
<1>4. PlansAsked
  BY DEF Init, PlansAsked, DestroyWrite, CreateWrite, AliasWrite, NoPlan
<1> QED BY <1>1, <1>2, <1>3, <1>4, AimInit DEF RowsInv

\* A destroy that a call takes in hand is for an account whose rows are gone.
LEMMA TakenDestroyCleared ==
  ASSUME RowsInv, NEW c \in Calls, Decides(c) \/ Replaces(c), plan'[c] \in DestroyWrite,
         UNCHANGED <<accounts, rows>>
  PROVE  \A a \in accounts : a.id = plan'[c].id => rows[a.email] = {}
<1>1. plan'[c].kind = "destroy"
  BY DEF DestroyWrite
<1>2. CASE Decides(c)
  <2>1. PICK a \in FindByType(accounts, "User", req[c].name) : plan'[c] \in Plans(a, req[c], accounts)
    BY <1>2 DEF Decides
  <2>2. a \in accounts /\ accounts \in SUBSET Account /\ req[c] \in Request
    BY <1>2, DirectoryAssumption DEF Decides, FindByType, RowsInv, AimInv, TypeOK
  <2>3. plan'[c] \in {NoPlan, Noop, Refusal} \/ plan'[c] \in PatchWrite
    BY <2>1, <2>2, PlansFacts
  <2>4. plan'[c].kind # "destroy"
    BY <2>3 DEF NoPlan, Noop, Refusal, PatchWrite, AliasWrite, UnaliasWrite, MemberWrite,
                ProfileWrite, SecretWrite, CredentialWrite
  <2> QED BY <1>1, <2>4
<1>3. CASE Replaces(c)
  <2>1. plan'[c] # [kind |-> "create", email |-> req[c].name, quota |-> req[c].quota]
    BY <1>1
  <2>2. pc[c] = "query_account" /\ \E a \in QueryAccount(req[c].name) : plan'[c] = [kind |-> "destroy", id |-> a.id]
    BY <1>3, <2>1 DEF Replaces
  <2>3. PICK a \in QueryAccount(req[c].name) : plan'[c].id = a.id
    BY <2>2
  <2>4. a \in accounts /\ a.email = req[c].name
    BY DEF QueryAccount
  <2>5. \A b \in accounts : b.id = plan'[c].id => b.email = req[c].name
    BY <2>3, <2>4 DEF RowsInv, AimInv, Identity
  <2>6. rows[req[c].name] = {}
    BY <2>2 DEF RowsInv, Stages, Stage
  <2> QED BY <2>5, <2>6
<1> QED BY <1>2, <1>3

\* What a request plans for the account it found tells which kind of request it is.
LEMMA PlanTellsRequest ==
  ASSUME NEW a, NEW r, NEW accts, NEW p \in Plans(a, r, accts)
  PROVE  /\ p.kind = "alias" => r.op = "insert" /\ p \in InsertPlans(a, r, accts)
         /\ p.kind = "unalias" => r.op = "remove" /\ p \in RemovePlans(a, r)
         /\ p.kind = "join" => r.op = "add_group" /\ p \in AddGroupPlans(a, r, accts)
         /\ p.kind # "create"
<1>1. CASE r.op = "insert"
  BY <1>1 DEF Plans, InsertPlans, Refusal
<1>2. CASE r.op = "remove"
  BY <1>2 DEF Plans, RemovePlans, Refusal, Noop
<1>3. CASE r.op = "password"
  BY <1>3 DEF Plans, PasswordPlans
<1>4. CASE r.op = "update"
  BY <1>4 DEF Plans, UpdatePlans, Noop
<1>5. CASE r.op = "add_group"
  BY <1>5 DEF Plans, AddGroupPlans, Refusal, Noop
<1>6. CASE r.op = "remove_group"
  BY <1>6 DEF Plans, RemoveGroupPlans, Refusal
<1>7. CASE r.op \notin {"insert", "remove", "password", "update", "add_group", "remove_group"}
  BY <1>7 DEF Plans, NoPlan
<1> QED BY <1>1, <1>2, <1>3, <1>4, <1>5, <1>6, <1>7

LEMMA AskedStep ==
  ASSUME AimInv, Stages, PlansAsked, [Next]_vars
  PROVE  PlansAsked'
<1> DEFINE Asked(c) ==
      /\ plan[c] \in DestroyWrite => req[c].op = "delete"
      /\ plan[c] \in CreateWrite => req[c].op = "create" /\ plan[c].email = req[c].name
      /\ plan[c] \in AliasWrite => req[c].op = "insert" /\ plan[c].addr = req[c].addr
<1>1. \A w : w \in DestroyWrite \/ w \in CreateWrite \/ w \in AliasWrite => w \in AccountWrite
  BY DEF AccountWrite, PatchWrite
<1>2. ASSUME NEW d \in Calls, Blank(d) \/ Kept(d) PROVE Asked(d)'
  BY <1>1, <1>2 DEF Blank, Kept, PlansAsked
<1>3. ASSUME NEW c \in Calls, Decides(c) PROVE Asked(c)'
  <2>1. PICK a \in FindByType(accounts, "User", req[c].name) : plan'[c] \in Plans(a, req[c], accounts)
    BY <1>3 DEF Decides
  <2>2. a \in accounts /\ accounts \in SUBSET Account /\ req[c] \in Request
    BY <1>3, DirectoryAssumption DEF Decides, FindByType, AimInv, TypeOK
  <2>3. plan'[c] \in {NoPlan, Noop, Refusal} \/ plan'[c] \in PatchWrite
    BY <2>1, <2>2, PlansFacts
  <2>4. plan'[c].kind \notin {"create", "destroy"}
    BY <2>3 DEF NoPlan, Noop, Refusal, PatchWrite, AliasWrite, UnaliasWrite, MemberWrite,
                ProfileWrite, SecretWrite, CredentialWrite
  <2>5. plan'[c] \notin CreateWrite /\ plan'[c] \notin DestroyWrite
    BY <2>4 DEF CreateWrite, DestroyWrite
  <2>6. CASE plan'[c] \in AliasWrite
    <3>1. plan'[c].kind = "alias"
      BY <2>6 DEF AliasWrite
    <3>2. req[c].op = "insert" /\ plan'[c] \in InsertPlans(a, req[c], accounts)
      BY <2>1, <3>1, PlanTellsRequest
    <3>3. plan'[c] # Refusal
      BY <3>1 DEF Refusal
    <3>4. plan'[c].addr = req[c].addr
      BY <3>2, <3>3 DEF InsertPlans
    <3> QED BY <1>3, <2>5, <3>2, <3>4 DEF Decides
  <2> QED BY <2>5, <2>6
<1>4. ASSUME NEW c \in Calls, Replaces(c) PROVE Asked(c)'
  <2>1. plan'[c].kind \in {"create", "destroy"}
    BY <1>4, ReplacesKind
  <2>2. plan'[c] \notin AliasWrite
    BY <2>1 DEF AliasWrite
  <2>3. CASE plan'[c] \in CreateWrite
    <3>1. plan'[c].kind = "create"
      BY <2>3 DEF CreateWrite
    <3>2. \A a \in QueryAccount(req[c].name) : plan'[c] # [kind |-> "destroy", id |-> a.id]
      BY <3>1
    <3>3. /\ req[c].op = "create" /\ req'[c] = req[c]
          /\ plan'[c] = [kind |-> "create", email |-> req[c].name, quota |-> req[c].quota]
      BY <1>4, <3>2 DEF Replaces
    <3>4. plan'[c].email = req[c].name
      BY <3>3
    <3>5. plan'[c] \notin DestroyWrite
      BY <3>1 DEF DestroyWrite
    <3> QED BY <2>2, <3>3, <3>4, <3>5
  <2>4. CASE plan'[c] \in DestroyWrite
    <3>1. plan'[c].kind = "destroy"
      BY <2>4 DEF DestroyWrite
    <3>2. plan'[c] # [kind |-> "create", email |-> req[c].name, quota |-> req[c].quota]
      BY <3>1
    <3>3. pc[c] = "query_account" /\ req'[c] = req[c]
      BY <1>4, <3>2 DEF Replaces
    <3>4. req[c].op = "delete"
      BY <3>3 DEF Stages, Stage
    <3>5. plan'[c] \notin CreateWrite
      BY <3>1 DEF CreateWrite
    <3> QED BY <2>2, <3>3, <3>4, <3>5
  <2> QED BY <2>2, <2>3, <2>4
<1>5. ASSUME NEW d \in Calls PROVE Blank(d) \/ Kept(d) \/ Decides(d) \/ Replaces(d)
  BY CallSteps DEF Quiet, Takes, Carries
<1> QED BY <1>2, <1>3, <1>4, <1>5 DEF PlansAsked

\* The account that a waiting write destroys is being deleted by request.
LEMMA DestroyIsAsked ==
  ASSUME RowsInv, NEW w \in DestroyWrite, Waiting(w), NEW a \in accounts, a.id = w.id
  PROVE  Deleting(a.email)
<1> USE DEF RowsInv
<1>1. w \in AccountWrite /\ w.kind # "create"
  BY DEF DestroyWrite, AccountWrite
<1>2. CASE \E c \in Calls : plan[c] = w
  BY <1>1, <1>2 DEF AimInv, CallsAimed, Aimed, PlansAsked, Deleting
<1>3. CASE \E l \in late : l.write = w
  BY <1>1, <1>3 DEF AimInv, LateAimed, Aimed, Deleting
<1> QED BY <1>2, <1>3 DEF Waiting

LEMMA RowsStep ==
  RowsInv /\ GrantsAndDeletesApart /\ [Next]_vars => RowsInv'
<1> SUFFICES ASSUME RowsInv, GrantsAndDeletesApart, [Next]_vars
             PROVE  NoOrphanRows' /\ Stages' /\ DestroysCleared'
  BY AimStep, AskedStep DEF RowsInv
<1> USE DEF RowsInv
<1>a. accounts \in SUBSET Account /\ nextId \in Nat
  BY DEF AimInv, TypeOK
<1>s. ASSUME \A d \in Calls :
               (pc'[d] = pc[d] /\ req'[d] = req[d]) =>
                 /\ (pc[d] \in {"query_domain", "query_account"} /\ req[d].op = "delete") =>
                      rows'[req[d].name] = {}
                 /\ (pc[d] \in {"rows", "commit"} /\ req[d].op = "put_domains") =>
                      FindByType(accounts', "User", req[d].name) # {}
      PROVE  Stages'
  <2> SUFFICES ASSUME NEW d \in Calls, pc'[d] = pc[d], req'[d] = req[d]
               PROVE  Stage(d)'
    BY StageStep DEF Stages
  <2>1. Stage(d)
    BY DEF Stages
  <2> QED BY <1>s, <2>1 DEF Stage
<1>1. CASE UNCHANGED <<accounts, rows>>
  <2>1. NoOrphanRows'
    BY <1>1 DEF NoOrphanRows
  <2>2. Stages'
    BY <1>1, <1>s DEF Stages, Stage
  <2>3. ASSUME NEW w \in DestroyWrite, Waiting(w)' PROVE Cleared(w)'
    <3>1. CASE Waiting(w)
      BY <1>1, <3>1 DEF DestroysCleared, Cleared
    <3>2. CASE \E c \in Calls : (Decides(c) \/ Replaces(c)) /\ plan'[c] = w
      <4>1. PICK c \in Calls : (Decides(c) \/ Replaces(c)) /\ plan'[c] = w
        BY <3>2
      <4>2. \A a \in accounts : a.id = plan'[c].id => rows[a.email] = {}
        BY <1>1, <2>3, <4>1, TakenDestroyCleared
      <4> QED BY <1>1, <4>1, <4>2 DEF Cleared
    <3>3. w \in AccountWrite
      BY <2>3 DEF AccountWrite
    <3> QED BY <2>3, <3>1, <3>2, <3>3, WaitingSteps
  <2> QED BY <2>1, <2>2, <2>3 DEF DestroysCleared
<1>2. ASSUME NEW c \in Calls, NEW left \in SUBSET Domain,
             pc[c] \in {"rows", "commit"}, req[c].name \in Address,
             pc[c] = "rows" => req[c].op = "delete",
             rows' = RowsAfter(req[c], left), UNCHANGED <<accounts, late>>,
             \A d \in Calls : plan'[d] = plan[d] \/ plan'[d] = NoPlan
      PROVE  NoOrphanRows' /\ Stages' /\ DestroysCleared'
  <2>1. req[c] \in Requests /\ rows \in [Address -> SUBSET Domain]
    BY <1>2 DEF AimInv, TypeOK
  <2>2. /\ \A name \in Address \ {req[c].name} : rows'[name] = rows[name]
        /\ req[c].op # "put_domains" => rows'[req[c].name] = {}
    BY <1>2, <2>1 DEF RowsAfter
  <2>3. req[c].op = "put_domains" => /\ FindByType(accounts, "User", req[c].name) # {}
                                     /\ ~ Deleting(req[c].name)
    BY <1>2 DEF Stages, Stage, GrantsAndDeletesApart
  <2>4. NoOrphanRows'
    BY <1>2, <2>2, <2>3 DEF NoOrphanRows, FindByType
  <2>5. Stages'
    <3>1. ASSUME NEW d \in Calls, pc[d] \in {"query_domain", "query_account"}, req[d].op = "delete"
          PROVE  rows'[req[d].name] = {}
      <4>1. req[d] \in Requests /\ req[d].name \in Address
        BY <3>1, ActiveName DEF AimInv, TypeOK
      <4>2. rows[req[d].name] = {} /\ Deleting(req[d].name)
        BY <3>1 DEF Stages, Stage, Deleting
      <4> QED BY <2>2, <2>3, <4>1, <4>2
    <3>2. ASSUME NEW d \in Calls, pc[d] \in {"rows", "commit"}, req[d].op = "put_domains"
          PROVE  FindByType(accounts', "User", req[d].name) # {}
      BY <1>2, <3>2 DEF Stages, Stage, FindByType
    <3> QED BY <1>s, <3>1, <3>2
  <2>6. ASSUME NEW w \in DestroyWrite, Waiting(w)' PROVE Cleared(w)'
    <3>1. w # NoPlan
      BY DEF DestroyWrite, NoPlan
    <3>2. Waiting(w)
      BY <1>2, <2>6, <3>1 DEF Waiting
    <3>3. \A a \in accounts : a.id = w.id => rows[a.email] = {} /\ Deleting(a.email) /\ a.email \in Address
      BY <1>a, <3>2, DestroyIsAsked DEF DestroysCleared, Cleared, Account
    <3>4. \A a \in accounts : a.id = w.id => rows'[a.email] = {}
      BY <2>2, <2>3, <3>3
    <3> QED BY <1>2, <3>4 DEF Cleared
  <2> QED BY <2>4, <2>5, <2>6 DEF DestroysCleared
<1>3. ASSUME NEW v \in AccountWrite, Waiting(v), accounts' = Effect(accounts, v, nextId),
             \A w \in AccountWrite : Waiting(w)' => Waiting(w), rows' = rows
      PROVE  NoOrphanRows' /\ Stages' /\ DestroysCleared'
  <2>1. /\ \A b \in accounts' :
             \/ \E a \in accounts : a.id = b.id /\ a.type = b.type /\ a.email = b.email
             \/ v.kind = "create" /\ b = NewAccount(nextId, v)
    BY <1>3, <1>a, EffectFacts
  <2>2. ASSUME NEW a \in accounts
        PROVE  \/ \E b \in accounts' : b.type = a.type /\ b.email = a.email
               \/ v \in DestroyWrite /\ a.id = v.id
    <3>1. CASE v \in CreateWrite /\ v.kind = "create"
      BY <1>3, <3>1 DEF Effect
    <3>2. CASE v \in DestroyWrite /\ v.kind = "destroy"
      BY <1>3, <3>2 DEF Effect
    <3>3. CASE v \in PatchWrite /\ v.kind \notin {"create", "destroy"}
      <4>1. accounts' = {IF x.id = v.id THEN Patched(x, v) ELSE x : x \in accounts}
        BY <1>3, <3>3 DEF Effect
      <4>2. a \in Account /\ Patched(a, v).type = a.type /\ Patched(a, v).email = a.email
        BY <1>a, <3>3, PatchedFacts
      <4> QED BY <4>1, <4>2
    <3> QED BY <3>1, <3>2, <3>3, WriteKinds
  <2>3. ASSUME NEW a \in accounts, a.type = "User", rows[a.email] # {} \/ ~ Deleting(a.email)
        PROVE  FindByType(accounts', "User", a.email) # {}
    <3>1. ~ (v \in DestroyWrite /\ a.id = v.id)
      BY <1>3, <2>3, DestroyIsAsked DEF DestroysCleared, Cleared
    <3> QED BY <2>2, <2>3, <3>1 DEF FindByType
  <2>4. NoOrphanRows'
    BY <1>3, <2>3 DEF NoOrphanRows, FindByType
  <2>5. Stages'
    <3>1. ASSUME NEW d \in Calls, pc[d] \in {"rows", "commit"}, req[d].op = "put_domains"
          PROVE  FindByType(accounts', "User", req[d].name) # {}
      <4>1. ~ Deleting(req[d].name)
        BY <3>1 DEF GrantsAndDeletesApart
      <4>2. PICK a \in accounts : a.type = "User" /\ a.email = req[d].name
        BY <3>1 DEF Stages, Stage, FindByType
      <4> QED BY <2>3, <4>1, <4>2
    <3> QED BY <1>3, <1>s, <3>1 DEF Stages, Stage
  <2>6. ASSUME NEW w \in DestroyWrite, Waiting(w)' PROVE Cleared(w)'
    <3>1. w \in AccountWrite /\ w.kind = "destroy" /\ Waiting(w)
      BY <1>3, <2>6 DEF AccountWrite, DestroyWrite
    <3>2. w.id \in Nat /\ w.id < nextId
      BY <3>1, WaitingIsOld DEF DestroyWrite
    <3>3. ASSUME NEW b \in accounts', b.id = w.id
          PROVE  rows[b.email] = {}
      <4>1. b # NewAccount(nextId, v)
        BY <1>a, <3>2, <3>3 DEF NewAccount
      <4>2. PICK a \in accounts : a.id = b.id /\ a.email = b.email
        BY <2>1, <4>1
      <4> QED BY <3>1, <3>3, <4>2 DEF DestroysCleared, Cleared
    <3> QED BY <1>3, <3>3 DEF Cleared
  <2> QED BY <2>4, <2>5, <2>6 DEF DestroysCleared
<1>4. CASE rows' = rows
  BY <1>1, <1>3, <1>4, WaitingSteps
<1> QED BY <1>2, <1>4, RowSteps

\* An address without a user has no domain admin rows: DeleteAccount's order,
\* rows first, is enough however deletes overlap, fail or are carried out late,
\* as long as nobody gives domains to a name that is being deleted.
THEOREM RowsHaveTheirUser ==
  ASSUME RowsOwnedAtStart
  PROVE  Spec /\ []GrantsAndDeletesApart => []NoOrphanRows
<1>1. Init => RowsInv
  BY RowsOwnedAtStart, RowsInit
<1>2. RowsInv /\ GrantsAndDeletesApart /\ [Next]_vars => RowsInv'
  BY RowsStep
<1>3. RowsInv => NoOrphanRows
  BY DEF RowsInv
<1> QED BY <1>1, <1>2, <1>3, PTL DEF Spec

-----------------------------------------------------------------------------
(* Grants.                                                                 *)

\* No two transactions that set the domains of one name are open at once.
GrantsAlone ==
  \A c, d \in Calls :
    (pc[c] = "commit" /\ pc[d] = "commit" /\ req[c].name = req[d].name) => c = d

\* An open transaction has seen, and deletes, every row there is of its name.
SeesAll ==
  \A c \in Calls :
    pc[c] = "commit" => req[c].op = "put_domains" /\ rows[req[c].name] \subseteq clearing[c]

GrantInv == AimInv /\ SeesAll

LEMMA GrantInit == Init => GrantInv
  BY AimInit DEF Init, GrantInv, SeesAll

LEMMA GrantStep == GrantInv /\ GrantsAlone /\ [Next]_vars => GrantInv'
<1> SUFFICES ASSUME GrantInv, GrantsAlone, [Next]_vars
             PROVE  SeesAll'
  BY AimStep DEF GrantInv
<1> USE DEF GrantInv, AimInv
\* Calls but c stay where they are, c is not at its COMMIT, and rows are kept.
<1>0. ASSUME NEW c \in Calls, rows' = rows, clearing' = clearing,
             pc'[c] # "commit", \A d \in Calls \ {c} : pc'[d] = pc[d] /\ req'[d] = req[d]
      PROVE  SeesAll'
  BY <1>0 DEF SeesAll
<1>a. ASSUME NEW c \in Calls, NEW result, Answer(c, result)
      PROVE  pc'[c] = "idle" /\ \A d \in Calls \ {c} : pc'[d] = pc[d] /\ req'[d] = req[d]
  BY <1>a DEF Answer, TypeOK
<1>1. CASE UNCHANGED vars
  BY <1>1 DEF vars, SeesAll
<1>2. ASSUME NEW c \in Calls, Begin(c) \/ ListAccounts(c) \/ NotListedForInsert(c)
                              \/ ListDomains(c) \/ QueryDomain(c) \/ FindForDelete(c)
      PROVE  SeesAll'
  <2>1. AfterListing(req[c]) # "commit"
    BY DEF AfterListing
  <2>2. UNCHANGED <<rows, clearing>>
    BY <1>2 DEF Begin, ListAccounts, NotListedForInsert, ListDomains, QueryDomain,
                FindForDelete, stores
  <2>3. CASE Begin(c)
    BY <1>0, <2>2, <2>3 DEF Begin, TypeOK
  <2>4. CASE ListAccounts(c)
    <3>1. pc' = [pc EXCEPT ![c] = AfterListing(req[c])] /\ req' = req
      BY <2>4 DEF ListAccounts
    <3> QED BY <1>0, <2>1, <2>2, <3>1 DEF TypeOK
  <2>5. CASE NotListedForInsert(c) \/ ListDomains(c) \/ QueryDomain(c) \/ FindForDelete(c)
    <3>1. req' = req /\ \E l \in {"domains", "write", "query_account"} : pc' = [pc EXCEPT ![c] = l]
      BY <2>5 DEF NotListedForInsert, ListDomains, QueryDomain, FindForDelete
    <3>2. PICK l \in {"domains", "write", "query_account"} : pc' = [pc EXCEPT ![c] = l]
      BY <3>1
    <3> QED BY <1>0, <2>2, <3>1, <3>2 DEF TypeOK
  <2> QED BY <1>2, <2>3, <2>4, <2>5
<1>3. ASSUME NEW c \in Calls, NotListed(c) \/ GoneBeforeDelete(c) \/ Settle(c) \/ Write(c)
                              \/ WriteRefused(c) \/ Fail(c) \/ Abandon(c)
      PROVE  SeesAll'
  <2>1. UNCHANGED <<rows, clearing>> /\ \E result : Answer(c, result)
    BY <1>3 DEF NotListed, GoneBeforeDelete, Settle, Write, Commit, WriteRefused, Fail,
                Abandon, stores
  <2> QED BY <1>0, <1>a, <2>1
<1>4. CASE (\E c \in Calls : Reject(c)) \/ LateWrite \/ LateWriteLost
  <2>1. UNCHANGED <<rows, clearing, pc, req>>
    BY <1>4 DEF Reject, LateWrite, LateWriteLost, Commit, stores
  <2> QED BY <2>1 DEF SeesAll
<1>5. ASSUME NEW c \in Calls, ClearRows(c) PROVE SeesAll'
  <2>1. /\ req' = req /\ rows' = rows /\ req[c].op = "put_domains"
        /\ clearing'[c] = rows[req[c].name]
        /\ \A d \in Calls \ {c} : pc'[d] = pc[d] /\ clearing'[d] = clearing[d]
    BY <1>5 DEF ClearRows, TypeOK
  <2> QED BY <2>1 DEF SeesAll
<1>6. ASSUME NEW c \in Calls, Rollback(c) PROVE SeesAll'
  <2>1. /\ rows' = rows /\ pc'[c] = "idle"
        /\ \A d \in Calls \ {c} : pc'[d] = pc[d] /\ req'[d] = req[d] /\ clearing'[d] = clearing[d]
    BY <1>a, <1>6 DEF Rollback, TypeOK
  <2> QED BY <2>1 DEF SeesAll
<1>7. ASSUME NEW c \in Calls, WriteRows(c) \/ LoseRowsAnswer(c) PROVE SeesAll'
  <2>1. /\ req[c].op = "delete" /\ pc[c] = "rows"
        /\ rows' = RowsAfter(req[c], {}) /\ Release(c, req[c].name, rows[req[c].name])
    BY <1>7 DEF WriteRows, LoseRowsAnswer
  <2>2. req[c].name \in Address
    BY <2>1, ActiveName
  <2>3. pc'[c] # "commit" /\ \A d \in Calls \ {c} : pc'[d] = pc[d] /\ req'[d] = req[d]
    BY <1>7, <1>a DEF WriteRows, LoseRowsAnswer, TypeOK
  <2>4. \A name \in Address : rows'[name] = IF name = req[c].name THEN {} ELSE rows[name]
    BY <2>1, <2>2 DEF RowsAfter, TypeOK
  <2> SUFFICES ASSUME NEW d \in Calls \ {c}, pc[d] = "commit"
               PROVE  req[d].op = "put_domains" /\ rows'[req[d].name] \subseteq clearing'[d]
    BY <2>3 DEF SeesAll
  <2>5. req[d].name \in Address /\ req[d].op = "put_domains" /\ rows[req[d].name] \subseteq clearing[d]
    BY ActiveName DEF SeesAll
  <2>6. req[d].name # req[c].name => clearing'[d] = clearing[d]
    BY <2>1 DEF Release
  <2> QED BY <2>4, <2>5, <2>6
<1>8. ASSUME NEW c \in Calls, CommitRows(c) PROVE SeesAll'
  <2>1. /\ pc[c] = "commit"
        /\ rows' = RowsAfter(req[c], rows[req[c].name] \ clearing[c])
        /\ Release(c, req[c].name, clearing[c])
    BY <1>8 DEF CommitRows
  <2>2. req[c].name \in Address
    BY <2>1, ActiveName
  <2>3. pc'[c] # "commit" /\ \A d \in Calls \ {c} : pc'[d] = pc[d] /\ req'[d] = req[d]
    BY <1>8, <1>a DEF CommitRows
  <2>4. \A name \in Address \ {req[c].name} : rows'[name] = rows[name]
    BY <2>1, <2>2 DEF RowsAfter, TypeOK
  <2> SUFFICES ASSUME NEW d \in Calls \ {c}, pc[d] = "commit"
               PROVE  req[d].op = "put_domains" /\ rows'[req[d].name] \subseteq clearing'[d]
    BY <2>3 DEF SeesAll
  <2>5. req[d].name \in Address /\ req[d].op = "put_domains" /\ rows[req[d].name] \subseteq clearing[d]
    BY ActiveName DEF SeesAll
  <2>6. req[d].name # req[c].name
    BY <2>1 DEF GrantsAlone
  <2>7. clearing'[d] = clearing[d]
    BY <2>1, <2>6 DEF Release
  <2> QED BY <2>4, <2>5, <2>6, <2>7
<1> QED BY <1>1, <1>2, <1>3, <1>4, <1>5, <1>6, <1>7, <1>8 DEF Next, Step

\* As long as no two grants to one name are open at the same time, a grant
\* replaces what was there: every domain of the name goes or is one asked for.
\* Requests of any other kind, deletes of that name included, may overlap.
THEOREM GrantsReplace == Spec /\ []GrantsAlone => GrantReplaces
<1> DEFINE A == \A name \in Address : rows'[name] # rows[name] =>
                  \/ rows'[name] = {}
                  \/ \E c \in Calls :
                       pc[c] = "commit" /\ req[c].name = name /\ rows'[name] = req[c].domains
<1>1. GrantInv /\ [Next]_vars => [A]_vars
  <2> SUFFICES ASSUME GrantInv, [Next]_vars, NEW name \in Address, rows'[name] # rows[name]
               PROVE  \/ rows'[name] = {}
                      \/ \E c \in Calls :
                           pc[c] = "commit" /\ req[c].name = name /\ rows'[name] = req[c].domains
    OBVIOUS
  <2>1. PICK c \in Calls, left \in SUBSET Domain :
          /\ pc[c] \in {"rows", "commit"} /\ req[c].name \in Address
          /\ pc[c] = "rows" => req[c].op = "delete"
          /\ pc[c] = "commit" => left = rows[req[c].name] \ clearing[c]
          /\ rows' = RowsAfter(req[c], left)
    BY RowSteps DEF GrantInv
  <2>2. rows \in [Address -> SUBSET Domain]
    BY DEF GrantInv, AimInv, TypeOK
  <2>3. name = req[c].name
    BY <2>1, <2>2 DEF RowsAfter
  <2>4. CASE pc[c] = "rows"
    BY <2>1, <2>2, <2>3, <2>4 DEF RowsAfter
  <2>5. CASE pc[c] = "commit"
    <3>1. left = {} /\ req[c].op = "put_domains"
      BY <2>1, <2>5 DEF GrantInv, SeesAll
    <3>2. rows'[name] = req[c].domains
      BY <2>1, <2>2, <2>3, <3>1 DEF RowsAfter
    <3> QED BY <2>3, <2>5, <3>2
  <2> QED BY <2>1, <2>4, <2>5
<1> QED BY <1>1, GrantInit, GrantStep, PTL DEF Spec, GrantReplaces

-----------------------------------------------------------------------------
(* Success answers.                                                        *)
(*                                                                         *)
(* A success is true because what a request decided on its listing is what *)
(* it would decide on the account as it is now, unless somebody else has   *)
(* written to the account in between; groups never change at all.          *)

\* The remote calls a request of each kind goes through.
Places(op) ==
  CASE op = "create"               -> {"query_domain", "write"}
    [] op = "delete"               -> {"accounts", "rows", "query_domain", "query_account", "write"}
    [] op \in {"insert", "remove"} -> {"accounts", "domains", "write"}
    [] op = "put_domains"          -> {"accounts", "rows", "commit"}
    [] OTHER                       -> {"accounts", "write"}

\* A call in progress is where its request takes it, and has not answered yet.
Routed(c) == pc[c] # "idle" => pc[c] \in Places(req[c].op) /\ answer[c] = "none"

\* What these decide depends on the account found and on the groups only.
Settled == {"remove", "password", "update", "add_group", "remove_group"}

\* What call c decided fits account a as it is.
Planned(c, a) ==
  /\ req[c].op \in Settled => plan[c] \in Plans(a, req[c], accounts)
  /\ req[c].op = "insert" => plan[c].kind \in {"refuse", "alias"}
  /\ req[c].op = "delete" =>
       plan[c] = IF pc[c] = "write" THEN [kind |-> "destroy", id |-> a.id] ELSE NoPlan

\* The account that call c found is as it was, or somebody wrote to it.
Stands(c) ==
  /\ (pc[c] \notin {"idle", "accounts"} /\ req[c].op # "create") =>
       \/ req[c].op = "insert" /\ plan[c] = Refusal
       \/ found[c] \in touched[c]
       \/ \E a \in FindByType(accounts, "User", req[c].name) : a.id = found[c] /\ Planned(c, a)
  /\ (pc[c] = "write" /\ req[c].op = "create") => plan[c].kind = "create"

Answering == \A c \in Calls : Routed(c) /\ Stands(c)

AnswersInv == RowsInv /\ GrantInv /\ DecisionInv /\ Answering

\* A call that is not taken further in a step stays as it is.
Stays(d) ==
  /\ pc'[d] = pc[d] /\ req'[d] = req[d] /\ found'[d] = found[d] /\ plan'[d] = plan[d]
  /\ answer'[d] = answer[d]

\* Groups are as they were: only users are created, changed and destroyed.
LEMMA GroupsStay ==
  ASSUME AimInv, NEW w \in AccountWrite, Waiting(w), accounts' = Effect(accounts, w, nextId),
         NEW name
  PROVE  FindByType(accounts', "Group", name) = FindByType(accounts, "Group", name)
<1>1. accounts \in SUBSET Account /\ nextId \in Nat
  BY DEF AimInv, TypeOK
<1>2. w.kind # "create" => \A a \in accounts : a.id = w.id => a.type = "User"
  BY DEF Waiting, AimInv, CallsAimed, LateAimed, Aimed
<1>3. ASSUME NEW b \in accounts', b.type = "Group" PROVE b \in accounts
  <2>1. CASE w \in CreateWrite /\ b = NewAccount(nextId, w)
    BY <1>3, <2>1 DEF NewAccount
  <2>2. ASSUME w \in PatchWrite, NEW a \in accounts, a.id = w.id, b = Patched(a, w)
        PROVE  FALSE
    <3>1. w.kind # "create"
      BY <2>2 DEF PatchWrite, AliasWrite, UnaliasWrite, MemberWrite, ProfileWrite,
                  SecretWrite, CredentialWrite
    <3>2. a.type = "User" /\ Patched(a, w).type = a.type
      BY <1>1, <1>2, <2>2, <3>1, PatchedFacts
    <3> QED BY <1>3, <2>2, <3>2
  <2> QED BY <1>1, <1>3, <2>1, <2>2, EffectOrigin
<1>4. ASSUME NEW b \in accounts, b.type = "Group" PROVE b \in accounts'
  BY <1>2, <1>4 DEF Effect
<1> QED BY <1>3, <1>4 DEF FindByType

\* An account that is not there any more as it was has been written to.
LEMMA GoneIsWritten ==
  ASSUME NEW accts, NEW w, NEW id, NEW a \in accts, a \notin Effect(accts, w, id)
  PROVE  w.kind # "create" /\ a.id = w.id
  BY DEF Effect

\* What depends on the account and on groups only is decided as before.
LEMMA SettledPlans ==
  ASSUME NEW a, NEW r, NEW accts, NEW more, r.op \in Settled,
         \A name : FindByType(more, "Group", name) = FindByType(accts, "Group", name)
  PROVE  Plans(a, r, more) = Plans(a, r, accts)
  BY DEF Plans, Settled, AddGroupPlans, RemoveGroupPlans

\* A write of somebody else's leaves a call standing.
LEMMA StandsWritten ==
  ASSUME AnswersInv, NEW w \in AccountWrite, Waiting(w), NEW others \in SUBSET Calls,
         Commit(w, others), NEW d \in others, Stays(d)
  PROVE  Stands(d)'
<1>1. accounts' = Effect(accounts, w, nextId)
  BY DEF Commit
<1>2. touched'[d] = IF found[d] = 0 THEN touched[d]
                    ELSE touched[d] \cup {IF w.kind = "create" THEN nextId ELSE w.id}
  BY DEF Commit
<1>3. \A name : FindByType(accounts', "Group", name) = FindByType(accounts, "Group", name)
  BY <1>1, GroupsStay DEF AnswersInv, RowsInv
<1>4. ASSUME NEW a \in FindByType(accounts, "User", req[d].name), a.id = found[d], Planned(d, a),
             found[d] \notin touched'[d]
      PROVE  a \in FindByType(accounts', "User", req[d].name) /\ Planned(d, a)'
  <2>1. a \in accounts /\ a.type = "User" /\ a.email = req[d].name /\ a.id # 0
    BY DEF FindByType, AnswersInv, RowsInv, AimInv, Identity
  <2>2. a \in accounts'
    BY <1>1, <1>2, <1>4, <2>1, GoneIsWritten
  <2>3. req[d].op \in Settled => Plans(a, req[d], accounts') = Plans(a, req[d], accounts)
    BY <1>3, SettledPlans
  <2>4. Planned(d, a)'
    BY <1>4, <2>3 DEF Planned, Stays
  <2> QED BY <2>1, <2>2, <2>4 DEF FindByType
<1>5. found[d] \in touched[d] => found[d] \in touched'[d]
  BY <1>2
<1>6. Stands(d)
  BY DEF AnswersInv, Answering
<1> QED BY <1>4, <1>5, <1>6 DEF Stands, Stays

\* What the place of a call tells of its request.
LEMMA PlaceFacts ==
  ASSUME NEW op, NEW place \in Places(op)
  PROVE  /\ place = "accounts" => op # "create"
         /\ place = "domains" => op \in {"insert", "remove"}
         /\ place = "rows" => op \in {"delete", "put_domains"}
         /\ place = "commit" => op = "put_domains"
         /\ place = "query_domain" => op \in {"create", "delete"}
         /\ place = "query_account" => op = "delete"
         /\ place = "write" => op # "put_domains"
  BY DEF Places

\* A call that stays, and to which nothing is news, stands.
LEMMA StandsQuiet ==
  ASSUME NEW d \in Calls, Routed(d), Stands(d), Stays(d), touched'[d] = touched[d],
         accounts' = accounts
  PROVE  Routed(d)' /\ Stands(d)'
  BY DEF Routed, Stands, Stays, Planned

\* A step of one call leaves the others where they are.
LEMMA OthersStay ==
  ASSUME TypeOK, NEW c \in Calls, Begin(c) \/ Reject(c) \/ Step(c), NEW d \in Calls \ {c}
  PROVE  Stays(d)
<1> USE DEF TypeOK, Stays
<1>1. ASSUME NEW result, Answer(c, result) PROVE Stays(d)
  BY <1>1 DEF Answer
<1>2. CASE Begin(c) \/ Reject(c) \/ ListAccounts(c) \/ NotListedForInsert(c) \/ ListDomains(c)
  BY <1>2 DEF Begin, Reject, ListAccounts, NotListedForInsert, ListDomains
<1>3. CASE WriteRows(c) \/ ClearRows(c) \/ QueryDomain(c) \/ FindForDelete(c)
  BY <1>3 DEF WriteRows, ClearRows, QueryDomain, FindForDelete
<1>4. CASE \/ NotListed(c) \/ LoseRowsAnswer(c) \/ CommitRows(c) \/ Rollback(c)
           \/ GoneBeforeDelete(c) \/ Settle(c) \/ Write(c) \/ WriteRefused(c) \/ Fail(c) \/ Abandon(c)
  BY <1>1, <1>4 DEF NotListed, LoseRowsAnswer, CommitRows, Rollback, GoneBeforeDelete, Settle,
                    Write, WriteRefused, Fail, Abandon
<1> QED BY <1>2, <1>3, <1>4 DEF Step

\* A call that takes a step is where its request takes it, and stands.
LEMMA OwnStep ==
  ASSUME AnswersInv, NEW c \in Calls, Begin(c) \/ Reject(c) \/ Step(c)
  PROVE  Routed(c)' /\ Stands(c)'
<1> USE DEF AnswersInv, Answering, RowsInv, AimInv
<1>0. TypeOK /\ Routed(c) /\ Stands(c)
  OBVIOUS
<1>1. ASSUME pc'[c] = "idle" PROVE Routed(c)' /\ Stands(c)'
  BY <1>1 DEF Routed, Stands
<1>2. CASE Begin(c)
  <2>1. PICK r \in Requests :
          /\ req' = [req EXCEPT ![c] = r]
          /\ pc' = [pc EXCEPT ![c] = IF r.op = "create" THEN "query_domain" ELSE "accounts"]
    BY <1>2 DEF Begin
  <2>2. answer'[c] = "none"
    BY <1>0, <1>2 DEF Begin, TypeOK
  <2>3. req'[c] = r /\ pc'[c] = IF r.op = "create" THEN "query_domain" ELSE "accounts"
    BY <1>0, <2>1 DEF TypeOK
  <2>4. pc'[c] \in Places(r.op)
    BY <2>3 DEF Places
  <2> QED BY <2>2, <2>3, <2>4 DEF Routed, Stands
<1>3. CASE Reject(c)
  BY <1>1, <1>3 DEF Reject
<1>4. CASE ListAccounts(c)
  <2> DEFINE r == req[c]
  <2>1. PICK a \in FindByType(accounts, "User", r.name) :
          found'[c] = a.id /\ plan'[c] \in Plans(a, r, accounts)
    BY <1>0, <1>4 DEF ListAccounts, TypeOK
  <2>2. /\ pc[c] = "accounts" /\ pc'[c] = AfterListing(r) /\ UNCHANGED <<accounts, req, answer>>
    BY <1>0, <1>4 DEF ListAccounts, TypeOK, stores
  <2>3. r.op # "create" /\ answer[c] = "none"
    BY <1>0, <2>2, PlaceFacts DEF Routed
  <2>4. AfterListing(r) \in Places(r.op)
    BY DEF AfterListing, Places
  <2>5. Routed(c)'
    BY <2>2, <2>3, <2>4 DEF Routed
  <2>6. r.op = "insert" => plan'[c].kind \in {"refuse", "alias"}
    BY <2>1 DEF Plans, InsertPlans, Refusal
  <2>7. r.op = "delete" => plan'[c] = NoPlan /\ pc'[c] = "rows"
    BY <2>1, <2>2 DEF Plans, AfterListing
  <2>8. Planned(c, a)'
    BY <2>1, <2>2, <2>6, <2>7 DEF Planned
  <2>9. a \in FindByType(accounts', "User", req'[c].name)
    BY <2>1, <2>2
  <2> QED BY <2>1, <2>2, <2>3, <2>5, <2>8, <2>9 DEF Stands
<1>5. CASE NotListedForInsert(c)
  <2>1. /\ pc[c] = "accounts" /\ pc'[c] = "domains" /\ req[c].op = "insert" /\ plan'[c] = Refusal
        /\ UNCHANGED <<req, answer>>
    BY <1>0, <1>5 DEF NotListedForInsert, TypeOK
  <2> QED BY <1>0, <2>1 DEF Routed, Stands, Places
<1>6. CASE ListDomains(c)
  <2>1. /\ pc[c] = "domains" /\ pc'[c] = "write"
        /\ UNCHANGED <<accounts, req, found, plan, answer, touched>>
    BY <1>0, <1>6 DEF ListDomains, TypeOK, stores
  <2>2. req[c].op \in {"insert", "remove"}
    BY <1>0, <2>1, PlaceFacts DEF Routed
  <2> QED BY <1>0, <2>1, <2>2 DEF Routed, Stands, Places, Planned
<1>7. CASE WriteRows(c)
  <2>1. /\ pc[c] = "rows" /\ pc'[c] = "query_domain" /\ req[c].op = "delete"
        /\ UNCHANGED <<accounts, req, found, plan, answer, touched>>
    BY <1>0, <1>7 DEF WriteRows, TypeOK
  <2> QED BY <1>0, <2>1 DEF Routed, Stands, Places, Planned
<1>8. CASE ClearRows(c)
  <2>1. /\ pc[c] = "rows" /\ pc'[c] = "commit" /\ req[c].op = "put_domains"
        /\ UNCHANGED <<accounts, req, found, plan, answer, touched>>
    BY <1>0, <1>8 DEF ClearRows, TypeOK
  <2> QED BY <1>0, <2>1 DEF Routed, Stands, Places, Planned
<1>9. CASE QueryDomain(c)
  <2>1. /\ pc[c] = "query_domain" /\ UNCHANGED <<accounts, req, found, answer, touched>>
    BY <1>0, <1>9 DEF QueryDomain, TypeOK, stores
  <2>2. req[c].op \in {"create", "delete"}
    BY <1>0, <2>1, PlaceFacts DEF Routed
  <2>3. CASE req[c].op = "create"
    <3>1. pc'[c] = "write" /\ plan'[c].kind = "create"
      BY <1>0, <1>9, <2>3 DEF QueryDomain, TypeOK
    <3> QED BY <1>0, <2>1, <2>3, <3>1 DEF Routed, Stands, Places
  <2>4. CASE req[c].op = "delete"
    <3>1. pc'[c] = "query_account" /\ plan'[c] = plan[c]
      BY <1>0, <1>9, <2>4 DEF QueryDomain, TypeOK
    <3> QED BY <1>0, <2>1, <2>4, <3>1 DEF Routed, Stands, Places, Planned
  <2> QED BY <2>2, <2>3, <2>4
<1>10. CASE FindForDelete(c)
  <2>1. /\ pc[c] = "query_account" /\ pc'[c] = "write"
        /\ UNCHANGED <<accounts, req, found, answer, touched>>
    BY <1>0, <1>10 DEF FindForDelete, TypeOK, stores
  <2>2. req[c].op = "delete"
    BY <1>0, <2>1, PlaceFacts DEF Routed
  <2>3. PICK a \in QueryAccount(req[c].name) : plan'[c] = [kind |-> "destroy", id |-> a.id]
    BY <1>0, <1>10 DEF FindForDelete, TypeOK
  <2>4. ASSUME NEW b \in FindByType(accounts, "User", req[c].name) PROVE a = b
    BY DEF FindByType, QueryAccount, Identity
  <2> QED BY <1>0, <2>1, <2>2, <2>3, <2>4 DEF Routed, Stands, Places, Planned, Settled
<1>11. CASE \/ NotListed(c) \/ LoseRowsAnswer(c) \/ CommitRows(c) \/ Rollback(c)
            \/ GoneBeforeDelete(c) \/ Settle(c) \/ Write(c) \/ WriteRefused(c) \/ Fail(c) \/ Abandon(c)
  BY <1>0, <1>1, <1>11 DEF NotListed, LoseRowsAnswer, CommitRows, Rollback, GoneBeforeDelete,
       Settle, Write, WriteRefused, Fail, Abandon, Answer, TypeOK
<1> QED BY <1>2, <1>3, <1>4, <1>5, <1>6, <1>7, <1>8, <1>9, <1>10, <1>11 DEF Step

\* Nothing is in progress at the start.
LEMMA AnswersInit ==
  ASSUME RowsOwnedAtStart
  PROVE  Init => AnswersInv
<1> SUFFICES ASSUME Init PROVE AnswersInv
  OBVIOUS
<1>1. Answering
  BY DEF Init, Answering, Routed, Stands
<1> QED BY <1>1, RowsOwnedAtStart, RowsInit, GrantInit, DecisionInit DEF AnswersInv

\* Every step leaves every call standing.
LEMMA AnswersStep ==
  AnswersInv /\ GrantsAndDeletesApart /\ GrantsAlone /\ [Next]_vars => AnswersInv'
<1> SUFFICES ASSUME AnswersInv, [Next]_vars, NEW d \in Calls
             PROVE  Routed(d)' /\ Stands(d)'
  BY RowsStep, GrantStep, DecisionStep DEF AnswersInv, Answering
<1>0. AimInv /\ TypeOK /\ Routed(d) /\ Stands(d)
  BY DEF AnswersInv, Answering, RowsInv, AimInv
<1>1. CASE UNCHANGED vars
  BY <1>0, <1>1, StandsQuiet DEF vars, Stays
<1>2. ASSUME NEW c \in Calls, Begin(c) \/ Reject(c) \/ Step(c), c # d
      PROVE  Routed(d)' /\ Stands(d)'
  <2>1. Stays(d)
    BY <1>0, <1>2, OthersStay
  <2>2. CASE Write(c)
    <3>1. plan[c] \in AccountWrite /\ Commit(plan[c], Calls \ {c})
      BY <2>2 DEF Write, Writing
    <3>2. Waiting(plan[c])
      BY DEF Waiting
    <3>3. Stands(d)'
      BY <1>2, <2>1, <3>1, <3>2, StandsWritten
    <3> QED BY <1>0, <2>1, <3>3 DEF Routed, Stays
  <2>3. CASE ~ Write(c)
    <3>1. accounts' = accounts
      BY <1>2, <2>3 DEF Begin, Reject, Step, ListAccounts, NotListed, NotListedForInsert,
           ListDomains, WriteRows, LoseRowsAnswer, ClearRows, CommitRows, Rollback, QueryDomain,
           FindForDelete, GoneBeforeDelete, Settle, WriteRefused, Fail, Abandon, stores
    <3>2. Forget(c) => touched'[d] = touched[d]
      BY <1>0, <1>2 DEF Forget, TypeOK
    <3>3. touched'[d] = touched[d]
      BY <1>2, <2>3, <3>2 DEF Begin, Reject, Step, ListAccounts, NotListed, NotListedForInsert,
           ListDomains, WriteRows, LoseRowsAnswer, ClearRows, CommitRows, Rollback, QueryDomain,
           FindForDelete, GoneBeforeDelete, Settle, WriteRefused, Fail, Abandon
    <3> QED BY <1>0, <2>1, <3>1, <3>3, StandsQuiet
  <2> QED BY <2>2, <2>3
<1>3. CASE LateWrite
  <2>1. PICK l \in late : Commit(l.write, Calls)
    BY <1>3 DEF LateWrite
  <2>2. l.write \in AccountWrite /\ Waiting(l.write)
    BY <1>0 DEF TypeOK, Waiting
  <2>3. Stays(d)
    BY <1>3 DEF LateWrite, Stays
  <2>4. Stands(d)'
    BY <2>1, <2>2, <2>3, StandsWritten
  <2> QED BY <1>0, <2>3, <2>4 DEF Routed, Stays
<1>4. CASE LateWriteLost
  BY <1>0, <1>4, StandsQuiet DEF LateWriteLost, Stays
<1> QED BY <1>1, <1>2, <1>3, <1>4, OwnStep DEF Next

-----------------------------------------------------------------------------
(* What is written is what was asked for.                                  *)

\* No address that is being removed from an account is in its list twice.
RemovedOnce ==
  \A c \in Calls, a \in accounts :
    (req[c].op = "remove" /\ a.email = req[c].name) =>
      \A x, y \in a.aliases : (x.addr = req[c].addr /\ y.addr = req[c].addr) => x = y

\* After a patch there is one account with its id, the patched one.
LEMMA PatchedStands ==
  ASSUME AimInv, NEW a \in accounts, NEW w \in PatchWrite, w.id = a.id,
         accounts' = Effect(accounts, w, nextId)
  PROVE  {b \in accounts' : b.id = a.id} = {Patched(a, w)}
<1>1. accounts \in SUBSET Account
  BY DEF AimInv, TypeOK
<1>2. w.kind \notin {"create", "destroy"}
  BY DEF PatchWrite, AliasWrite, UnaliasWrite, MemberWrite, ProfileWrite, SecretWrite,
         CredentialWrite
<1>3. accounts' = {IF b.id = w.id THEN Patched(b, w) ELSE b : b \in accounts}
  BY <1>2 DEF Effect
<1>4. Patched(a, w).id = a.id
  BY <1>1, PatchedFacts
<1>5. \A b \in accounts : b.id = a.id => b = a
  BY DEF AimInv, Identity
<1> QED BY <1>3, <1>4, <1>5

\* The write of a request that found its account, and to which nobody else wrote,
\* does what was asked for.
LEMMA WriteDoes ==
  ASSUME AnswersInv, RemovedOnce, NEW c \in Calls, NEW r, r = req[c], plan[c] \in AccountWrite,
         accounts' = Effect(accounts, plan[c], nextId), rows' = rows, pc[c] = "write",
         NEW a \in FindByType(accounts, "User", r.name), a.id = found[c], Planned(c, a),
         r.op # "create"
  PROVE  Done(r, a.id)'
<1> USE DEF AnswersInv, RowsInv
<1> DEFINE w == plan[c]
           b == Patched(a, w)
<1>1. AimInv /\ a \in accounts /\ a.email = r.name
  BY DEF FindByType
<1>2. Waiting(w)
  BY DEF Waiting
<1>3. \A name : FindByType(accounts', "Group", name) = FindByType(accounts, "Group", name)
  BY <1>1, <1>2, GroupsStay
<1>4. (w \in PatchWrite /\ w.id = a.id) => {x \in accounts' : x.id = a.id} = {b}
  BY <1>1, PatchedStands
<1>5. w # NoPlan /\ w # Noop /\ w # Refusal
  BY WriteKinds DEF NoPlan, Noop, Refusal
<1>6. r.op \in Settled => w \in PatchWrite /\ w.id = a.id /\ w \in Plans(a, r, accounts)
  <2>1. r \in Request /\ accounts \in SUBSET Account
    BY <1>1, ActiveName DEF AimInv, TypeOK
  <2> QED BY <1>1, <1>5, <2>1, PlansFacts DEF Planned
<1>7. CASE r.op = "delete"
  <2>1. w = [kind |-> "destroy", id |-> a.id]
    BY <1>7 DEF Planned
  <2>2. {x \in accounts' : x.id = a.id} = {}
    BY <2>1 DEF Effect
  <2>3. w \in DestroyWrite
    BY <1>1, <2>1 DEF DestroyWrite, AimInv, TypeOK, Account
  <2>4. rows[r.name] = {}
    BY <1>1, <1>2, <2>1, <2>3 DEF DestroysCleared, Cleared
  <2> QED BY <1>7, <2>2, <2>4 DEF Done
<1>8. CASE r.op = "insert"
  <2>1. w.kind = "alias"
    BY <1>5, <1>8, WriteKinds DEF Planned
  <2>2. w \in AliasWrite /\ w \in PatchWrite
    BY <2>1 DEF AccountWrite, PatchWrite, CreateWrite, DestroyWrite, UnaliasWrite, MemberWrite,
                ProfileWrite, SecretWrite, CredentialWrite
  <2>3. w.addr = r.addr /\ w.id = a.id
    BY <2>1, <2>2 DEF PlansAsked, DecisionInv, Decided
  <2>4. b.aliases = PutEntry(a.aliases, [key |-> w.key, addr |-> w.addr])
    BY <1>1, <2>1 DEF Patched, AimInv, TypeOK, Account
  <2>5. [key |-> w.key, addr |-> w.addr] \in b.aliases
    BY <2>4 DEF PutEntry
  <2>6. \E x \in {x \in accounts' : x.id = a.id} : \E al \in x.aliases : al.addr = r.addr
    <3> HIDE DEF b, w
    <3> QED BY <1>4, <2>2, <2>3, <2>5
  <2> QED BY <1>8, <2>6 DEF Done
<1>9. CASE r.op = "remove"
  <2>1. PICK al \in VisibleAliases(a) :
          al.addr = r.addr /\ w = [kind |-> "unalias", id |-> a.id, key |-> al.key]
    BY <1>5, <1>6, <1>9 DEF Plans, RemovePlans, Settled
  <2>2. b.aliases = {x \in a.aliases : x.key # al.key}
    BY <1>1, <2>1 DEF Patched, AimInv, TypeOK, Account
  <2>3. \A x \in b.aliases : x.addr # r.addr
    BY <1>1, <1>9, <2>1, <2>2 DEF RemovedOnce, VisibleAliases
  <2>4. \A x \in {x \in accounts' : x.id = a.id} : \A y \in VisibleAliases(x) : y.addr # r.addr
    <3> HIDE DEF b, w
    <3> QED BY <1>4, <1>6, <1>9, <2>3 DEF VisibleAliases, Settled
  <2> QED BY <1>9, <2>4 DEF Done
<1>10. CASE r.op = "password"
  <2>1. w \in PasswordPlans(a)
    BY <1>6, <1>10 DEF Plans, Settled
  <2>2. \E cr \in b.creds : cr.type = "Password"
    <3>1. CASE \A cr \in a.creds : cr.type # "Password"
      <4>1. w.kind = "credential"
        BY <2>1, <3>1 DEF PasswordPlans
      <4>2. b.creds = PutEntry(a.creds, [key |-> w.key, type |-> "Password"])
        BY <1>1, <4>1 DEF Patched, AimInv, TypeOK, Account
      <4>3. [key |-> w.key, type |-> "Password"] \in b.creds
        BY <4>2 DEF PutEntry
      <4> QED BY <4>3
    <3>2. CASE \E cr \in a.creds : cr.type = "Password"
      <4>1. w.kind = "secret"
        BY <2>1, <3>2 DEF PasswordPlans
      <4>2. b = a
        BY <4>1 DEF Patched
      <4> QED BY <3>2, <4>2
    <3> QED BY <3>1, <3>2
  <2>3. \E x \in {x \in accounts' : x.id = a.id} : \E cr \in x.creds : cr.type = "Password"
    <3> HIDE DEF b, w
    <3> QED BY <1>4, <1>6, <1>10, <2>2 DEF Settled
  <2> QED BY <1>10, <2>3 DEF Done
<1>11. CASE r.op = "update"
  <2>1. w = [kind |-> "profile", id |-> a.id, fields |-> r.fields \ {"inactive"}, quota |-> r.quota]
    BY <1>5, <1>6, <1>11 DEF Plans, UpdatePlans, Settled
  <2>2. "quota" \in r.fields => b.quota = r.quota
    BY <1>1, <2>1 DEF Patched, AimInv, TypeOK, Account
  <2>3. "quota" \in r.fields => \E x \in {x \in accounts' : x.id = a.id} : x.quota = r.quota
    <3> HIDE DEF b, w
    <3> QED BY <1>4, <1>6, <1>11, <2>2 DEF Settled
  <2> QED BY <1>11, <2>3 DEF Done
<1>12. CASE r.op = "add_group"
  <2>1. PICK g \in FindByType(accounts, "Group", r.group) :
          w = [kind |-> "join", id |-> a.id, group |-> g.id]
    BY <1>5, <1>6, <1>12 DEF Plans, AddGroupPlans, Settled
  <2>2. g.id \in b.groups
    BY <1>1, <2>1 DEF Patched, AimInv, TypeOK, Account
  <2>3. g \in FindByType(accounts', "Group", r.group)
    BY <1>3, <2>1
  <2>4. \E x \in {x \in accounts' : x.id = a.id}, h \in FindByType(accounts', "Group", r.group) :
          h.id \in x.groups
    <3> HIDE DEF b, w
    <3> QED BY <1>4, <1>6, <1>12, <2>2, <2>3 DEF Settled
  <2> QED BY <1>12, <2>4 DEF Done
<1>13. CASE r.op = "remove_group"
  <2>1. PICK g \in FindByType(accounts, "Group", r.group) :
          w = [kind |-> "leave", id |-> a.id, group |-> g.id]
    BY <1>5, <1>6, <1>13 DEF Plans, RemoveGroupPlans, Settled
  <2>2. g.id \notin b.groups
    BY <1>1, <2>1 DEF Patched, AimInv, TypeOK, Account
  <2>3. \A h \in FindByType(accounts', "Group", r.group) : h = g
    BY <1>1, <1>3, <2>1 DEF FindByType, AimInv, Identity
  <2>4. \A x \in {x \in accounts' : x.id = a.id}, h \in FindByType(accounts', "Group", r.group) :
          h.id \notin x.groups
    <3> HIDE DEF b, w
    <3> QED BY <1>4, <1>6, <1>13, <2>2, <2>3 DEF Settled
  <2> QED BY <1>13, <2>4 DEF Done
<1>14. r.op # "put_domains"
  BY PlaceFacts DEF Answering, Routed
<1> QED BY <1>7, <1>8, <1>9, <1>10, <1>11, <1>12, <1>13, <1>14 DEF Done

\* A write is what a call decided: it found its account, or creates one.
LEMMA WriteSucceeds ==
  ASSUME AnswersInv, RemovedOnce, NEW c \in Calls, Write(c), NEW r, r = req[c],
         NEW id, id = found[c], id \notin touched[c]
  PROVE  Done(r, id)'
<1> USE DEF AnswersInv, RowsInv
<1>1. pc[c] = "write" /\ plan[c] \in AccountWrite
  BY DEF Write, Writing
<1>2. accounts' = Effect(accounts, plan[c], nextId) /\ rows' = rows
  BY DEF Write, Commit
<1>3. CASE r.op = "create"
  <2>1. plan[c].kind = "create"
    BY <1>1, <1>3 DEF Answering, Stands
  <2>2. plan[c] \in CreateWrite /\ plan[c].email = r.name
    BY <1>1, <2>1, WriteKinds DEF PlansAsked, AccountWrite, PatchWrite, AliasWrite, UnaliasWrite,
       MemberWrite, ProfileWrite, SecretWrite, CredentialWrite, DestroyWrite
  <2>3. NewAccount(nextId, plan[c]) \in accounts'
    BY <1>2, <2>1 DEF Effect
  <2>4. NewAccount(nextId, plan[c]) \in FindByType(accounts', "User", r.name)
    BY <2>2, <2>3 DEF NewAccount, FindByType
  <2> QED BY <1>3, <2>4 DEF Done
<1>4. CASE r.op # "create"
  <2>1. plan[c] # Refusal
    BY <1>1, WriteKinds DEF Refusal
  <2>2. PICK a \in FindByType(accounts, "User", r.name) : a.id = id /\ Planned(c, a)
    BY <1>1, <1>4, <2>1 DEF Answering, Stands
  <2> QED BY <1>1, <1>2, <1>4, <2>2, WriteDoes
<1> QED BY <1>3, <1>4

\* A request that needs no write finds done what it asks for.
LEMMA SettleSucceeds ==
  ASSUME AnswersInv, NEW c \in Calls, Settle(c), answer'[c] = "ok", NEW r, r = req[c],
         NEW id, id = found[c], id \notin touched[c]
  PROVE  Done(r, id)'
<1> USE DEF AnswersInv, RowsInv
<1>1. pc[c] = "write" /\ plan[c].kind = "noop"
  BY DEF Settle, Answer, AimInv, TypeOK
<1>2. accounts' = accounts /\ rows' = rows
  BY DEF Settle, stores
<1>3. r.op # "create" /\ plan[c] # Refusal
  BY <1>1 DEF Answering, Stands, Refusal
<1>4. PICK a \in FindByType(accounts, "User", r.name) : a.id = id /\ Planned(c, a)
  BY <1>1, <1>3 DEF Answering, Stands
<1>5. {x \in accounts : x.id = id} = {a}
  BY <1>4 DEF FindByType, AimInv, Identity
<1>6. r.op \notin {"insert", "delete"}
  BY <1>1, <1>4 DEF Planned
<1>7. r.op \in Settled => plan[c] \in Plans(a, r, accounts)
  BY <1>4 DEF Planned
<1>8. CASE r.op = "remove"
  <2>1. {al \in VisibleAliases(a) : al.addr = r.addr} = {}
    BY <1>1, <1>7, <1>8 DEF Settled, Plans, RemovePlans, Refusal
  <2> QED BY <1>2, <1>5, <1>8, <2>1 DEF Done, VisibleAliases
<1>9. CASE r.op = "password"
  BY <1>1, <1>7, <1>9 DEF Settled, Plans, PasswordPlans
<1>10. CASE r.op = "update"
  <2>1. r.fields \ {"inactive"} = {}
    BY <1>1, <1>7, <1>10 DEF Settled, Plans, UpdatePlans
  <2> QED BY <1>10, <2>1 DEF Done
<1>11. CASE r.op = "add_group"
  <2>1. PICK g \in FindByType(accounts, "Group", r.group) : g.id \in a.groups
    BY <1>1, <1>7, <1>11 DEF Settled, Plans, AddGroupPlans, Refusal
  <2> QED BY <1>2, <1>5, <1>11, <2>1 DEF Done, FindByType
<1>12. CASE r.op = "remove_group"
  BY <1>1, <1>7, <1>12 DEF Settled, Plans, RemoveGroupPlans, Refusal
<1>13. r.op # "put_domains"
  BY <1>1, PlaceFacts DEF Answering, Routed
<1> QED BY <1>3, <1>6, <1>8, <1>9, <1>10, <1>11, <1>12, <1>13 DEF Done

\* A success answer is true of the account the request found, if nobody else
\* has written to it since: created, deleted with its rights, the alias there or
\* gone, the password set, the group joined or left, the domains replaced.
\* Provided that nobody grants domains to a name that is being deleted, that two
\* grants to one name do not overlap, and that no address that is being removed
\* is listed twice: DeleteEmail clears one entry that has it and no other.
THEOREM SuccessIsTrue ==
  ASSUME RowsOwnedAtStart
  PROVE  Spec /\ []GrantsAndDeletesApart /\ []GrantsAlone /\ []RemovedOnce => OkMeansDone
<1> DEFINE A == \A c \in Calls : \A r \in {req[c]}, id \in {found[c]} :
                  (pc[c] # "idle" /\ answer'[c] = "ok" /\ id \notin touched[c]) => Done(r, id)'
<1>1. AnswersInv /\ RemovedOnce /\ [Next]_vars => [A]_vars
  <2> SUFFICES ASSUME AnswersInv, RemovedOnce, [Next]_vars, NEW c \in Calls,
                      NEW r \in {req[c]}, NEW id \in {found[c]},
                      pc[c] # "idle", answer'[c] = "ok", id \notin touched[c]
               PROVE  Done(r, id)'
    OBVIOUS
  <2>0. r = req[c] /\ id = found[c]
    OBVIOUS
  <2>1. TypeOK /\ Routed(c) /\ Stands(c) /\ answer[c] = "none"
    BY DEF AnswersInv, RowsInv, AimInv, Answering, Routed
  <2>2. Step(c)
    <3>1. \A d \in Calls : Begin(d) \/ Reject(d) \/ Step(d) => d = c
      <4>1. ASSUME NEW d \in Calls, Begin(d) \/ Reject(d) \/ Step(d), d # c PROVE Stays(c)
        BY <2>1, <4>1, OthersStay
      <4> QED BY <2>1, <4>1 DEF Stays
    <3>2. ~ LateWrite /\ ~ LateWriteLost /\ ~ UNCHANGED vars
      BY <2>1 DEF LateWrite, LateWriteLost, vars
    <3>3. ~ Begin(c) /\ ~ Reject(c)
      BY DEF Begin, Reject
    <3> QED BY <3>1, <3>2, <3>3 DEF Next
  <2>3. ASSUME NEW result, Answer(c, result) PROVE result = "ok"
    BY <2>1, <2>3 DEF Answer, TypeOK
  <2>4. CASE Write(c)
    BY <2>0, <2>4, WriteSucceeds
  <2>5. CASE Settle(c)
    BY <2>0, <2>5, SettleSucceeds
  <2>6. CASE CommitRows(c)
    <3>1. pc[c] = "commit" /\ rows' = RowsAfter(r, rows[r.name] \ clearing[c])
      BY <2>0, <2>6 DEF CommitRows
    <3>2. r.op = "put_domains" /\ rows[r.name] \ clearing[c] = {}
      BY <2>0, <3>1 DEF AnswersInv, GrantInv, SeesAll
    <3>3. rows \in [Address -> SUBSET Domain] /\ r.name \in Address
      BY <2>0, <2>1, ActiveName DEF TypeOK
    <3>4. rows'[r.name] = r.domains
      BY <3>1, <3>2, <3>3 DEF RowsAfter
    <3> QED BY <3>2, <3>4 DEF Done
  <2>7. CASE GoneBeforeDelete(c)
    <3>1. pc[c] = "query_account" /\ QueryAccount(r.name) = {}
      BY <2>0, <2>7 DEF GoneBeforeDelete
    <3>2. r.op = "delete"
      BY <2>0, <2>1, <3>1, PlaceFacts DEF Routed
    <3>3. PICK a \in FindByType(accounts, "User", r.name) : a.id = id
      BY <2>0, <2>1, <3>1, <3>2 DEF Stands
    <3> QED BY <3>1, <3>3 DEF FindByType, QueryAccount
  <2>8. CASE \/ NotListed(c) \/ LoseRowsAnswer(c) \/ Rollback(c) \/ WriteRefused(c) \/ Fail(c)
             \/ Abandon(c)
    BY <2>3, <2>8 DEF NotListed, LoseRowsAnswer, Rollback, WriteRefused, Fail, Abandon
  <2>9. CASE \/ ListAccounts(c) \/ NotListedForInsert(c) \/ ListDomains(c) \/ WriteRows(c)
             \/ ClearRows(c) \/ QueryDomain(c) \/ FindForDelete(c)
    BY <2>1, <2>9 DEF ListAccounts, NotListedForInsert, ListDomains, WriteRows, ClearRows,
         QueryDomain, FindForDelete
  <2> QED BY <2>2, <2>4, <2>5, <2>6, <2>7, <2>8, <2>9 DEF Step
<1>2. Init => AnswersInv
  BY RowsOwnedAtStart, AnswersInit
<1> QED BY <1>1, <1>2, AnswersStep, PTL DEF Spec, OkMeansDone

-----------------------------------------------------------------------------
(* No address is listed twice, if no insert is made again while it, or a   *)
(* write it has given up, is under way: the second may have chosen another *)
(* key when the list has changed in between.                               *)

\* Call c, or the late write l, is to add addr to the account called name.
AddsNow(c, name, addr) == req[c].op = "insert" /\ req[c].name = name /\ req[c].addr = addr
AddsLate(l, name, addr) == l.write \in AliasWrite /\ l.name = name /\ l.write.addr = addr

InsertsOnce ==
  \A name, addr \in Address :
    /\ \A c, d \in Calls : AddsNow(c, name, addr) /\ AddsNow(d, name, addr) => c = d
    /\ \A l, m \in late : AddsLate(l, name, addr) /\ AddsLate(m, name, addr) => l = m
    /\ \A c \in Calls, l \in late : ~ (AddsNow(c, name, addr) /\ AddsLate(l, name, addr))

ListedOnce(a) == \A x, y \in a.aliases : x.addr = y.addr => x = y

ListedOnceAtStart == \A a \in InitAccounts : ListedOnce(a)

\* The address that write w is to add is not in the list of account a.
Unlisted(w, a) == \A al \in a.aliases : al.addr # w.addr

OnceInv ==
  /\ RowsInv
  /\ \A a \in accounts : ListedOnce(a)
  /\ \A w \in AliasWrite : Waiting(w) => \A a \in accounts : a.id = w.id => Unlisted(w, a)

\* An alias that a call decides to add is not in the account's list.
LEMMA DecidedUnlisted ==
  ASSUME AimInv, NEW c \in Calls, Decides(c) \/ Replaces(c), plan'[c] \in AliasWrite,
         NEW a \in accounts, a.id = plan'[c].id
  PROVE  Unlisted(plan'[c], a)
<1>1. plan'[c].kind = "alias"
  BY DEF AliasWrite
<1>2. ~ Replaces(c)
  <2>1. ASSUME plan'[c] = [kind |-> "create", email |-> req[c].name, quota |-> req[c].quota]
        PROVE  FALSE
    BY <1>1, <2>1
  <2>2. ASSUME NEW x \in QueryAccount(req[c].name), plan'[c] = [kind |-> "destroy", id |-> x.id]
        PROVE  FALSE
    BY <1>1, <2>2
  <2> QED BY <2>1, <2>2 DEF Replaces
<1>3. Decides(c)
  BY <1>2
<1>4. PICK b \in FindByType(accounts, "User", req[c].name) : plan'[c] \in Plans(b, req[c], accounts)
  BY <1>3 DEF Decides
<1>5. plan'[c] \in InsertPlans(b, req[c], accounts)
  BY <1>1, <1>4, PlanTellsRequest
<1>6. /\ req[c].addr.domain \in Hosted /\ Owners(accounts, req[c].addr) = {}
      /\ plan'[c].addr = req[c].addr
  BY <1>1, <1>5 DEF InsertPlans, Refusal
<1> QED BY <1>6 DEF Unlisted, Owners, VisibleAliases

\* What adds an alias is under way for the account it is added to.
LEMMA AddsAre ==
  ASSUME RowsInv, NEW a \in accounts, NEW w \in AliasWrite, w.id = a.id
  PROVE  /\ \A c \in Calls : plan[c] = w => AddsNow(c, a.email, w.addr)
         /\ \A l \in late : l.write = w => AddsLate(l, a.email, w.addr)
         /\ a.email \in Address /\ w.addr \in Address
<1>1. w \in AccountWrite /\ w.kind # "create"
  BY DEF AliasWrite, AccountWrite, PatchWrite
<1> QED BY <1>1 DEF RowsInv, AimInv, TypeOK, CallsAimed, LateAimed, Aimed, PlansAsked, AddsNow,
                    AddsLate, Account, AliasWrite

\* A write that is carried out lists nothing twice, and leaves unlisted what the
\* other writes that wait are to add.
LEMMA CarriedOnce ==
  ASSUME OnceInv, NEW v \in AccountWrite, Waiting(v), accounts' = Effect(accounts, v, nextId),
         NEW b \in accounts'
  PROVE  /\ ListedOnce(b)
         /\ \A w \in AliasWrite :
              (Waiting(w) /\ w.id = b.id) =>
                \/ Unlisted(w, b)
                \/ v \in AliasWrite /\ v.id = w.id /\ v.addr = w.addr
                     /\ \E a \in accounts : a.id = w.id
<1> USE DEF OnceInv, RowsInv
<1>1. accounts \in SUBSET Account /\ nextId \in Nat
  BY DEF AimInv, TypeOK
<1>2. CASE b \in accounts
  BY <1>2
<1>3. CASE v \in CreateWrite /\ b = NewAccount(nextId, v)
  BY <1>3 DEF NewAccount, ListedOnce, Unlisted
<1>4. ASSUME v \in PatchWrite, NEW a \in accounts, a.id = v.id, b = Patched(a, v)
      PROVE  /\ ListedOnce(b)
             /\ \A w \in AliasWrite :
                  (Waiting(w) /\ w.id = b.id) =>
                    \/ Unlisted(w, b)
                    \/ v \in AliasWrite /\ v.id = w.id /\ v.addr = w.addr
                         /\ \E x \in accounts : x.id = w.id
  <2>1. b.id = a.id
    BY <1>1, <1>4, PatchedFacts
  <2>2. CASE v \in AliasWrite
    <3>1. v.kind = "alias"
      BY <2>2 DEF AliasWrite
    <3>2. b.aliases = PutEntry(a.aliases, [key |-> v.key, addr |-> v.addr])
      BY <1>1, <1>4, <3>1 DEF Patched, Account
    <3>3. \A al \in b.aliases : al \in a.aliases \/ al = [key |-> v.key, addr |-> v.addr]
      BY <3>2 DEF PutEntry
    <3>4. Unlisted(v, a)
      BY <1>4, <2>2
    <3>5. ListedOnce(b)
      BY <3>3, <3>4 DEF ListedOnce, Unlisted
    <3>6. ASSUME NEW w \in AliasWrite, Waiting(w), w.id = b.id
          PROVE  Unlisted(w, b) \/ v.addr = w.addr
      <4>1. Unlisted(w, a)
        BY <2>1, <3>6
      <4> QED BY <3>3, <4>1 DEF Unlisted
    <3> QED BY <1>4, <2>1, <2>2, <3>5, <3>6
  <2>3. CASE v \notin AliasWrite
    <3>1. b.aliases \subseteq a.aliases
      <4>1. v.kind # "alias"
        BY <1>4, <2>3 DEF PatchWrite, UnaliasWrite, MemberWrite, ProfileWrite, SecretWrite,
                          CredentialWrite
      <4> QED BY <1>1, <1>4, <4>1 DEF Patched, Account
    <3> QED BY <2>1, <3>1 DEF ListedOnce, Unlisted
  <2> QED BY <2>2, <2>3
<1> QED BY <1>1, <1>2, <1>3, <1>4, EffectOrigin

\* Only a write changes the directory.
LEMMA WhatWrites ==
  ASSUME [Next]_vars, accounts' # accounts
  PROVE  LateWrite \/ \E c \in Calls : Write(c)
<1>1. ASSUME NEW c \in Calls, Begin(c) \/ Reject(c) \/ Step(c), ~ Write(c)
      PROVE  accounts' = accounts
  BY <1>1 DEF Begin, Reject, Step, ListAccounts, NotListed, NotListedForInsert, ListDomains,
     WriteRows, LoseRowsAnswer, ClearRows, CommitRows, Rollback, QueryDomain, FindForDelete,
     GoneBeforeDelete, Settle, WriteRefused, Fail, Abandon, stores
<1> QED BY <1>1 DEF Next, vars, LateWriteLost

\* No step lists an address twice, or makes a write that waits do so.
LEMMA OnceStep ==
  OnceInv /\ GrantsAndDeletesApart /\ InsertsOnce /\ [Next]_vars => OnceInv'
<1> SUFFICES ASSUME OnceInv, InsertsOnce, [Next]_vars
             PROVE  /\ \A b \in accounts' : ListedOnce(b)
                    /\ \A w \in AliasWrite :
                         Waiting(w)' => \A b \in accounts' : b.id = w.id => Unlisted(w, b)
  BY RowsStep DEF OnceInv, ListedOnce, Unlisted
<1>0. RowsInv /\ AimInv /\ TypeOK
  BY DEF OnceInv, RowsInv, AimInv
<1>1. CASE accounts' = accounts
  <2>1. ASSUME NEW w \in AliasWrite, Waiting(w)', NEW b \in accounts, b.id = w.id
        PROVE  Unlisted(w, b)
    <3>1. w \in AccountWrite
      BY DEF AliasWrite, AccountWrite, PatchWrite
    <3>2. Waiting(w) \/ \E c \in Calls : (Decides(c) \/ Replaces(c)) /\ plan'[c] = w
      BY <1>0, <2>1, <3>1, WaitingSteps
    <3> QED BY <1>0, <2>1, <3>2, DecidedUnlisted DEF OnceInv
  <2> QED BY <1>1, <2>1 DEF OnceInv
<1>2. ASSUME NEW c \in Calls, Write(c)
      PROVE  /\ \A b \in accounts' : ListedOnce(b)
             /\ \A w \in AliasWrite :
                  Waiting(w)' => \A b \in accounts' : b.id = w.id => Unlisted(w, b)
  <2>1. plan[c] \in AccountWrite /\ Waiting(plan[c]) /\ accounts' = Effect(accounts, plan[c], nextId)
    BY <1>2 DEF Write, Writing, Commit, Waiting
  <2>2. ASSUME NEW w \in AliasWrite, Waiting(w)', NEW b \in accounts', b.id = w.id
        PROVE  Unlisted(w, b)
    <3>1. (\E d \in Calls \ {c} : plan[d] = w) \/ (\E l \in late : l.write = w)
      BY <1>0, <1>2, <2>2 DEF Waiting, Write, Answer, TypeOK, AliasWrite, NoPlan
    <3>2. Waiting(w)
      BY <3>1 DEF Waiting
    <3>3. ASSUME plan[c] \in AliasWrite, plan[c].id = w.id, plan[c].addr = w.addr,
                 NEW a \in accounts, a.id = w.id
          PROVE  FALSE
      <4>1. AddsNow(c, a.email, w.addr) /\ a.email \in Address /\ w.addr \in Address
        BY <1>0, <3>3, AddsAre
      <4>2. (\E d \in Calls \ {c} : AddsNow(d, a.email, w.addr))
              \/ \E l \in late : AddsLate(l, a.email, w.addr)
        BY <1>0, <3>1, <3>3, AddsAre
      <4> QED BY <4>1, <4>2 DEF InsertsOnce
    <3> QED BY <2>1, <2>2, <3>2, <3>3, CarriedOnce
  <2> QED BY <2>1, <2>2, CarriedOnce
<1>3. CASE LateWrite
  <2>1. PICK l \in late : Commit(l.write, Calls) /\ late' = late \ {l}
    BY <1>3 DEF LateWrite
  <2>2. /\ l.write \in AccountWrite /\ Waiting(l.write)
        /\ accounts' = Effect(accounts, l.write, nextId)
    BY <1>0, <2>1 DEF TypeOK, Commit, Waiting
  <2>3. ASSUME NEW w \in AliasWrite, Waiting(w)', NEW b \in accounts', b.id = w.id
        PROVE  Unlisted(w, b)
    <3>1. (\E d \in Calls : plan[d] = w) \/ (\E m \in late \ {l} : m.write = w)
      BY <1>3, <2>1, <2>3 DEF Waiting, LateWrite
    <3>2. Waiting(w)
      BY <3>1 DEF Waiting
    <3>3. ASSUME l.write \in AliasWrite, l.write.id = w.id, l.write.addr = w.addr,
                 NEW a \in accounts, a.id = w.id
          PROVE  FALSE
      <4>1. AddsLate(l, a.email, w.addr) /\ a.email \in Address /\ w.addr \in Address
        BY <1>0, <3>3, AddsAre
      <4>2. (\E d \in Calls : AddsNow(d, a.email, w.addr))
              \/ \E m \in late \ {l} : AddsLate(m, a.email, w.addr)
        BY <1>0, <3>1, <3>3, AddsAre
      <4> QED BY <4>1, <4>2 DEF InsertsOnce
    <3> QED BY <2>2, <2>3, <3>2, <3>3, CarriedOnce
  <2> QED BY <2>2, <2>3, CarriedOnce
<1> QED BY <1>1, <1>2, <1>3, WhatWrites

\* The list that DeleteEmail takes one entry from has no other with the address.
LEMMA AliasesListedOnce ==
  ASSUME RowsOwnedAtStart, ListedOnceAtStart
  PROVE  Spec /\ []GrantsAndDeletesApart /\ []InsertsOnce => []RemovedOnce
<1>1. Init => OnceInv
  BY RowsOwnedAtStart, ListedOnceAtStart, RowsInit
     DEF Init, OnceInv, ListedOnceAtStart, Waiting, AliasWrite, NoPlan
<1>2. OnceInv => RemovedOnce
  BY DEF OnceInv, RemovedOnce, ListedOnce
<1> QED BY <1>1, <1>2, OnceStep, PTL DEF Spec

\* The same from what clients do alone: a success answer is true as long as
\* nobody grants domains to a name being deleted, grants to one name do not
\* overlap, and no insert is repeated while it may still be carried out.
COROLLARY SuccessWithoutRepeats ==
  ASSUME RowsOwnedAtStart, ListedOnceAtStart
  PROVE  Spec /\ []GrantsAndDeletesApart /\ []GrantsAlone /\ []InsertsOnce => OkMeansDone
  BY RowsOwnedAtStart, SuccessIsTrue, ListedOnceAtStart, AliasesListedOnce, PTL
=============================================================================
