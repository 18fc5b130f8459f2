---------------------- MODULE DirectoryRefinement_proof ----------------------
(***************************************************************************)
(* Directory implements DirectoryAbs, for every number of calls and late   *)
(* writes, every directory at the start and every set of requests, as long *)
(* as what overlaps is compatible: each step changes the directory and the *)
(* domain rights as one of the promised changes does, or shows no change.  *)
(***************************************************************************)
EXTENDS DirectoryRefinement, DirectoryWrites_proof

-----------------------------------------------------------------------------
(* What overlaps without one undoing what another decided.                 *)

\* The alias addr is being added to the account called name.
Adding(name, addr) ==
  \/ \E c \in Calls : req[c].op = "insert" /\ req[c].name = name /\ req[c].addr = addr
  \/ \E l \in late : l.write \in AliasWrite /\ l.name = name /\ l.write.addr = addr

\* An account is being created at addr.
Creating(addr) ==
  \/ \E c \in Calls : req[c].op = "create" /\ req[c].name = addr
  \/ \E l \in late : l.write \in CreateWrite /\ l.write.email = addr

\* At any time one address at most is being added to an account, and one account
\* at most is being given an address; the same insert may be made many times.
InsertsApart ==
  \A m, n, x, y \in Address : (Adding(m, x) /\ Adding(n, y)) => (m = n <=> x = y)

\* No account is being created at an address that is being added as an alias.
CreatesElsewhere == \A n, x \in Address : Adding(n, x) => ~ Creating(x)

Compatible == InsertsApart /\ CreatesElsewhere /\ GrantsAndDeletesApart

\* Stalwart's lists are keyed, and only users administer domains.
SoundStart ==
  /\ \A a \in InitAccounts : Keyed(a.aliases) /\ Keyed(a.creds)
  /\ RowsOwnedAtStart

-----------------------------------------------------------------------------
(* What is true of the writes that wait.                                   *)

\* Account a receives mail for addr.
Holds(a, addr) == a.email = addr \/ \E al \in a.aliases : al.addr = addr

ListsKeyed == \A a \in accounts : Keyed(a.aliases) /\ Keyed(a.creds)

\* The alias in write w fits account a: nobody else has the address, and under
\* the key there is nothing else.
AliasFits(w, a) ==
  /\ a.email # w.addr
  /\ \A al \in a.aliases : al.key = w.key => al.addr = w.addr
  /\ \A b \in accounts : Holds(b, w.addr) => b = a

AliasesFit ==
  \A w \in AliasWrite : Waiting(w) =>
    /\ w.addr.domain \in Hosted
    /\ \A a \in accounts : a.id = w.id => AliasFits(w, a)

\* What a write removes is on a hosted domain.
UnaliasesFit ==
  \A w \in UnaliasWrite : Waiting(w) =>
    \A a \in accounts : a.id = w.id =>
      \A al \in a.aliases : al.key = w.key => al.addr.domain \in Hosted

\* What a write joins is a group: groups are not deleted.
JoinsFit ==
  \A w \in MemberWrite : (w.kind = "join" /\ Waiting(w)) =>
    \E g \in accounts : g.id = w.group /\ g.type = "Group"

CreatesFit == \A w \in CreateWrite : Waiting(w) => w.email.domain \in Hosted

PromiseInv ==
  RowsInv /\ CredentialsFit /\ ListsKeyed /\ AliasesFit /\ UnaliasesFit /\ JoinsFit /\ CreatesFit

-----------------------------------------------------------------------------
(* What is decided fits.                                                   *)

\* Where a decided write comes from.
LEMMA DecidedFrom ==
  ASSUME AimInv, NEW c \in Calls, Decides(c), plan'[c] \in AccountWrite
  PROVE  \E a \in accounts :
           /\ a.id = plan'[c].id /\ a.email = req[c].name /\ a.type = "User" /\ a \in Account
           /\ \A b \in accounts : b.id = plan'[c].id => b = a
           /\ plan'[c] \in Plans(a, req[c], accounts)
<1>1. PICK a \in FindByType(accounts, "User", req[c].name) : plan'[c] \in Plans(a, req[c], accounts)
  BY DEF Decides
<1>2. a \in accounts /\ a.email = req[c].name /\ a.type = "User"
  BY DEF FindByType
<1>3. accounts \in SUBSET Account /\ req[c] \in Request
  BY DirectoryAssumption DEF Decides, AimInv, TypeOK
<1>4. NoPlan \notin AccountWrite /\ Noop \notin AccountWrite /\ Refusal \notin AccountWrite
  BY WriteKinds DEF NoPlan, Noop, Refusal
<1>5. plan'[c].id = a.id
  BY <1>1, <1>2, <1>3, <1>4, PlansFacts
<1> QED BY <1>1, <1>2, <1>3, <1>5 DEF AimInv, Identity

LEMMA DecidedAliasFits ==
  ASSUME PromiseInv, NEW c \in Calls, Decides(c), plan'[c] \in AliasWrite
  PROVE  /\ plan'[c].addr.domain \in Hosted
         /\ \A a \in accounts : a.id = plan'[c].id => AliasFits(plan'[c], a)
<1>1. plan'[c] \in AccountWrite /\ plan'[c].kind = "alias" /\ plan'[c].addr \in Address
  BY DEF AliasWrite, AccountWrite, PatchWrite
<1>2. PICK a \in accounts :
        /\ a.id = plan'[c].id /\ a.email = req[c].name /\ a \in Account
        /\ \A b \in accounts : b.id = plan'[c].id => b = a
        /\ plan'[c] \in Plans(a, req[c], accounts)
  BY <1>1, DecidedFrom DEF PromiseInv, RowsInv
<1>3. req[c].op = "insert" /\ plan'[c] \in InsertPlans(a, req[c], accounts)
  BY <1>1, <1>2, PlanTellsRequest
<1>4. plan'[c] # Refusal
  BY <1>1 DEF Refusal
<1>5. /\ req[c].addr.domain \in Hosted /\ Owners(accounts, req[c].addr) = {}
      /\ plan'[c].addr = req[c].addr /\ plan'[c].key \in NextListKey(KeysOf(a.aliases))
  BY <1>3, <1>4 DEF InsertPlans
<1>6. \A b \in accounts : ~ Holds(b, plan'[c].addr)
  BY <1>5 DEF Owners, VisibleAliases, Holds
<1>7. ASSUME NEW al \in a.aliases PROVE al.key # plan'[c].key
  <2>1. al.key \in Nat /\ al.key \in KeysOf(a.aliases)
    BY <1>2 DEF KeysOf, Account, Alias
  <2> QED BY <1>5, <2>1 DEF NextListKey
<1>8. AliasFits(plan'[c], a)
  BY <1>6, <1>7 DEF AliasFits, Holds
<1> QED BY <1>2, <1>5, <1>8

LEMMA DecidedUnaliasFits ==
  ASSUME PromiseInv, NEW c \in Calls, Decides(c), plan'[c] \in UnaliasWrite
  PROVE  \A a \in accounts : a.id = plan'[c].id =>
           \A al \in a.aliases : al.key = plan'[c].key => al.addr.domain \in Hosted
<1>1. plan'[c] \in AccountWrite /\ plan'[c].kind = "unalias"
  BY DEF UnaliasWrite, AccountWrite, PatchWrite
<1>2. PICK a \in accounts :
        /\ \A b \in accounts : b.id = plan'[c].id => b = a
        /\ plan'[c] \in Plans(a, req[c], accounts)
  BY <1>1, DecidedFrom DEF PromiseInv, RowsInv
<1>3. plan'[c] \in RemovePlans(a, req[c])
  BY <1>1, <1>2, PlanTellsRequest
<1>4. PICK held \in VisibleAliases(a) : plan'[c] = [kind |-> "unalias", id |-> a.id, key |-> held.key]
  BY <1>1, <1>3 DEF RemovePlans, Refusal, Noop
<1>5. held \in a.aliases /\ held.addr.domain \in Hosted /\ plan'[c].key = held.key
  BY <1>4 DEF VisibleAliases
<1>6. \A al \in a.aliases : al.key = plan'[c].key => al = held
  BY <1>5 DEF PromiseInv, ListsKeyed, Keyed
<1> QED BY <1>2, <1>5, <1>6

LEMMA DecidedJoinFits ==
  ASSUME PromiseInv, NEW c \in Calls, Decides(c), plan'[c] \in AccountWrite,
         plan'[c].kind = "join"
  PROVE  \E g \in accounts : g.id = plan'[c].group /\ g.type = "Group"
<1>1. PICK a \in accounts : plan'[c] \in Plans(a, req[c], accounts)
  BY DecidedFrom DEF PromiseInv, RowsInv
<1>2. plan'[c] \in AddGroupPlans(a, req[c], accounts)
  BY <1>1, PlanTellsRequest
<1>3. plan'[c] # Noop /\ plan'[c] # Refusal
  BY DEF Noop, Refusal
<1>4. PICK g \in FindByType(accounts, "Group", req[c].group) :
        plan'[c] = [kind |-> "join", id |-> a.id, group |-> g.id]
  BY <1>2, <1>3 DEF AddGroupPlans
<1> QED BY <1>4 DEF FindByType

\* An account is created at a hosted address.
LEMMA TakenCreateFits ==
  ASSUME PromiseInv, NEW c \in Calls, Decides(c) \/ Replaces(c), plan'[c] \in CreateWrite
  PROVE  plan'[c].email.domain \in Hosted
<1>1. plan'[c].kind = "create" /\ plan'[c] \in AccountWrite
  BY DEF CreateWrite, AccountWrite
<1>2. ~ Decides(c)
  BY <1>1, PlanTellsRequest DEF Decides
<1>3. Replaces(c)
  BY <1>2
<1>4. \A a \in QueryAccount(req[c].name) : plan'[c] # [kind |-> "destroy", id |-> a.id]
  BY <1>1
<1>5. /\ req[c].name.domain \in Hosted
      /\ plan'[c] = [kind |-> "create", email |-> req[c].name, quota |-> req[c].quota]
  BY <1>3, <1>4 DEF Replaces
<1> QED BY <1>5

-----------------------------------------------------------------------------
(* What fits still fits when another write has been carried out.           *)

LEMMA PatchedAliases ==
  ASSUME NEW a \in Account, NEW v \in PatchWrite
  PROVE  \/ Patched(a, v).aliases = a.aliases
         \/ /\ v \in AliasWrite
            /\ Patched(a, v).aliases = PutEntry(a.aliases, [key |-> v.key, addr |-> v.addr])
         \/ /\ v \in UnaliasWrite
            /\ Patched(a, v).aliases = {al \in a.aliases : al.key # v.key}
<1> USE DEF Account
<1>1. CASE v \in MemberWrite \cup ProfileWrite \cup SecretWrite \cup CredentialWrite
  BY <1>1 DEF MemberWrite, ProfileWrite, SecretWrite, CredentialWrite, Patched
<1>2. CASE v \in AliasWrite
  BY <1>2 DEF AliasWrite, Patched
<1>3. CASE v \in UnaliasWrite
  BY <1>3 DEF UnaliasWrite, Patched
<1> QED BY <1>1, <1>2, <1>3 DEF PatchWrite

\* Where an account that is there after a write comes from: it is new, or it was
\* there before and got at most the alias of the write.
LEMMA AccountOrigin ==
  ASSUME AimInv, NEW v \in AccountWrite, accounts' = Effect(accounts, v, nextId),
         NEW b \in accounts'
  PROVE  \/ v \in CreateWrite /\ b = NewAccount(nextId, v) /\ b.id = nextId /\ b.email = v.email
         \/ \E a \in accounts :
              /\ a.id = b.id /\ a.email = b.email /\ a.type = b.type
              /\ \A al \in b.aliases :
                   \/ al \in a.aliases
                   \/ v \in AliasWrite /\ v.id = a.id /\ al = [key |-> v.key, addr |-> v.addr]
<1>1. accounts \in SUBSET Account /\ nextId \in Nat
  BY DEF AimInv, TypeOK
<1>2. CASE v \in CreateWrite /\ b = NewAccount(nextId, v)
  BY <1>1, <1>2, NewAccountFacts
<1>3. ASSUME NEW a \in accounts, v \in PatchWrite, a.id = v.id, b = Patched(a, v)
      PROVE  /\ a.id = b.id /\ a.email = b.email /\ a.type = b.type
             /\ \A al \in b.aliases :
                  \/ al \in a.aliases
                  \/ v \in AliasWrite /\ v.id = a.id /\ al = [key |-> v.key, addr |-> v.addr]
  <2>1. a \in Account /\ a.id = b.id /\ a.email = b.email /\ a.type = b.type
    BY <1>1, <1>3, PatchedFacts
  <2> QED BY <1>3, <2>1, PatchedAliases DEF PutEntry
<1> QED BY <1>1, <1>2, <1>3, EffectOrigin

\* A waiting write adds the alias that a request to insert it asks for, to the
\* account that the request names.
LEMMA AliasIsAsked ==
  ASSUME PromiseInv, NEW w \in AliasWrite, Waiting(w)
  PROVE  \E n \in Address : /\ Adding(n, w.addr)
                            /\ \A a \in accounts : a.id = w.id => a.email = n
<1> USE DEF PromiseInv, RowsInv, AimInv
<1>1. w \in AccountWrite /\ w.kind # "create"
  BY DEF AliasWrite, AccountWrite, PatchWrite
<1>2. ASSUME NEW c \in Calls, plan[c] = w
      PROVE  /\ req[c].name \in Address /\ Adding(req[c].name, w.addr)
             /\ \A a \in accounts : a.id = w.id => a.email = req[c].name
  <2>1. pc[c] # "idle" /\ Aimed(w, req[c].name)
    BY <1>1, <1>2 DEF CallsAimed
  <2>2. req[c].name \in Address
    BY <2>1, ActiveName
  <2>3. Adding(req[c].name, w.addr)
    BY <1>2 DEF PlansAsked, Adding
  <2> QED BY <1>1, <2>1, <2>2, <2>3 DEF Aimed
<1>3. ASSUME NEW l \in late, l.write = w
      PROVE  /\ l.name \in Address /\ Adding(l.name, w.addr)
             /\ \A a \in accounts : a.id = w.id => a.email = l.name
  BY <1>1, <1>3 DEF TypeOK, LateAimed, Aimed, Adding
<1> QED BY <1>2, <1>3 DEF Waiting

\* A waiting write creates the account that a request to create it asks for.
LEMMA CreateIsAsked ==
  ASSUME PromiseInv, NEW w \in CreateWrite, Waiting(w)
  PROVE  Creating(w.email)
<1>1. CASE \E c \in Calls : plan[c] = w
  BY <1>1 DEF PromiseInv, RowsInv, PlansAsked, Creating
<1>2. CASE \E l \in late : l.write = w
  BY <1>2 DEF Creating
<1> QED BY <1>1, <1>2 DEF Waiting

\* An alias that fits still fits after another write, since what the two are for
\* is compatible.
LEMMA AliasStillFits ==
  ASSUME Compatible, PromiseInv, Identity', NEW v \in AccountWrite, Waiting(v),
         accounts' = Effect(accounts, v, nextId), NEW w \in AliasWrite, Waiting(w),
         NEW b \in accounts', b.id = w.id
  PROVE  AliasFits(w, b)'
<1> USE DEF PromiseInv, RowsInv
<1>1. w \in AccountWrite /\ w.kind = "alias" /\ w.id \in Nat /\ w.addr \in Address
  BY DEF AliasWrite, AccountWrite, PatchWrite
<1>2. w.id < nextId /\ nextId \in Nat
  BY <1>1, WaitingIsOld DEF AimInv, TypeOK
<1>3. PICK n \in Address :
        Adding(n, w.addr) /\ \A a \in accounts : a.id = w.id => a.email = n
  BY AliasIsAsked
\* The other write, when it adds an alias too, adds the same one or adds another
\* address to another account.
<1>4. ASSUME v \in AliasWrite
      PROVE  \E m \in Address : /\ \A a \in accounts : a.id = v.id => a.email = m
                                /\ n = m <=> v.addr = w.addr
  <2>1. v.addr \in Address
    BY <1>4 DEF AliasWrite
  <2> QED BY <1>1, <1>3, <1>4, <2>1, AliasIsAsked DEF Compatible, InsertsApart
<1>5. v \in CreateWrite => v.email # w.addr
  BY <1>1, <1>3, CreateIsAsked DEF Compatible, CreatesElsewhere
<1>6. AliasFits(w, b)'
  <2>1. PICK a \in accounts :
          /\ a.id = b.id /\ a.email = b.email
          /\ \A al \in b.aliases :
               \/ al \in a.aliases
               \/ v \in AliasWrite /\ v.id = a.id /\ al = [key |-> v.key, addr |-> v.addr]
    BY <1>1, <1>2, AccountOrigin
  <2>2. AliasFits(w, a) /\ a.email = n
    BY <1>3, <2>1 DEF AliasesFit
  <2>3. ASSUME NEW al \in b.aliases, al.key = w.key PROVE al.addr = w.addr
    <3>1. CASE al \in a.aliases
      BY <2>2, <2>3, <3>1 DEF AliasFits
    <3>2. CASE v \in AliasWrite /\ v.id = a.id /\ al = [key |-> v.key, addr |-> v.addr]
      <4>1. PICK m \in Address : /\ \A x \in accounts : x.id = v.id => x.email = m
                                 /\ n = m <=> v.addr = w.addr
        BY <1>4, <3>2
      <4>2. al.addr = v.addr
        BY <3>2
      <4>3. n = m
        BY <2>2, <3>2, <4>1
      <4> QED BY <4>1, <4>2, <4>3
    <3> QED BY <2>1, <3>1, <3>2
  <2>4. ASSUME NEW d \in accounts', Holds(d, w.addr) PROVE d = b
    <3>1. CASE v \in CreateWrite /\ d = NewAccount(nextId, v) /\ d.email = v.email
      <4>1. d.aliases = {}
        BY <3>1 DEF NewAccount
      <4>2. v.email = w.addr
        BY <2>4, <3>1, <4>1 DEF Holds
      <4> QED BY <1>5, <3>1, <4>2
    <3>2. ASSUME NEW e \in accounts, e.id = d.id, e.email = d.email,
                 \A al \in d.aliases :
                   \/ al \in e.aliases
                   \/ v \in AliasWrite /\ v.id = e.id /\ al = [key |-> v.key, addr |-> v.addr]
          PROVE  d = b
      <4>1. CASE Holds(e, w.addr)
        <5>1. e = a
          BY <2>2, <4>1 DEF AliasFits
        <5> QED BY <2>1, <3>2, <5>1 DEF Identity
      <4>2. CASE ~ Holds(e, w.addr)
        <5>1. v \in AliasWrite /\ v.id = e.id /\ v.addr = w.addr
          BY <2>4, <3>2, <4>2 DEF Holds
        <5>2. \A x \in accounts : x.id = v.id => x.email = n
          BY <1>4, <5>1
        <5>3. d.email = b.email
          BY <2>1, <2>2, <3>2, <5>1, <5>2
        <5> QED BY <5>3 DEF Identity
      <4> QED BY <4>1, <4>2
    <3> QED BY <3>1, <3>2, AccountOrigin
  <2>5. b.email # w.addr
    BY <2>1, <2>2 DEF AliasFits
  <2> QED BY <2>3, <2>4, <2>5 DEF AliasFits, Holds
<1> QED BY <1>6

LEMMA ListsStayKeyed ==
  ASSUME PromiseInv, NEW v \in AccountWrite, accounts' = Effect(accounts, v, nextId)
  PROVE  ListsKeyed'
<1> SUFFICES ASSUME NEW b \in accounts' PROVE Keyed(b.aliases) /\ Keyed(b.creds)
  BY DEF ListsKeyed
<1>1. accounts \in SUBSET Account /\ nextId \in Nat
  BY DEF PromiseInv, RowsInv, AimInv, TypeOK
<1>2. CASE b = NewAccount(nextId, v)
  BY <1>2 DEF NewAccount, Keyed
<1>3. CASE b \in accounts
  BY <1>3 DEF PromiseInv, ListsKeyed
<1>4. ASSUME NEW a \in accounts, v \in PatchWrite, b = Patched(a, v)
      PROVE  Keyed(b.aliases) /\ Keyed(b.creds)
  <2>1. a \in Account /\ Keyed(a.aliases) /\ Keyed(a.creds)
    BY <1>1 DEF PromiseInv, ListsKeyed
  <2>2. ASSUME NEW list, Keyed(list), NEW e PROVE Keyed(PutEntry(list, e))
    BY <2>2 DEF Keyed, PutEntry
  <2>3. Keyed(b.aliases)
    <3>1. Keyed({al \in a.aliases : al.key # v.key})
      BY <2>1 DEF Keyed
    <3>2. \/ b.aliases = a.aliases
          \/ b.aliases = {al \in a.aliases : al.key # v.key}
          \/ \E e : b.aliases = PutEntry(a.aliases, e)
      BY <1>4, <2>1, PatchedAliases
    <3>3. CASE \E e : b.aliases = PutEntry(a.aliases, e)
      BY <2>1, <2>2, <3>3
    <3> QED BY <2>1, <3>1, <3>2, <3>3
  <2>4. Keyed(b.creds)
    BY <1>4, <2>1, <2>2, PatchedCreds
  <2> QED BY <2>3, <2>4
<1> QED BY <1>1, <1>2, <1>3, <1>4, EffectOrigin

LEMMA PromiseInvInit ==
  ASSUME SoundStart
  PROVE  Init => PromiseInv
<1> SUFFICES ASSUME Init PROVE PromiseInv
  OBVIOUS
<1>1. \A w \in AccountWrite : ~ Waiting(w)
  <2>1. NoPlan \notin AccountWrite
    BY WriteKinds DEF NoPlan
  <2> QED BY <2>1 DEF Init, Waiting
<1>2. /\ AliasWrite \subseteq AccountWrite /\ UnaliasWrite \subseteq AccountWrite
      /\ MemberWrite \subseteq AccountWrite /\ CreateWrite \subseteq AccountWrite
  BY DEF AccountWrite, PatchWrite
<1>3. ListsKeyed
  BY SoundStart DEF SoundStart, Init, ListsKeyed
<1>4. RowsInv
  BY SoundStart, RowsInit DEF SoundStart
<1> QED BY <1>1, <1>2, <1>3, <1>4, CredentialsInit
        DEF PromiseInv, AliasesFit, UnaliasesFit, JoinsFit, CreatesFit

LEMMA PromiseInvStep ==
  PromiseInv /\ Compatible /\ [Next]_vars => PromiseInv'
<1> SUFFICES ASSUME PromiseInv, Compatible, [Next]_vars PROVE PromiseInv'
  OBVIOUS
<1>1. RowsInv' /\ CredentialsFit' /\ Identity'
  <2>1. RowsInv'
    BY RowsStep DEF PromiseInv, Compatible
  <2> QED BY <2>1, CredentialsStep DEF PromiseInv, RowsInv, AimInv
<1>2. AimInv
  BY DEF PromiseInv, RowsInv
<1>3. \A w \in AliasWrite : w \in AccountWrite /\ w.kind = "alias"
  BY DEF AliasWrite, AccountWrite, PatchWrite
<1>4. \A w \in UnaliasWrite : w \in AccountWrite /\ w.kind = "unalias"
  BY DEF UnaliasWrite, AccountWrite, PatchWrite
<1>5. \A w \in MemberWrite : w \in AccountWrite
  BY DEF AccountWrite, PatchWrite
<1>6. \A w \in CreateWrite : w \in AccountWrite
  BY DEF AccountWrite
<1>7. ASSUME UNCHANGED accounts,
             \A w \in AccountWrite : Waiting(w)' =>
               \/ Waiting(w)
               \/ \E c \in Calls : (Decides(c) \/ Replaces(c)) /\ plan'[c] = w
      PROVE  ListsKeyed' /\ AliasesFit' /\ UnaliasesFit' /\ JoinsFit' /\ CreatesFit'
  <2>1. ListsKeyed'
    BY <1>7 DEF PromiseInv, ListsKeyed
  <2>2. AliasesFit'
    <3> SUFFICES ASSUME NEW w \in AliasWrite, Waiting(w)'
                 PROVE  /\ w.addr.domain \in Hosted
                        /\ \A a \in accounts : a.id = w.id => AliasFits(w, a)
      BY <1>7 DEF AliasesFit, AliasFits
    <3>1. CASE Waiting(w)
      BY <3>1 DEF PromiseInv, AliasesFit
    <3>2. ASSUME NEW c \in Calls, Decides(c) \/ Replaces(c), plan'[c] = w
          PROVE  /\ w.addr.domain \in Hosted
                 /\ \A a \in accounts : a.id = w.id => AliasFits(w, a)
      <4>1. Decides(c)
        BY <1>3, <3>2, ReplacesKind
      <4> QED BY <3>2, <4>1, DecidedAliasFits
    <3> QED BY <1>3, <1>7, <3>1, <3>2
  <2>3. UnaliasesFit'
    <3> SUFFICES ASSUME NEW w \in UnaliasWrite, Waiting(w)'
                 PROVE  \A a \in accounts : a.id = w.id =>
                          \A al \in a.aliases : al.key = w.key => al.addr.domain \in Hosted
      BY <1>7 DEF UnaliasesFit
    <3>1. CASE Waiting(w)
      BY <3>1 DEF PromiseInv, UnaliasesFit
    <3>2. ASSUME NEW c \in Calls, Decides(c) \/ Replaces(c), plan'[c] = w
          PROVE  \A a \in accounts : a.id = w.id =>
                   \A al \in a.aliases : al.key = w.key => al.addr.domain \in Hosted
      <4>1. Decides(c)
        BY <1>4, <3>2, ReplacesKind
      <4> QED BY <3>2, <4>1, DecidedUnaliasFits
    <3> QED BY <1>4, <1>7, <3>1, <3>2
  <2>4. JoinsFit'
    <3> SUFFICES ASSUME NEW w \in MemberWrite, w.kind = "join", Waiting(w)'
                 PROVE  \E g \in accounts : g.id = w.group /\ g.type = "Group"
      BY <1>7 DEF JoinsFit
    <3>1. CASE Waiting(w)
      BY <3>1 DEF PromiseInv, JoinsFit
    <3>2. ASSUME NEW c \in Calls, Decides(c) \/ Replaces(c), plan'[c] = w
          PROVE  \E g \in accounts : g.id = w.group /\ g.type = "Group"
      <4>1. Decides(c)
        BY <3>2, ReplacesKind
      <4> QED BY <1>5, <3>2, <4>1, DecidedJoinFits
    <3> QED BY <1>5, <1>7, <3>1, <3>2
  <2>5. CreatesFit'
    <3> SUFFICES ASSUME NEW w \in CreateWrite, Waiting(w)'
                 PROVE  w.email.domain \in Hosted
      BY DEF CreatesFit
    <3>1. CASE Waiting(w)
      BY <3>1 DEF PromiseInv, CreatesFit
    <3> QED BY <1>6, <1>7, <3>1, TakenCreateFits
  <2> QED BY <2>1, <2>2, <2>3, <2>4, <2>5
<1>8. ASSUME NEW v \in AccountWrite, Waiting(v), accounts' = Effect(accounts, v, nextId),
             \A w \in AccountWrite : Waiting(w)' => Waiting(w)
      PROVE  ListsKeyed' /\ AliasesFit' /\ UnaliasesFit' /\ JoinsFit' /\ CreatesFit'
  <2>1. ListsKeyed'
    BY <1>8, ListsStayKeyed
  <2>2. AliasesFit'
    <3> SUFFICES ASSUME NEW w \in AliasWrite, Waiting(w)'
                 PROVE  /\ w.addr.domain \in Hosted
                        /\ \A a \in accounts' : a.id = w.id => AliasFits(w, a)'
      BY DEF AliasesFit
    <3>1. Waiting(w)
      BY <1>3, <1>8
    <3>2. w.addr.domain \in Hosted
      BY <3>1 DEF PromiseInv, AliasesFit
    <3> QED BY <1>1, <1>8, <3>1, <3>2, AliasStillFits
  <2>3. UnaliasesFit'
    <3> SUFFICES ASSUME NEW w \in UnaliasWrite, Waiting(w)', NEW b \in accounts', b.id = w.id,
                        NEW al \in b.aliases, al.key = w.key
                 PROVE  al.addr.domain \in Hosted
      BY DEF UnaliasesFit
    <3>1. Waiting(w) /\ w.id < nextId /\ nextId \in Nat
      BY <1>2, <1>4, <1>8, WaitingIsOld DEF AimInv, TypeOK
    <3>2. PICK a \in accounts :
            /\ a.id = b.id
            /\ al \in a.aliases \/ (v \in AliasWrite /\ al = [key |-> v.key, addr |-> v.addr])
      BY <1>2, <1>8, <3>1, AccountOrigin
    <3>3. CASE al \in a.aliases
      BY <3>1, <3>2, <3>3 DEF PromiseInv, UnaliasesFit
    <3>4. CASE v \in AliasWrite /\ al.addr = v.addr
      BY <1>8, <3>4 DEF PromiseInv, AliasesFit
    <3> QED BY <3>2, <3>3, <3>4
  <2>4. JoinsFit'
    <3> SUFFICES ASSUME NEW w \in MemberWrite, w.kind = "join", Waiting(w)'
                 PROVE  \E g \in accounts' : g.id = w.group /\ g.type = "Group"
      BY DEF JoinsFit
    <3>1. PICK g \in accounts : g.id = w.group /\ g.type = "Group"
      BY <1>5, <1>8 DEF PromiseInv, JoinsFit
    <3>2. ~ (v.kind # "create" /\ g.id = v.id)
      BY <1>2, <1>8, <3>1 DEF Waiting, AimInv, CallsAimed, LateAimed, Aimed
    <3>3. g \in accounts'
      BY <1>2, <1>8, <3>2, EffectFacts DEF AimInv, TypeOK
    <3> QED BY <3>1, <3>3
  <2>5. CreatesFit'
    BY <1>6, <1>8 DEF PromiseInv, CreatesFit
  <2> QED BY <2>1, <2>2, <2>3, <2>4, <2>5
<1> QED BY <1>1, <1>2, <1>7, <1>8, WaitingSteps DEF PromiseInv

-----------------------------------------------------------------------------
(* Every write is a promised change.                                       *)

Shown == {Abstract(a) : a \in accounts}

\* A patch replaces one account, as it is shown, by the patched one.
LEMMA PatchReplaces ==
  ASSUME AimInv, NEW v \in PatchWrite, NEW a \in accounts, a.id = v.id,
         accounts' = Effect(accounts, v, nextId)
  PROVE  /\ a \in Account /\ Abstract(a) \in Shown
         /\ Promise!Replace(Abstract(a), Abstract(Patched(a, v)))
<1>1. a \in Account /\ \A b \in accounts : b.id = v.id => b = a
  BY DEF AimInv, TypeOK, Identity
<1>2. v \in AccountWrite /\ v.kind \notin {"create", "destroy"}
  BY DEF AccountWrite, PatchWrite, AliasWrite, UnaliasWrite, MemberWrite, ProfileWrite,
         SecretWrite, CredentialWrite
<1>3. accounts' = (accounts \ {a}) \cup {Patched(a, v)}
  <2>1. accounts' = {IF b.id = v.id THEN Patched(b, v) ELSE b : b \in accounts}
    BY <1>2 DEF Effect
  <2> QED BY <1>1, <2>1
<1>4. \A b \in accounts : Abstract(b) = Abstract(a) => b = a
  <2>1. \A b : Abstract(b).id = b.id
    BY DEF Abstract
  <2> QED BY <1>1, <2>1
<1>5. {Abstract(b) : b \in accounts'} =
        ({Abstract(b) : b \in accounts} \ {Abstract(a)}) \cup {Abstract(Patched(a, v))}
  BY <1>3, <1>4
<1> QED BY <1>1, <1>5 DEF Promise!Replace, Shown

\* What is shown of an account changes with the field that changes.
LEMMA ShownAliases ==
  ASSUME NEW a \in Account, NEW list, NEW b, b = [a EXCEPT !.aliases = list]
  PROVE  Abstract(b) = [Abstract(a) EXCEPT !.aliases = AddressesOf(list)]
  BY DEF Account, Abstract

LEMMA ShownGroups ==
  ASSUME NEW a \in Account, NEW groups, NEW b, b = [a EXCEPT !.groups = groups]
  PROVE  Abstract(b) = [Abstract(a) EXCEPT !.groups = groups]
  BY DEF Account, Abstract

LEMMA ShownQuota ==
  ASSUME NEW a \in Account, NEW quota, NEW b, b = [a EXCEPT !.quota = quota]
  PROVE  Abstract(b) = [Abstract(a) EXCEPT !.quota = quota] /\ b.quota = quota
  BY DEF Account, Abstract

\* A new Password that costs no API key shows only in that there is a password.
LEMMA ShownCreds ==
  ASSUME NEW a \in Account, NEW creds, NEW b, b = [a EXCEPT !.creds = creds],
         WithPassword(creds), ApiKeysOf(creds) = ApiKeysOf(a.creds)
  PROVE  Abstract(b) = [Abstract(a) EXCEPT !.password = TRUE]
<1>1. WithPassword(b.creds) = TRUE /\ ApiKeysOf(b.creds) = ApiKeysOf(a.creds)
  <2>1. b.creds = creds
    BY DEF Account
  <2>2. WithPassword(creds) = TRUE
    BY DEF WithPassword
  <2> QED BY <2>1, <2>2
<1>2. /\ b.id = a.id /\ b.type = a.type /\ b.email = a.email /\ b.aliases = a.aliases
      /\ b.groups = a.groups /\ b.admin = a.admin /\ b.quota = a.quota
  BY DEF Account
<1>3. ASSUME NEW p, NEW q
      PROVE  [[ id |-> a.id, type |-> a.type, email |-> a.email,
                aliases |-> AddressesOf(a.aliases), groups |-> a.groups, admin |-> a.admin,
                quota |-> a.quota, password |-> p, apiKeys |-> ApiKeysOf(a.creds) ]
                EXCEPT !.password = q] =
             [ id |-> a.id, type |-> a.type, email |-> a.email,
               aliases |-> AddressesOf(a.aliases), groups |-> a.groups, admin |-> a.admin,
               quota |-> a.quota, password |-> q, apiKeys |-> ApiKeysOf(a.creds) ]
  OBVIOUS
<1> DEFINE Record(password) ==
      [ id |-> a.id, type |-> a.type, email |-> a.email, aliases |-> AddressesOf(a.aliases),
        groups |-> a.groups, admin |-> a.admin, quota |-> a.quota,
        password |-> password, apiKeys |-> ApiKeysOf(a.creds) ]
<1>4. \A p, q : [Record(p) EXCEPT !.password = q] = Record(q)
  BY <1>3
<1>5. Abstract(b) = Record(WithPassword(b.creds))
  BY <1>1, <1>2 DEF Abstract
<1>6. Abstract(a) = Record(WithPassword(a.creds))
  BY DEF Abstract
<1> HIDE DEF Record
<1>7. Abstract(b) = Record(TRUE)
  BY <1>1, <1>5, Zenon
<1>8. [Record(WithPassword(a.creds)) EXCEPT !.password = TRUE] = Record(TRUE)
  BY <1>4
<1> QED BY <1>6, <1>7, <1>8, Zenon

\* Putting an address under a key that is free, or has it, adds the address.
LEMMA PutAddress ==
  ASSUME NEW list, NEW e, \A x \in list : x.key = e.key => x.addr = e.addr
  PROVE  AddressesOf(PutEntry(list, e)) = AddressesOf(list) \cup {e.addr}
<1>1. \A x \in PutEntry(list, e) : x \in list \/ x = e
  BY DEF PutEntry
<1>2. \A x \in list : x \in PutEntry(list, e) \/ x.addr = e.addr
  BY DEF PutEntry
<1>3. e \in PutEntry(list, e)
  BY DEF PutEntry
<1> DEFINE put == PutEntry(list, e)
<1> HIDE DEF put
<1> QED BY <1>1, <1>2, <1>3 DEF AddressesOf, put

\* A patch that waits, once carried out, is a promised change or no change.
LEMMA PatchIsPromised ==
  ASSUME PromiseInv, NEW v \in PatchWrite, Waiting(v), NEW a \in accounts, a.id = v.id,
         accounts' = Effect(accounts, v, nextId)
  PROVE  \/ Shown' = Shown
         \/ Promise!AddAlias \/ Promise!RemoveAlias \/ Promise!JoinGroup \/ Promise!LeaveGroup
         \/ Promise!SetQuota \/ Promise!SetPassword
<1> DEFINE b == Patched(a, v)
           A == Abstract(a)
<1>1. a \in Account
  BY PatchReplaces DEF PromiseInv, RowsInv
<1>2. A \in Shown /\ Promise!Replace(A, Abstract(b))
  BY PatchReplaces DEF PromiseInv, RowsInv
<1>3. Abstract(b) = A => Shown' = Shown
  BY <1>2 DEF Promise!Replace, Shown
<1>4. a.type = "User"
  <2>1. v \in AccountWrite /\ v.kind # "create"
    BY DEF AccountWrite, PatchWrite, AliasWrite, UnaliasWrite, MemberWrite, ProfileWrite,
           SecretWrite, CredentialWrite
  <2> QED BY <2>1 DEF Waiting, PromiseInv, RowsInv, AimInv, CallsAimed, LateAimed, Aimed
<1>5. A.type = "User" /\ A.aliases = AddressesOf(a.aliases) /\ A.groups = a.groups
  BY <1>4 DEF Abstract
\* An account shown with what it has already is shown as it was.
<1>6. /\ [A EXCEPT !.aliases = A.aliases] = A
      /\ [A EXCEPT !.groups = A.groups] = A
  BY DEF Abstract
<1> HIDE DEF b, A
<1>7. CASE v \in AliasWrite
  <2> DEFINE e == [key |-> v.key, addr |-> v.addr]
             list == PutEntry(a.aliases, e)
  <2>1. b = [a EXCEPT !.aliases = list]
    BY <1>7 DEF AliasWrite, Patched, b
  <2>2. AliasFits(v, a) /\ v.addr \in Address /\ v.addr.domain \in Hosted
    BY <1>7 DEF PromiseInv, AliasesFit, AliasWrite
  <2>3. AddressesOf(list) = A.aliases \cup {v.addr}
    <3>1. \A x \in a.aliases : x.key = e.key => x.addr = e.addr
      BY <2>2 DEF AliasFits
    <3> QED BY <1>5, <3>1, PutAddress
  <2>4. Abstract(b) = [A EXCEPT !.aliases = A.aliases \cup {v.addr}]
    <3> HIDE DEF list
    <3>1. Abstract(b) = [A EXCEPT !.aliases = AddressesOf(list)]
      BY <1>1, <2>1, ShownAliases DEF A
    <3> QED BY <2>3, <3>1
  <2>5. CASE Holds(a, v.addr)
    <3>1. A.aliases \cup {v.addr} = A.aliases
      BY <1>5, <2>2, <2>5 DEF AliasFits, Holds, AddressesOf
    <3> QED BY <1>3, <1>6, <2>4, <3>1
  <2>6. CASE ~ Holds(a, v.addr)
    <3>1. \A x \in accounts : ~ Holds(x, v.addr)
      BY <2>2, <2>6 DEF AliasFits
    <3>2. Promise!Holders(v.addr) = {}
      BY <3>1 DEF Promise!Holders, Abstract, Holds, AddressesOf
    <3>3. Promise!AddAlias
      BY <1>2, <1>5, <2>2, <2>4, <3>2 DEF Promise!AddAlias, DomainOfAddress, Shown
    <3> QED BY <3>3
  <2> QED BY <2>5, <2>6
<1>8. CASE v \in UnaliasWrite
  <2> DEFINE list == {al \in a.aliases : al.key # v.key}
  <2>1. b = [a EXCEPT !.aliases = list]
    BY <1>8 DEF UnaliasWrite, Patched, b
  <2>2. Abstract(b) = [A EXCEPT !.aliases = AddressesOf(list)]
    <3> HIDE DEF list
    <3> QED BY <1>1, <2>1, ShownAliases DEF A
  <2>3. CASE AddressesOf(list) = A.aliases
    BY <1>3, <1>6, <2>2, <2>3
  <2>4. CASE AddressesOf(list) # A.aliases
    <3>1. PICK gone \in a.aliases : gone.key = v.key /\ gone.addr \notin AddressesOf(list)
      BY <1>5, <2>4 DEF AddressesOf
    <3>2. \A al \in a.aliases : al.key = v.key => al = gone
      BY <3>1 DEF PromiseInv, ListsKeyed, Keyed
    <3>3. AddressesOf(list) = A.aliases \ {gone.addr}
      BY <1>5, <3>1, <3>2 DEF AddressesOf
    <3>4. gone.addr.domain \in Hosted /\ gone.addr \in A.aliases
      BY <1>5, <1>8, <3>1 DEF PromiseInv, UnaliasesFit, AddressesOf
    <3>5. Promise!RemoveAlias
      <4>1. Abstract(b) = [A EXCEPT !.aliases = A.aliases \ {gone.addr}]
        <5> HIDE DEF list
        <5> QED BY <2>2, <3>3
      <4>2. Promise!Replace(A, [A EXCEPT !.aliases = A.aliases \ {gone.addr}])
        BY <1>2, <4>1
      <4>3. DomainOfAddress(gone.addr) \in Hosted
        BY <3>4 DEF DomainOfAddress
      <4> QED BY <1>2, <1>5, <3>4, <4>2, <4>3 DEF Promise!RemoveAlias, Shown
    <3> QED BY <3>5
  <2> QED BY <2>3, <2>4
<1>9. CASE v \in MemberWrite /\ v.kind = "join"
  <2>1. b = [a EXCEPT !.groups = a.groups \cup {v.group}]
    BY <1>9 DEF Patched, b
  <2>2. Abstract(b) = [A EXCEPT !.groups = A.groups \cup {v.group}]
    BY <1>1, <1>5, <2>1, ShownGroups DEF A
  <2>3. PICK g \in accounts : g.id = v.group /\ g.type = "Group"
    BY <1>9 DEF PromiseInv, JoinsFit
  <2>4. Abstract(g) \in Shown /\ Abstract(g).id = v.group /\ Abstract(g).type = "Group"
    BY <2>3 DEF Abstract, Shown
  <2>5. Promise!JoinGroup
    BY <1>2, <1>5, <2>2, <2>4 DEF Promise!JoinGroup, Shown
  <2> QED BY <2>5
<1>10. CASE v \in MemberWrite /\ v.kind = "leave"
  <2>1. b = [a EXCEPT !.groups = a.groups \ {v.group}]
    BY <1>10 DEF Patched, b
  <2>2. Abstract(b) = [A EXCEPT !.groups = A.groups \ {v.group}]
    BY <1>1, <1>5, <2>1, ShownGroups DEF A
  <2>3. CASE v.group \notin A.groups
    <3>1. A.groups \ {v.group} = A.groups
      BY <2>3
    <3> QED BY <1>3, <1>6, <2>2, <3>1
  <2>4. CASE v.group \in A.groups
    <3>1. Promise!LeaveGroup
      BY <1>2, <1>5, <2>2, <2>4 DEF Promise!LeaveGroup, Shown
    <3> QED BY <3>1
  <2> QED BY <2>3, <2>4
<1>11. CASE v \in ProfileWrite
  <2> DEFINE quota == IF "quota" \in v.fields THEN v.quota ELSE a.quota
  <2>1. b = [a EXCEPT !.quota = quota]
    BY <1>11 DEF ProfileWrite, Patched, b
  <2> HIDE DEF quota
  <2>2. Abstract(b) = [A EXCEPT !.quota = quota] /\ Abstract(b).quota = quota
    BY <1>1, <2>1, ShownQuota DEF A, Abstract
  <2>3. Abstract(b) \in Shown'
    BY <1>2 DEF Promise!Replace, Shown
  <2>4. Promise!SetQuota
    BY <1>2, <1>5, <2>2, <2>3 DEF Promise!SetQuota, Shown
  <2> QED BY <2>4
<1>12. CASE v \in SecretWrite
  <2>1. b = a
    BY <1>12 DEF SecretWrite, Patched, b
  <2> QED BY <1>3, <2>1 DEF A
<1>13. CASE v \in CredentialWrite
  <2> DEFINE e == [key |-> v.key, type |-> "Password"]
             creds == PutEntry(a.creds, e)
  <2>1. b = [a EXCEPT !.creds = creds]
    BY <1>13 DEF CredentialWrite, Patched, b
  <2>2. WithPassword(creds)
    <3>1. e \in creds /\ e.type = "Password"
      BY DEF PutEntry
    <3> QED BY <3>1 DEF WithPassword
  <2>3. Suits(v, a)
    BY <1>13 DEF PromiseInv, CredentialsFit
  <2>4. ASSUME NEW cr \in a.creds, cr.type = "ApiKey"
        PROVE  cr.key # v.key
    <3>1. CASE e \in a.creds
      BY <2>4, <3>1 DEF PromiseInv, ListsKeyed, Keyed
    <3>2. CASE v.key \in NextListKey(KeysOf(a.creds))
      <4>1. cr.key \in KeysOf(a.creds) /\ cr.key \in Nat
        BY <1>1, <2>4 DEF KeysOf, Account, Credential
      <4> QED BY <3>2, <4>1 DEF NextListKey
    <3> QED BY <2>3, <3>1, <3>2 DEF Suits
  <2>5. ApiKeysOf(creds) = ApiKeysOf(a.creds)
    BY <2>4 DEF ApiKeysOf, PutEntry
  <2> HIDE DEF creds
  <2>6. Abstract(b) = [A EXCEPT !.password = TRUE]
    BY <1>1, <2>1, <2>2, <2>5, ShownCreds DEF A
  <2>7. Promise!SetPassword
    BY <1>2, <1>5, <2>6 DEF Promise!SetPassword, Shown
  <2> QED BY <2>7
<1>14. v \in MemberWrite => v.kind \in {"join", "leave"}
  BY DEF MemberWrite
<1> QED BY <1>7, <1>8, <1>9, <1>10, <1>11, <1>12, <1>13, <1>14 DEF PatchWrite

\* A user who is not there yet, at a hosted address without domain rights.
LEMMA CreateIsPromised ==
  ASSUME PromiseInv, NEW v \in CreateWrite, Waiting(v), Accepts(accounts, v),
         accounts' = Effect(accounts, v, nextId)
  PROVE  Shown' = Shown \/ Promise!Create
<1> DEFINE n == NewAccount(nextId, v)
           N == Abstract(n)
<1> USE DEF PromiseInv, RowsInv
<1>1. v.kind = "create" /\ v.email \in Address
  BY DEF CreateWrite
<1>2. accounts \in SUBSET Account /\ nextId \in Nat
  BY DEF AimInv, TypeOK
<1>3. accounts' = accounts \cup {n}
  BY <1>1 DEF Effect
<1>4. \A a \in accounts : a.id # nextId /\ a.email # v.email
  <2>1. \A a \in accounts : a.id # nextId
    BY <1>2 DEF AimInv, Identity, Account
  <2> QED BY <1>1, <2>1 DEF Accepts
<1>5. rows[v.email] = {}
  BY <1>1, <1>4 DEF NoOrphanRows, FindByType
<1>6. /\ N.id = nextId /\ N.email = v.email /\ N.type = "User" /\ N.groups = {}
      /\ N.admin = n.admin /\ N.aliases = AddressesOf(n.aliases)
      /\ N.apiKeys = ApiKeysOf(n.creds)
  BY DEF Abstract, NewAccount
<1>7. N.password = WithPassword(n.creds)
  BY DEF Abstract
<1>8. n.aliases = {} /\ n.creds = {[key |-> 0, type |-> "Password"]}
  BY DEF NewAccount
<1>9. N.aliases = {} /\ N.apiKeys = {}
  BY <1>6, <1>8 DEF AddressesOf, ApiKeysOf
<1>10. N.password = TRUE
  <2>1. WithPassword(n.creds)
    BY <1>8 DEF WithPassword
  <2> QED BY <1>7, <2>1 DEF WithPassword
<1>11. N.admin = FALSE
  BY DEF Abstract, NewAccount
<1>12. Shown' = Shown \cup {N} /\ N \notin Shown
  <2>1. \A a : Abstract(a).id = a.id
    BY DEF Abstract
  <2>2. \A a \in accounts : Abstract(a) # N
    BY <1>4, <1>6, <2>1
  <2> QED BY <1>3, <2>2 DEF Shown
<1>13. \A b \in Shown : b.id # N.id /\ b.email # N.email
  BY <1>4, <1>6 DEF Shown, Abstract
<1>14. DomainOfAddress(N.email) \in Hosted
  BY <1>6 DEF CreatesFit, DomainOfAddress
<1> HIDE DEF N, n
<1>15. Promise!Create
  BY <1>5, <1>6, <1>9, <1>10, <1>11, <1>12, <1>13, <1>14 DEF Promise!Create, Shown
<1> QED BY <1>15

\* A user whose domain rights are gone.
LEMMA DestroyIsPromised ==
  ASSUME PromiseInv, NEW v \in DestroyWrite, Waiting(v), Accepts(accounts, v),
         accounts' = Effect(accounts, v, nextId)
  PROVE  Shown' = Shown \/ Promise!Destroy
<1> USE DEF PromiseInv, RowsInv
<1>1. v.kind = "destroy" /\ v \in AccountWrite
  BY DEF DestroyWrite, AccountWrite
<1>2. accounts' = {a \in accounts : a.id # v.id}
  BY <1>1 DEF Effect
<1>3. CASE \A a \in accounts : a.id # v.id
  <2>1. accounts' = accounts
    BY <1>2, <1>3
  <2> QED BY <2>1 DEF Shown
<1>4. ASSUME NEW a \in accounts, a.id = v.id PROVE Promise!Destroy
  <2>1. \A b \in accounts : b.id = v.id => b = a
    BY <1>4 DEF AimInv, Identity
  <2>2. rows[a.email] = {}
    BY <1>1, <1>4 DEF DestroysCleared, Cleared
  <2>3. a.type = "User"
    BY <1>1, <1>4 DEF Waiting, AimInv, CallsAimed, LateAimed, Aimed
  <2>4. accounts' = accounts \ {a}
    BY <1>2, <1>4, <2>1
  <2>5. \A b \in accounts : Abstract(b) = Abstract(a) => b = a
    <3>1. \A b : Abstract(b).id = b.id
      BY DEF Abstract
    <3> QED BY <1>4, <2>1, <3>1
  <2>6. Shown' = Shown \ {Abstract(a)} /\ Abstract(a) \in Shown
    BY <1>4, <2>4, <2>5 DEF Shown
  <2>7. Abstract(a).type = "User" /\ Abstract(a).email = a.email
    BY <2>3 DEF Abstract
  <2> QED BY <2>2, <2>6, <2>7 DEF Promise!Destroy, Shown
<1> QED BY <1>3, <1>4

\* Of the table and the directory a step changes at most one.
LEMMA RowsAreApart ==
  ASSUME AimInv, [Next]_vars
  PROVE  rows' = rows \/ accounts' = accounts
  BY RowSteps

\* A statement or a transaction on the table, once committed, is a promised
\* grant or no change.
LEMMA GrantIsPromised ==
  ASSUME PromiseInv, [Next]_vars, rows' # rows
  PROVE  Promise!GrantDomains
<1> USE DEF PromiseInv, RowsInv
<1>1. PICK c \in Calls, left \in SUBSET Domain :
        /\ pc[c] \in {"rows", "commit"} /\ req[c].name \in Address
        /\ pc[c] = "rows" => req[c].op = "delete"
        /\ rows' = RowsAfter(req[c], left)
        /\ UNCHANGED accounts
  BY RowSteps
<1> DEFINE name == req[c].name
           domains == IF req[c].op = "put_domains" THEN left \cup req[c].domains ELSE {}
<1>2. rows' = [rows EXCEPT ![name] = domains]
  BY <1>1 DEF RowsAfter
<1>3. domains \in SUBSET Domain
  <2> DEFINE r == req[c]
  <2>1. CASE r.op = "put_domains"
    <3>1. r \in Request
      BY <1>1, DirectoryAssumption DEF AimInv, TypeOK
    <3> HIDE DEF r
    <3>2. r.domains \in SUBSET Domain
      BY <2>1, <3>1 DEF Request, CreateRequest, UpdateRequest, AccountRequest, EmailRequest,
                        RemoveRequest, GroupRequest, DomainsRequest
    <3> QED BY <2>1, <3>2 DEF r
  <2> QED BY <2>1
<1> HIDE DEF domains
<1>4. rows \in [Address -> SUBSET Domain]
  BY DEF AimInv, TypeOK
<1>5. FindByType(accounts, "User", name) # {}
  <2>1. CASE pc[c] = "commit"
    BY <2>1 DEF Stages, Stage
  <2>2. CASE pc[c] = "rows"
    <3>1. domains = {}
      BY <1>1, <2>2 DEF domains
    <3>2. rows[name] # {}
      BY <1>1, <1>2, <1>4, <3>1
    <3> QED BY <1>1, <3>2 DEF NoOrphanRows
  <2> QED BY <1>1, <2>1, <2>2
<1>6. PICK a \in accounts : a.type = "User" /\ a.email = name
  BY <1>5 DEF FindByType
<1>7. Abstract(a).type = "User" /\ Abstract(a).email = name /\ Abstract(a) \in Shown
  BY <1>6 DEF Abstract, Shown
<1>8. Shown' = Shown
  BY <1>1 DEF Shown
<1> QED BY <1>2, <1>3, <1>7, <1>8 DEF Promise!GrantDomains, Shown

LEMMA StepIsPromised ==
  ASSUME PromiseInv, [Next]_vars
  PROVE  [Promise!Next]_(Promise!vars)
<1>1. CASE rows' # rows
  BY <1>1, GrantIsPromised DEF Promise!Next
<1>2. CASE rows' = rows /\ Shown' = Shown
  BY <1>2 DEF Promise!vars, Shown
<1>3. CASE rows' = rows /\ Shown' # Shown
  <2>1. accounts' # accounts
    BY <1>3 DEF Shown
  <2>2. PICK v \in AccountWrite :
          Waiting(v) /\ Accepts(accounts, v) /\ accounts' = Effect(accounts, v, nextId)
    BY <2>1, WaitingSteps DEF PromiseInv, RowsInv
  <2>3. CASE v \in CreateWrite
    BY <1>3, <2>2, <2>3, CreateIsPromised DEF Promise!Next, Promise!ChangeAccounts, Shown
  <2>4. CASE v \in DestroyWrite
    BY <1>3, <2>2, <2>4, DestroyIsPromised DEF Promise!Next, Promise!ChangeAccounts, Shown
  <2>5. CASE v \in PatchWrite
    <3>1. v.kind \notin {"create", "destroy"} /\ v \in AccountWrite
      BY <2>5 DEF AccountWrite, PatchWrite, AliasWrite, UnaliasWrite, MemberWrite, ProfileWrite,
                  SecretWrite, CredentialWrite
    <3>2. PICK a \in accounts : a.id = v.id
      BY <2>1, <2>2, <3>1 DEF Effect
    <3>3. \/ Promise!AddAlias \/ Promise!RemoveAlias \/ Promise!JoinGroup \/ Promise!LeaveGroup
          \/ Promise!SetQuota \/ Promise!SetPassword
      BY <1>3, <2>2, <2>5, <3>2, PatchIsPromised
    <3> QED BY <1>3, <3>3 DEF Promise!Next, Promise!ChangeAccounts, Shown
  <2> QED BY <2>2, <2>3, <2>4, <2>5 DEF AccountWrite
<1> QED BY <1>1, <1>2, <1>3

\* What every handler of the account store does to the directory and to the
\* domain rights is, seen from outside, one indivisible change of the kind
\* DirectoryAbs allows, or no change at all: with any number of pods, calls that
\* overlap, listings that are old when they are used, answers that are lost and
\* writes that arrive late, as long as what overlaps is compatible.
THEOREM DirectoryKeepsPromise ==
  ASSUME SoundStart
  PROVE  Spec /\ []Compatible => ImplementsPromise
<1>1. Init => PromiseInv
  BY SoundStart, PromiseInvInit
<1>2. PromiseInv /\ Compatible /\ [Next]_vars => PromiseInv'
  BY PromiseInvStep
<1>3. Init => Promise!Init
  BY DEF Init, Promise!Init
<1>4. PromiseInv /\ [Next]_vars => [Promise!Next]_(Promise!vars)
  BY StepIsPromised
<1> QED BY <1>1, <1>2, <1>3, <1>4, PTL DEF Spec, ImplementsPromise, Promise!Spec
=============================================================================
