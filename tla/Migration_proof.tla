-------------------------- MODULE Migration_proof --------------------------
(***************************************************************************)
(* Proofs about Migration: the tool only adds, for every SQL directory,    *)
(* every Stalwart directory and any number of failed runs and late writes. *)
(***************************************************************************)
EXTENDS Migration, FiniteSetTheorems, TLAPS

-----------------------------------------------------------------------------
(* The invariant.  Whatever runs and late writes there have been, an       *)
(* account of the SQL directory has the aliases it started with, and       *)
(* either all of the ones it lacked, under the keys the first run chose,   *)
(* or none.                                                                *)

\* The SQL account a run writes to the account called name: the first one.
FirstNamed(i, name) ==
  /\ i \in Active(sql) /\ sql[i].name = name
  /\ \A j \in Active(sql) : j < i => sql[j].name # name

AllHosted(i) == \A addr \in AliasesOf(sql[i]) : addr.domain \in Hosted

\* What any run may add to account b of the initial directory.
NewAliases(b) ==
  UNION {Fresh(sql[i], b) : i \in {j \in DOMAIN sql : FirstNamed(j, b.email) /\ AllHosted(j)}}

NewKeys(b) ==
  {k \in NextListKey(KeysOf(b.creds)) : \A cr \in b.creds : cr.type # "Password"}

InSql(b) == b.type = "User" /\ \E i \in DOMAIN sql : sql[i].name = b.email

Came(a, b) ==
  /\ a.id = b.id /\ a.type = b.type /\ a.email = b.email
  /\ InSql(b) => \/ a.aliases = b.aliases
                 \/ \E new \in NewAliases(b) : a.aliases = b.aliases \cup new
  /\ \/ a.creds = b.creds
     \/ \E k \in NewKeys(b) : a.creds = b.creds \cup {[key |-> k, type |-> "Password"]}

CameFromInit(a) == \E b \in InitAccounts : Came(a, b)

\* A write that is safe whenever it arrives.
Benign(w) ==
  /\ w \in PatchKind =>
       \/ w.aliases = {}
       \/ \E b \in InitAccounts : b.id = w.id /\ InSql(b) /\ w.aliases \in NewAliases(b)
  /\ w.kind = "credential" =>
       \E b \in InitAccounts : b.id = w.id /\ w.key \in NewKeys(b)

AdditiveInv ==
  /\ TypeOK
  /\ \A a, b \in accounts : a.id = b.id => a = b
  /\ \A a \in accounts \cup snapshot : CameFromInit(a)
  /\ phase = "write" => \A i \in todo : FirstNamed(i, sql[i].name) /\ AllHosted(i)
  /\ \A w \in late : Benign(w)

-----------------------------------------------------------------------------
(* List keys and new aliases.                                              *)

\* The next key is above all keys in use, and there is only one.
LEMMA NextListKeyFacts ==
  ASSUME NEW keys \in SUBSET Nat, NEW k \in NextListKey(keys)
  PROVE  /\ k \in Nat
         /\ \A x \in keys : x < k
         /\ \A n \in NextListKey(keys) : n = k
  BY DEF NextListKey

\* New aliases have keys above all keys of the account, are the missing ones,
\* and are determined by the two accounts.
LEMMA FreshFacts ==
  ASSUME NEW s \in SqlAccount, IsFiniteSet(s.emails), NEW a \in Account, NEW new \in Fresh(s, a)
  PROVE  /\ new \subseteq Alias
         /\ \A x \in new, y \in a.aliases : y.key < x.key
         /\ \A addr \in Missing(s, a) : \E x \in new : x.addr = addr
         /\ \A other \in Fresh(s, a) : other = new
<1> DEFINE Rank(addr) == Cardinality({x \in Missing(s, a) : AddressOrder[x] < AddressOrder[addr]})
<1>1. a.aliases \subseteq Alias /\ KeysOf(a.aliases) \in SUBSET Nat
  BY DEF Account, Alias, KeysOf
<1>2. PICK base \in NextListKey(KeysOf(a.aliases)) :
        new = {[key |-> base + Rank(addr), addr |-> addr] : addr \in Missing(s, a)}
  BY DEF Fresh
<1>3. base \in Nat /\ \A y \in a.aliases : y.key < base
  BY <1>1, <1>2, NextListKeyFacts DEF KeysOf
<1>4. IsFiniteSet(Missing(s, a))
  <2>1. IsFiniteSet({x \in s.emails : x.type = "alias"})
    BY FS_Subset
  <2>2. IsFiniteSet(AliasesOf(s))
    <3> DEFINE rows == {x \in s.emails : x.type = "alias"}
               f == [x \in rows |-> x.addr]
    <3>1. f \in Surjection(rows, AliasesOf(s))
      BY DEF Surjection, AliasesOf
    <3> QED BY <2>1, <3>1, FS_Surjection
  <2> QED BY <2>2, FS_Subset DEF Missing
<1>5. \A addr : Rank(addr) \in Nat
  <2> TAKE addr
  <2> DEFINE Before == {x \in Missing(s, a) : AddressOrder[x] < AddressOrder[addr]}
  <2>1. Before \in SUBSET Missing(s, a)
    OBVIOUS
  <2>2. IsFiniteSet(Before)
    <3> HIDE DEF Before
    <3> QED BY <1>4, <2>1, FS_Subset
  <2> QED BY <2>2, FS_CardinalityType
<1>6. Missing(s, a) \subseteq Address
  BY DEF Missing, AliasesOf, SqlAccount, SqlEmail
<1> HIDE DEF Rank
<1>7. \A other \in Fresh(s, a) : other = new
  <2> TAKE other \in Fresh(s, a)
  <2>1. PICK n \in NextListKey(KeysOf(a.aliases)) :
          other = {[key |-> n + Rank(addr), addr |-> addr] : addr \in Missing(s, a)}
    BY DEF Fresh, Rank
  <2>2. n = base
    BY <1>1, <1>2, NextListKeyFacts
  <2> QED BY <1>2, <2>1, <2>2
<1>8. new \subseteq Alias
  BY <1>2, <1>3, <1>5, <1>6 DEF Alias
<1>9. \A x \in new, y \in a.aliases : y.key < x.key
  <2> TAKE x \in new, y \in a.aliases
  <2>1. PICK addr \in Missing(s, a) : x = [key |-> base + Rank(addr), addr |-> addr]
    BY <1>2
  <2>2. y.key \in Nat /\ y.key < base
    BY <1>1, <1>3 DEF Alias
  <2> QED BY <1>3, <1>5, <2>1, <2>2
<1>10. \A addr \in Missing(s, a) : \E x \in new : x.addr = addr
  <2> TAKE addr \in Missing(s, a)
  <2>1. [key |-> base + Rank(addr), addr |-> addr] \in new
    BY <1>2
  <2> QED BY <2>1
<1> QED BY <1>7, <1>8, <1>9, <1>10

-----------------------------------------------------------------------------
(* Types.                                                                  *)

LEMMA PatchTyped ==
  ASSUME TypeOK, NEW i \in DOMAIN sql, NEW a \in Account, NEW p \in Patches(sql[i], a)
  PROVE  p \in PatchKind
<1>1. sql[i] \in SqlAccount /\ IsFiniteSet(sql[i].emails)
  BY MigrationAssumption DEF TypeOK
<1>2. PICK new \in Fresh(sql[i], a) :
        p = [kind |-> "patch", id |-> a.id, admin |-> sql[i].admin /\ ~a.admin,
             quota |-> IF sql[i].quota # a.quota THEN sql[i].quota ELSE 0, aliases |-> new]
  BY DEF Patches
<1> QED BY <1>1, <1>2, FreshFacts DEF PatchKind, SqlAccount, Account

LEMMA PasswordTyped ==
  ASSUME NEW a \in Account, NEW w \in PasswordWrites(a)
  PROVE  w \in SecretKind
<1>1. KeysOf(a.creds) \in SUBSET Nat /\ \A cr \in a.creds : cr.key \in Nat
  BY DEF Account, Credential, KeysOf
<1>2. \A k \in NextListKey(KeysOf(a.creds)) : k \in Nat
  BY <1>1, NextListKeyFacts
<1> QED BY <1>1, <1>2 DEF PasswordWrites, SecretKind, Account

LEMMA NextWritesTyped ==
  ASSUME TypeOK, NEW i \in DOMAIN sql, NEW w \in NextWrites(i)
  PROVE  w \in PatchKind \cup SecretKind
<1>1. PICK a \in Match(snapshot, sql[i].name) :
        \E p \in Patches(sql[i], a), q \in PasswordWrites(a) : w = p \/ w = q
  BY DEF NextWrites
<1>2. a \in Account
  BY <1>1 DEF TypeOK, Match
<1> QED BY <1>1, <1>2, PatchTyped, PasswordTyped

LEMMA WrittenTyped ==
  ASSUME NEW a \in Account, NEW w \in PatchKind \cup SecretKind
  PROVE  Written(a, w) \in Account
<1>1. CASE w \in PatchKind
  <2> DEFINE list   == {al \in a.aliases : al.key \notin KeysOf(w.aliases)} \cup w.aliases
             admin_ == a.admin \/ w.admin
             quota_ == IF w.quota = 0 THEN a.quota ELSE w.quota
  <2>1. Written(a, w) = [a EXCEPT !.admin = admin_, !.quota = quota_, !.aliases = list]
    BY <1>1 DEF Written, PatchKind
  <2>2. admin_ \in BOOLEAN
    OBVIOUS
  <2>3. quota_ \in Nat /\ list \subseteq Alias
    BY <1>1 DEF PatchKind, Account
  <2> HIDE DEF admin_, quota_, list
  <2> QED BY <2>1, <2>2, <2>3 DEF Account
<1>2. CASE w \in SecretKind /\ w.kind = "credential"
  <2> DEFINE list == PutEntry(a.creds, [key |-> w.key, type |-> "Password"])
  <2>1. Written(a, w) = [a EXCEPT !.creds = list]
    BY <1>2 DEF Written
  <2>2. list \subseteq Credential
    BY <1>2 DEF PutEntry, SecretKind, Account, Credential
  <2> HIDE DEF list
  <2> QED BY <2>1, <2>2 DEF Account
<1>3. CASE w \in SecretKind /\ w.kind = "secret"
  BY <1>3 DEF Written
<1> QED BY <1>1, <1>2, <1>3 DEF SecretKind

LEMMA WrittenToTyped ==
  ASSUME accounts \subseteq Account, NEW w \in PatchKind \cup SecretKind,
         accounts' = WrittenTo(accounts, w)
  PROVE  accounts' \subseteq Account
<1>1. \A a \in accounts : Written(a, w) \in Account
  BY WrittenTyped
<1> QED BY <1>1 DEF WrittenTo

LEMMA PerformTyped ==
  ASSUME TypeOK, NEW w \in PatchKind \cup SecretKind, Perform(w)
  PROVE  accounts' \subseteq Account /\ migrated' \subseteq Nat \X Nat
<1>1. accounts' \subseteq Account
  BY WrittenToTyped DEF Perform, TypeOK
<1>2. migrated' \subseteq Nat \X Nat
  BY DEF Perform, TypeOK, PatchKind, SecretKind
<1> QED BY <1>1, <1>2

LEMMA ServeTyped ==
  ASSUME TypeOK, NEW r \in Others, Serve(r)
  PROVE  accounts' \subseteq Account /\ migrated' \subseteq Nat \X Nat /\ changed' \subseteq Nat
<1>1. r \in OtherRequest /\ accounts \subseteq Account /\ migrated \subseteq Nat \X Nat /\ changed \subseteq Nat
  BY MigrationAssumption DEF TypeOK
<1>2. CASE ServePassword(r)
  <2>1. PICK a \in accounts : \E w \in PasswordWrites(a) :
          accounts' = WrittenTo(accounts, w) /\ migrated' = migrated \ {<<w.id, w.key>>}
    BY <1>2 DEF ServePassword, Served
  <2>2. accounts' \subseteq Account
    BY <1>1, <2>1, PasswordTyped, WrittenToTyped
  <2>3. migrated' \subseteq Nat \X Nat
    BY <1>1, <2>1
  <2>4. changed' \subseteq Nat
    BY <1>1, <1>2 DEF ServePassword, OtherRequest
  <2> QED BY <2>2, <2>3, <2>4
<1>3. CASE ServeDelete(r)
  BY <1>1, <1>3 DEF ServeDelete, OtherRequest
<1>4. ASSUME NEW a \in accounts, NEW list \in SUBSET Alias,
             accounts' = (accounts \ {a}) \cup {[a EXCEPT !.aliases = list]}
      PROVE  accounts' \subseteq Account
  <2>1. [a EXCEPT !.aliases = list] \in Account
    BY <1>1 DEF Account
  <2> QED BY <1>1, <1>4, <2>1
<1>5. CASE ServeAlias(r)
  <2>1. PICK a \in Served(r, accounts) : \E key \in NextListKey(KeysOf(a.aliases)) :
          accounts' = (accounts \ {a})
            \cup {[a EXCEPT !.aliases = a.aliases \cup {[key |-> key, addr |-> r.addr]}]}
    BY <1>5 DEF ServeAlias
  <2>2. PICK key \in NextListKey(KeysOf(a.aliases)) :
          accounts' = (accounts \ {a})
            \cup {[a EXCEPT !.aliases = a.aliases \cup {[key |-> key, addr |-> r.addr]}]}
    BY <2>1
  <2>3. a.aliases \subseteq Alias /\ KeysOf(a.aliases) \in SUBSET Nat
    BY <1>1 DEF Served, Account, Alias, KeysOf
  <2>4. key \in Nat /\ r.addr \in Address
    BY <1>1, <1>5, <2>3, NextListKeyFacts DEF ServeAlias, OtherRequest
  <2>5. a.aliases \cup {[key |-> key, addr |-> r.addr]} \in SUBSET Alias
    BY <2>3, <2>4 DEF Alias
  <2>6. a \in accounts
    BY DEF Served
  <2> QED BY <1>1, <1>4, <1>5, <2>2, <2>5, <2>6 DEF ServeAlias
<1>6. CASE ServeUnalias(r)
  <2>1. PICK a \in Served(r, accounts) : \E al \in VisibleAliases(a) :
          accounts' = (accounts \ {a}) \cup {[a EXCEPT !.aliases = a.aliases \ {al}]}
    BY <1>6 DEF ServeUnalias
  <2>2. PICK al \in VisibleAliases(a) :
          accounts' = (accounts \ {a}) \cup {[a EXCEPT !.aliases = a.aliases \ {al}]}
    BY <2>1
  <2>3. a \in accounts /\ a.aliases \ {al} \in SUBSET Alias
    BY <1>1 DEF Served, Account
  <2> QED BY <1>1, <1>4, <1>6, <2>2, <2>3 DEF ServeUnalias
<1> QED BY <1>2, <1>3, <1>5, <1>6 DEF Serve

LEMMA TypeInit == Init => TypeOK
<1>1. InitAccounts \subseteq Account /\ {} \in Onlys /\ 0 \in 0..MaxFaults /\ 0 \in 0..MaxOthers
  BY MigrationAssumption
<1> QED BY <1>1 DEF Init, TypeOK

LEMMA TypeStep == TypeOK /\ [Next]_vars => TypeOK'
<1> SUFFICES ASSUME TypeOK, [Next]_vars PROVE TypeOK'
  OBVIOUS
<1> USE DEF dir, run
<1>1. CASE UNCHANGED vars
  BY <1>1 DEF vars, TypeOK
<1>2. ASSUME NEW f \in BOOLEAN, NEW o \in Onlys, Launch(f, o) PROVE TypeOK'
  BY <1>2 DEF Launch, TypeOK
<1>3. CASE ListAccounts
  BY <1>3 DEF ListAccounts, TypeOK
<1>4. CASE Check
  <2>1. Selected(sql, only) \subseteq DOMAIN sql
    BY DEF Selected, Active
  <2>2. UNCHANGED <<sql, dir, apply, only, late, changed, faults, others>>
    BY <1>4 DEF Check, End
  <2>3. /\ phase' \in {"idle", "write"} /\ snapshot' \in {{}, snapshot}
        /\ todo' \in {{}, Selected(sql, only)} /\ patched' \in {FALSE, patched}
        /\ result' \in {"error", "done", "dry", result}
    BY <1>4 DEF Check, End
  <2> QED BY <2>1, <2>2, <2>3 DEF TypeOK
<1>5. ASSUME NEW i \in DOMAIN sql, Write(i) PROVE TypeOK'
  <2>1. PICK w \in NextWrites(i) : Perform(w)
    BY <1>5 DEF Write
  <2>2. accounts' \subseteq Account /\ migrated' \subseteq Nat \X Nat
    BY <2>1, NextWritesTyped, PerformTyped
  <2>3. /\ phase' \in {"idle", "write"} /\ apply' = apply /\ only' = only /\ sql' = sql
        /\ snapshot' \in {{}, snapshot} /\ todo' \subseteq todo
        /\ patched' \in BOOLEAN /\ result' \in {"done", result}
    BY <1>5 DEF Write, End, Current, TypeOK
  <2>4. UNCHANGED <<late, changed, faults, others>>
    BY <1>5 DEF Write
  <2> QED BY <2>2, <2>3, <2>4 DEF TypeOK
<1>6. ASSUME NEW i \in DOMAIN sql, Refuse(i) PROVE TypeOK'
  BY <1>6 DEF Refuse, End, TypeOK
<1>7. CASE Fail
  <2>1. /\ phase' = "idle" /\ UNCHANGED <<sql, apply, only, changed, others>>
        /\ snapshot' = {} /\ todo' = {} /\ patched' = FALSE /\ result' = "error"
        /\ faults' \in 0..MaxFaults
    BY <1>7, MigrationAssumption DEF Fail, End, TypeOK
  <2>2. CASE UNCHANGED <<dir, late>>
    BY <2>1, <2>2 DEF TypeOK
  <2>3. ASSUME NEW i \in DOMAIN sql, NEW w \in NextWrites(i), Perform(w), UNCHANGED late
        PROVE  TypeOK'
    <3>1. accounts' \subseteq Account /\ migrated' \subseteq Nat \X Nat
      BY <2>3, NextWritesTyped, PerformTyped
    <3> QED BY <2>1, <2>3, <3>1 DEF TypeOK
  <2>4. ASSUME NEW i \in DOMAIN sql, NEW w \in NextWrites(i), late' = late \cup {w}, UNCHANGED dir
        PROVE  TypeOK'
    <3>1. w \in PatchKind \cup SecretKind
      BY <2>4, NextWritesTyped
    <3> QED BY <2>1, <2>4, <3>1 DEF TypeOK
  <2> QED BY <1>7, <2>2, <2>3, <2>4 DEF Fail, Current, TypeOK
<1>8. ASSUME NEW w \in late, Arrive(w) PROVE TypeOK'
  <2>1. late' = late \ {w} /\ UNCHANGED <<sql, run, changed, faults, others>>
    BY <1>8 DEF Arrive
  <2>2. w \in PatchKind \cup SecretKind
    BY DEF TypeOK
  <2>3. CASE Perform(w)
    BY <2>1, <2>2, <2>3, PerformTyped DEF TypeOK
  <2>4. CASE UNCHANGED dir
    BY <2>1, <2>4 DEF TypeOK
  <2> QED BY <1>8, <2>3, <2>4 DEF Arrive
<1>9. ASSUME NEW r \in Others, Serve(r) PROVE TypeOK'
  <2>1. UNCHANGED <<sql, run, late, faults>> /\ others' \in 0..MaxOthers
    BY <1>9, MigrationAssumption DEF Serve, TypeOK
  <2> QED BY <1>9, <2>1, ServeTyped DEF TypeOK
<1> QED BY <1>1, <1>2, <1>3, <1>4, <1>5, <1>6, <1>7, <1>8, <1>9 DEF Next, Run

\* The tool's variables keep their types, whoever else writes to the directory.
THEOREM MigrationTypeCorrect == Spec => []TypeOK
<1> QED BY TypeInit, TypeStep, PTL DEF Spec

-----------------------------------------------------------------------------
(* What a run decides for an account, and what a write does to it.         *)

\* The first SQL account of a name is one account.
LEMMA FirstNamedUnique ==
  ASSUME TypeOK, NEW i, NEW j, NEW name, FirstNamed(i, name), FirstNamed(j, name)
  PROVE  i = j
<1>1. sql \in Seq(SqlAccount)
  BY MigrationAssumption DEF TypeOK
<1>2. i \in Nat /\ j \in Nat
  BY <1>1 DEF FirstNamed, Active
<1> QED BY <1>2 DEF FirstNamed

\* All of the new aliases an account of the initial directory may get are one set.
LEMMA NewAliasesUnique ==
  ASSUME TypeOK, NEW b \in InitAccounts, NEW new \in NewAliases(b)
  PROVE  /\ new \subseteq Alias
         /\ \A x \in new, y \in b.aliases : y.key < x.key
         /\ \A other \in NewAliases(b) : other = new
<1>1. PICK i \in DOMAIN sql : FirstNamed(i, b.email) /\ AllHosted(i) /\ new \in Fresh(sql[i], b)
  BY DEF NewAliases
<1>2. sql[i] \in SqlAccount /\ IsFiniteSet(sql[i].emails) /\ b \in Account
  BY MigrationAssumption DEF TypeOK
<1>3. \A other \in NewAliases(b) : other \in Fresh(sql[i], b)
  BY <1>1, FirstNamedUnique DEF NewAliases
<1> QED BY <1>1, <1>2, <1>3, FreshFacts

\* The patch for an account that came from the initial directory is benign: if
\* the account has had its new aliases there are none left to add.
LEMMA PatchBenign ==
  ASSUME TypeOK, NEW i \in DOMAIN sql, FirstNamed(i, sql[i].name), AllHosted(i),
         NEW a \in Account, a.type = "User", a.email = sql[i].name, CameFromInit(a),
         NEW p \in Patches(sql[i], a)
  PROVE  p \in PatchKind /\ Benign(p)
<1>1. sql[i] \in SqlAccount /\ IsFiniteSet(sql[i].emails)
  BY MigrationAssumption DEF TypeOK
<1>2. PICK new \in Fresh(sql[i], a) :
        p = [kind |-> "patch", id |-> a.id, admin |-> sql[i].admin /\ ~a.admin,
             quota |-> IF sql[i].quota # a.quota THEN sql[i].quota ELSE 0, aliases |-> new]
  BY DEF Patches
<1>3. p \in PatchKind
  BY <1>1, <1>2, FreshFacts DEF PatchKind, SqlAccount, Account
<1>4. PICK b \in InitAccounts : Came(a, b)
  BY DEF CameFromInit
<1>5. InSql(b) /\ b \in Account /\ a.email = b.email
  BY <1>4, MigrationAssumption DEF InSql, Came
<1>6. p.kind = "patch" /\ p.id = a.id /\ p.aliases = new
  BY <1>2
<1>7. CASE a.aliases = b.aliases
  <2>1. Fresh(sql[i], a) = Fresh(sql[i], b)
    BY <1>5, <1>7 DEF Fresh, Missing, VisibleAliases
  <2>2. new \in NewAliases(b)
    BY <1>2, <1>5, <2>1 DEF NewAliases
  <2>3. b.id = p.id
    BY <1>4, <1>6 DEF Came
  <2> QED BY <1>3, <1>5, <1>6, <2>2, <2>3 DEF Benign
<1>8. ASSUME NEW added \in NewAliases(b), a.aliases = b.aliases \cup added
      PROVE  new = {}
  <2>1. added \in Fresh(sql[i], b)
    BY <1>5, FirstNamedUnique DEF NewAliases
  <2>2. \A addr \in Missing(sql[i], b) : \E x \in added : x.addr = addr
    BY <1>1, <1>5, <2>1, FreshFacts
  <2>3. \A addr \in AliasesOf(sql[i]) : addr = a.email \/ \E al \in VisibleAliases(a) : al.addr = addr
    BY <1>5, <1>8, <2>2 DEF Missing, VisibleAliases, AllHosted
  <2>4. Missing(sql[i], a) = {}
    BY <2>3 DEF Missing
  <2> QED BY <2>4 DEF Fresh
<1>9. a.aliases = b.aliases \/ \E added \in NewAliases(b) : a.aliases = b.aliases \cup added
  BY <1>4, <1>5 DEF Came
<1>10. CASE new = {}
  BY <1>3, <1>6, <1>10 DEF Benign
<1> QED BY <1>3, <1>7, <1>8, <1>9, <1>10

\* So is its password write: once it has a Password credential, that one is set.
LEMMA PasswordBenign ==
  ASSUME NEW a \in Account, CameFromInit(a), NEW w \in PasswordWrites(a)
  PROVE  /\ w \in SecretKind /\ Benign(w) /\ w.id = a.id
<1>1. PICK b \in InitAccounts : Came(a, b)
  BY DEF CameFromInit
<1>2. KeysOf(a.creds) \in SUBSET Nat
  BY DEF Account, Credential, KeysOf
<1>3. CASE \A cr \in a.creds : cr.type # "Password"
  <2>1. PICK k \in NextListKey(KeysOf(a.creds)) : w = [kind |-> "credential", id |-> a.id, key |-> k]
    BY <1>3 DEF PasswordWrites
  <2>2. k \in Nat
    BY <1>2, NextListKeyFacts
  <2>3. a.creds = b.creds
    <3>1. ASSUME NEW n, a.creds = b.creds \cup {[key |-> n, type |-> "Password"]} PROVE FALSE
      <4>1. [key |-> n, type |-> "Password"] \in a.creds
        BY <3>1
      <4> QED BY <1>3, <4>1
    <3> QED BY <1>1, <3>1 DEF Came
  <2>4. k \in NewKeys(b)
    BY <1>3, <2>1, <2>3 DEF NewKeys
  <2> QED BY <1>1, <2>1, <2>2, <2>4 DEF Benign, SecretKind, PatchKind, Account, Came
<1>4. CASE \E cr \in a.creds : cr.type = "Password"
  <2>1. PICK cr \in a.creds : w = [kind |-> "secret", id |-> a.id, key |-> cr.key]
    BY <1>4 DEF PasswordWrites
  <2> QED BY <2>1 DEF Benign, SecretKind, PatchKind, Account, Credential
<1> QED BY <1>3, <1>4

\* A benign write only adds to the account it reaches, which stays one that
\* came from the initial directory.
LEMMA WrittenAdds ==
  ASSUME TypeOK, NEW a \in Account, CameFromInit(a), NEW w \in PatchKind \cup SecretKind,
         Benign(w), w.id = a.id
  PROVE  /\ Written(a, w) \in Account /\ CameFromInit(Written(a, w))
         /\ Written(a, w).id = a.id
         /\ a.aliases \subseteq Written(a, w).aliases
         /\ a.admin => Written(a, w).admin
         /\ ApiKeys(a) \subseteq ApiKeys(Written(a, w))
<1>1. PICK b \in InitAccounts : Came(a, b)
  BY DEF CameFromInit
<1>2. b \in Account /\ \A c \in InitAccounts : c.id = w.id => c = b
  BY <1>1, MigrationAssumption DEF Came
<1>3. CASE w \in PatchKind
  <2> DEFINE kept   == {al \in a.aliases : al.key \notin KeysOf(w.aliases)}
             admin_ == a.admin \/ w.admin
             quota_ == IF w.quota = 0 THEN a.quota ELSE w.quota
  <2>1. Written(a, w) = [a EXCEPT !.admin = admin_, !.quota = quota_, !.aliases = kept \cup w.aliases]
    BY <1>3 DEF Written, PatchKind
  <2>2. Written(a, w) \in Account
    <3>1. admin_ \in BOOLEAN
      OBVIOUS
    <3>2. quota_ \in Nat /\ kept \cup w.aliases \subseteq Alias
      BY <1>3 DEF PatchKind, Account
    <3> HIDE DEF admin_, quota_, kept
    <3> QED BY <2>1, <3>1, <3>2 DEF Account
  <2>3. /\ Written(a, w).id = a.id /\ Written(a, w).type = a.type
        /\ Written(a, w).email = a.email /\ Written(a, w).creds = a.creds
        /\ Written(a, w).admin = admin_
        /\ Written(a, w).aliases = kept \cup w.aliases
    BY <2>1 DEF Account
  <2>4. CASE w.aliases = {}
    <3>1. kept = a.aliases
      BY <2>4 DEF KeysOf
    <3>2. Came(Written(a, w), b)
      BY <1>1, <2>3, <2>4, <3>1 DEF Came
    <3> QED BY <2>2, <2>3, <2>4, <3>1, <3>2 DEF CameFromInit, ApiKeys
  <2>5. CASE w.aliases \in NewAliases(b) /\ InSql(b)
    <3>1. \A x \in w.aliases, y \in b.aliases : y.key < x.key
      BY <2>5, NewAliasesUnique
    <3>2. \A y \in b.aliases : y.key \in Nat
      BY <1>2 DEF Account, Alias
    <3>3. \A y \in b.aliases : y.key \notin KeysOf(w.aliases)
      BY <3>1, <3>2 DEF KeysOf
    <3>4. a.aliases = b.aliases \/ a.aliases = b.aliases \cup w.aliases
      BY <1>1, <2>5, NewAliasesUnique DEF Came
    <3>5. kept \cup w.aliases = b.aliases \cup w.aliases
      BY <3>3, <3>4
    <3>6. Came(Written(a, w), b)
      BY <1>1, <2>3, <2>5, <3>5 DEF Came
    <3> QED BY <2>2, <2>3, <3>4, <3>5, <3>6 DEF CameFromInit, ApiKeys
  <2> QED BY <1>2, <1>3, <2>4, <2>5 DEF Benign
<1>4. CASE w \in SecretKind /\ w.kind = "credential"
  <2> DEFINE new == [key |-> w.key, type |-> "Password"]
  <2>1. Written(a, w) = [a EXCEPT !.creds = PutEntry(a.creds, new)]
    BY <1>4 DEF Written
  <2>2. w.key \in NewKeys(b)
    BY <1>2, <1>4 DEF Benign
  <2>3. KeysOf(b.creds) \in SUBSET Nat
    BY <1>2 DEF KeysOf, Account, Credential
  <2>4. /\ w.key \in Nat /\ \A cr \in b.creds : cr.key # w.key
        /\ \A k \in NewKeys(b) : k = w.key
    <3>1. w.key \in NextListKey(KeysOf(b.creds)) /\ NewKeys(b) \subseteq NextListKey(KeysOf(b.creds))
      BY <2>2 DEF NewKeys
    <3>2. w.key \in Nat /\ (\A x \in KeysOf(b.creds) : x < w.key) /\ \A k \in NewKeys(b) : k = w.key
      BY <2>3, <3>1, NextListKeyFacts
    <3>3. \A cr \in b.creds : cr.key \in KeysOf(b.creds)
      BY DEF KeysOf
    <3> QED BY <2>3, <3>2, <3>3
  <2>5. a.creds = b.creds \/ a.creds = b.creds \cup {new}
    BY <1>1, <2>4 DEF Came
  <2>6. PutEntry(a.creds, new) = b.creds \cup {new}
    BY <2>4, <2>5 DEF PutEntry
  <2>7. Written(a, w) \in Account
    BY <1>2, <2>1, <2>4, <2>6 DEF Account, Credential
  <2>8. /\ Written(a, w).id = a.id /\ Written(a, w).type = a.type
        /\ Written(a, w).email = a.email /\ Written(a, w).aliases = a.aliases
        /\ Written(a, w).admin = a.admin
        /\ Written(a, w).creds = b.creds \cup {new}
    BY <2>1, <2>6 DEF Account
  <2>9. Came(Written(a, w), b)
    BY <1>1, <2>2, <2>8 DEF Came
  <2>10. ApiKeys(a) \subseteq ApiKeys(Written(a, w))
    BY <2>5, <2>8 DEF ApiKeys
  <2> QED BY <2>7, <2>8, <2>9, <2>10 DEF CameFromInit
<1>5. CASE w \in SecretKind /\ w.kind = "secret"
  BY <1>5 DEF Written
<1> QED BY <1>3, <1>4, <1>5 DEF SecretKind

\* Every write a run makes is benign, decided as it is on the run's listing.
LEMMA NextWritesBenign ==
  ASSUME AdditiveInv, NEW i \in DOMAIN sql, Current(i), NEW w \in NextWrites(i)
  PROVE  w \in PatchKind \cup SecretKind /\ Benign(w)
<1>1. FirstNamed(i, sql[i].name) /\ AllHosted(i)
  BY DEF AdditiveInv, Current
<1>2. PICK a \in Match(snapshot, sql[i].name) :
        \E p \in Patches(sql[i], a), q \in PasswordWrites(a) : w = p \/ w = q
  BY DEF NextWrites
<1>3. a \in Account /\ a.type = "User" /\ a.email = sql[i].name /\ CameFromInit(a)
  BY <1>2 DEF AdditiveInv, TypeOK, Match
<1>4. \A p \in Patches(sql[i], a) : p \in PatchKind /\ Benign(p)
  BY <1>1, <1>3, PatchBenign DEF AdditiveInv
<1>5. \A q \in PasswordWrites(a) : q \in SecretKind /\ Benign(q)
  BY <1>3, PasswordBenign
<1> QED BY <1>2, <1>4, <1>5

\* What arrives at Stalwart keeps the part of the invariant about the accounts,
\* and only adds.
LEMMA PerformAdds ==
  ASSUME AdditiveInv, NEW w \in PatchKind \cup SecretKind, Benign(w), Perform(w)
  PROVE  /\ accounts' \subseteq Account /\ migrated' \subseteq Nat \X Nat
         /\ \A a, b \in accounts' : a.id = b.id => a = b
         /\ \A a \in accounts' : CameFromInit(a)
         /\ OnlyAdds
<1> DEFINE New(a) == IF a.id = w.id THEN Written(a, w) ELSE a
<1>1. accounts' = {New(a) : a \in accounts}
  BY DEF Perform, WrittenTo
<1>2. \A a \in accounts :
        /\ New(a) \in Account /\ CameFromInit(New(a)) /\ New(a).id = a.id
        /\ a.aliases \subseteq New(a).aliases
        /\ a.admin => New(a).admin
        /\ ApiKeys(a) \subseteq ApiKeys(New(a))
  <2> TAKE a \in accounts
  <2>1. a \in Account /\ CameFromInit(a)
    BY DEF AdditiveInv, TypeOK
  <2>2. CASE a.id = w.id
    BY <2>1, <2>2, WrittenAdds DEF AdditiveInv
  <2>3. CASE a.id # w.id
    BY <2>1, <2>3
  <2> QED BY <2>2, <2>3
<1>3. migrated' \subseteq Nat \X Nat
  BY DEF Perform, AdditiveInv, TypeOK, PatchKind, SecretKind
<1> HIDE DEF New
<1>4. \A a \in accounts, b \in accounts' : b.id = a.id => b = New(a)
  BY <1>1, <1>2 DEF AdditiveInv
<1> QED BY <1>1, <1>2, <1>3, <1>4 DEF AdditiveInv, OnlyAdds

\* The invariant's parts about single accounts and writes depend on the SQL
\* directory only, and that does not change.
LEMMA SqlFixed ==
  ASSUME sql' = sql
  PROVE  /\ \A a : CameFromInit(a)' <=> CameFromInit(a)
         /\ \A w : Benign(w)' <=> Benign(w)
         /\ \A i, name : FirstNamed(i, name)' <=> FirstNamed(i, name)
         /\ \A i : AllHosted(i)' <=> AllHosted(i)
<1>1. \A i, name : FirstNamed(i, name)' <=> FirstNamed(i, name)
  BY DEF FirstNamed
<1>2. \A i : AllHosted(i)' <=> AllHosted(i)
  BY DEF AllHosted
<1>3. \A b : NewAliases(b)' = NewAliases(b)
  BY <1>1, <1>2 DEF NewAliases
<1>4. \A b : InSql(b)' <=> InSql(b)
  BY DEF InSql
<1>5. \A a, b : Came(a, b)' <=> Came(a, b)
  BY <1>3, <1>4 DEF Came
<1>6. \A a : CameFromInit(a)' <=> CameFromInit(a)
  BY <1>5 DEF CameFromInit
<1>7. \A w : Benign(w)' <=> Benign(w)
  BY <1>3, <1>4 DEF Benign
<1> QED BY <1>1, <1>2, <1>6, <1>7

-----------------------------------------------------------------------------
(* The steps.                                                              *)

\* Nobody else gives or takes aliases of the accounts being migrated: without
\* this a key chosen on the listing may be in use when it is written.
AliasesElsewhere ==
  \A r \in Others : r.kind \in {"alias", "unalias"} =>
    \A b \in InitAccounts : b.id = r.id /\ b.type = "User" =>
      \A src \in Sources : \A i \in DOMAIN src : src[i].name # b.email

LEMMA ServeKeeps ==
  ASSUME AliasesElsewhere, AdditiveInv, NEW r \in Others, Serve(r)
  PROVE  /\ accounts' \subseteq Account /\ migrated' \subseteq Nat \X Nat
         /\ changed' \subseteq Nat
         /\ \A a, b \in accounts' : a.id = b.id => a = b
         /\ \A a \in accounts' : CameFromInit(a)
<1>1. r \in OtherRequest /\ accounts \subseteq Account /\ migrated \subseteq Nat \X Nat /\ changed \subseteq Nat
  BY MigrationAssumption DEF AdditiveInv, TypeOK
<1>2. CASE ServePassword(r)
  <2>A. PICK a \in accounts : \E w \in PasswordWrites(a) :
          accounts' = WrittenTo(accounts, w) /\ migrated' = migrated \ {<<w.id, w.key>>}
    BY <1>2 DEF ServePassword, Served
  <2>1. PICK w \in PasswordWrites(a) :
          accounts' = WrittenTo(accounts, w) /\ migrated' = migrated \ {<<w.id, w.key>>}
    BY <2>A
  <2>2. w \in SecretKind /\ Benign(w)
    BY <1>1, <2>1, PasswordBenign DEF AdditiveInv
  <2> DEFINE New(x) == IF x.id = w.id THEN Written(x, w) ELSE x
  <2>3. accounts' = {New(x) : x \in accounts}
    BY <2>1 DEF WrittenTo
  <2>4. \A x \in accounts : New(x) \in Account /\ CameFromInit(New(x)) /\ New(x).id = x.id
    BY <2>2, <1>1, WrittenAdds DEF AdditiveInv
  <2> HIDE DEF New
  <2>5. changed' \subseteq Nat
    BY <1>1, <1>2 DEF ServePassword, OtherRequest
  <2> QED BY <1>1, <2>1, <2>3, <2>4, <2>5 DEF AdditiveInv
<1>3. CASE ServeDelete(r)
  BY <1>1, <1>3 DEF ServeDelete, AdditiveInv, OtherRequest
<1>4. ASSUME NEW a \in accounts, a.id = r.id, r.kind \in {"alias", "unalias"}, NEW list \in SUBSET Alias,
             accounts' = (accounts \ {a}) \cup {[a EXCEPT !.aliases = list]}
      PROVE  /\ accounts' \subseteq Account
             /\ \A x, y \in accounts' : x.id = y.id => x = y
             /\ \A x \in accounts' : CameFromInit(x)
  <2> DEFINE c == [a EXCEPT !.aliases = list]
  <2>1. c \in Account /\ c.id = a.id /\ c.type = a.type /\ c.email = a.email /\ c.creds = a.creds
    BY <1>1, <1>4 DEF Account
  <2>2. PICK b \in InitAccounts : Came(a, b)
    BY DEF AdditiveInv, CameFromInit
  <2>3. ~InSql(b)
    BY <1>4, <2>2 DEF AliasesElsewhere, InSql, Came, AdditiveInv, TypeOK
  <2>4. Came(c, b)
    BY <2>1, <2>2, <2>3 DEF Came
  <2>5. accounts' = (accounts \ {a}) \cup {c}
    BY <1>4
  <2> HIDE DEF c
  <2> QED BY <1>1, <2>1, <2>4, <2>5 DEF AdditiveInv, CameFromInit
<1>5. CASE ServeAlias(r)
  <2>A. PICK a \in Served(r, accounts) : \E key \in NextListKey(KeysOf(a.aliases)) :
          accounts' = (accounts \ {a})
            \cup {[a EXCEPT !.aliases = a.aliases \cup {[key |-> key, addr |-> r.addr]}]}
    BY <1>5 DEF ServeAlias
  <2>1. PICK key \in NextListKey(KeysOf(a.aliases)) :
          accounts' = (accounts \ {a})
            \cup {[a EXCEPT !.aliases = a.aliases \cup {[key |-> key, addr |-> r.addr]}]}
    BY <2>A
  <2>2. a.aliases \subseteq Alias /\ KeysOf(a.aliases) \in SUBSET Nat
    BY <1>1 DEF Served, Account, Alias, KeysOf
  <2>3. key \in Nat /\ r.addr \in Address
    BY <1>1, <1>5, <2>2, NextListKeyFacts DEF ServeAlias, OtherRequest
  <2>4. a.aliases \cup {[key |-> key, addr |-> r.addr]} \in SUBSET Alias
    BY <2>2, <2>3 DEF Alias
  <2> QED BY <1>1, <1>4, <1>5, <2>1, <2>4 DEF ServeAlias, Served
<1>6. CASE ServeUnalias(r)
  <2>A. PICK a \in Served(r, accounts) : \E al \in VisibleAliases(a) :
          accounts' = (accounts \ {a}) \cup {[a EXCEPT !.aliases = a.aliases \ {al}]}
    BY <1>6 DEF ServeUnalias
  <2>1. PICK al \in VisibleAliases(a) :
          accounts' = (accounts \ {a}) \cup {[a EXCEPT !.aliases = a.aliases \ {al}]}
    BY <2>A
  <2>2. a.aliases \ {al} \in SUBSET Alias
    BY <1>1 DEF Served, Account
  <2> QED BY <1>1, <1>4, <1>6, <2>1, <2>2 DEF ServeUnalias, Served
<1> QED BY <1>2, <1>3, <1>5, <1>6 DEF Serve

LEMMA AdditiveInit ==
  ASSUME Init
  PROVE  AdditiveInv
<1>1. TypeOK
  <2>1. InitAccounts \subseteq Account /\ {} \in Onlys /\ 0 \in 0..MaxFaults /\ 0 \in 0..MaxOthers
    BY MigrationAssumption
  <2> QED BY <2>1 DEF Init, TypeOK
<1>2. \A a \in accounts : Came(a, a)
  BY DEF Came
<1> QED BY <1>1, <1>2, MigrationAssumption DEF Init, AdditiveInv, CameFromInit

\* One step of the tool or of the application keeps the invariant; one of the
\* tool only adds.
LEMMA AdditiveStep ==
  ASSUME AliasesElsewhere, AdditiveInv, [Next]_vars
  PROVE  AdditiveInv' /\ OnlyAdds
<1> USE DEF dir, run
<1>0. sql' = sql
  BY DEF Next, Run, Launch, ListAccounts, Check, Write, Refuse, Fail, End, Arrive, Serve, vars
<1>1. /\ \A a : CameFromInit(a)' <=> CameFromInit(a)
      /\ \A w : Benign(w)' <=> Benign(w)
      /\ \A i, name : FirstNamed(i, name)' <=> FirstNamed(i, name)
      /\ \A i : AllHosted(i)' <=> AllHosted(i)
  BY <1>0, SqlFixed
<1>2. ASSUME UNCHANGED dir PROVE OnlyAdds
  BY <1>2 DEF OnlyAdds, AdditiveInv
<1>3. CASE UNCHANGED vars
  BY <1>0, <1>1, <1>2, <1>3 DEF vars, AdditiveInv, TypeOK
<1>4. ASSUME NEW f \in BOOLEAN, NEW o \in Onlys, Launch(f, o) PROVE AdditiveInv' /\ OnlyAdds
  BY <1>0, <1>1, <1>2, <1>4 DEF Launch, AdditiveInv, TypeOK
<1>5. CASE ListAccounts
  BY <1>0, <1>1, <1>2, <1>5 DEF ListAccounts, AdditiveInv, TypeOK
<1>6. CASE Check
  <2>1. UNCHANGED <<dir, late, changed, faults, others>>
    BY <1>6 DEF Check
  <2>2. CASE End("error") \/ End("done") \/ End("dry")
    BY <1>0, <1>1, <1>2, <2>1, <2>2 DEF End, AdditiveInv, TypeOK
  <2>3. CASE /\ phase' = "write" /\ todo' = Selected(sql, only)
             /\ \A i \in Selected(sql, only) : ~Problem(sql, Selected(sql, only), snapshot, i)
             /\ UNCHANGED <<sql, apply, only, snapshot, patched, result>>
    <3>1. \A i \in todo' : FirstNamed(i, sql[i].name) /\ AllHosted(i)
      <4> SUFFICES ASSUME NEW i \in Selected(sql, only)
                   PROVE  FirstNamed(i, sql[i].name) /\ AllHosted(i)
        BY <2>3
      <4>1. ~Problem(sql, Selected(sql, only), snapshot, i)
        BY <2>3
      <4>2. AllHosted(i)
        BY <4>1 DEF Problem, AllHosted
      <4>3. i \in Active(sql) /\ Active(sql) \subseteq Nat
        <5>1. sql \in Seq(SqlAccount)
          BY MigrationAssumption DEF AdditiveInv, TypeOK
        <5> QED BY <5>1 DEF Selected, Active
      <4>4. ASSUME NEW j \in Active(sql), j < i PROVE sql[j].name # sql[i].name
        <5>1. CASE only = {}
          <6>1. j \in Selected(sql, only) /\ j # i
            BY <4>3, <4>4, <5>1 DEF Selected
          <6> QED BY <4>1, <6>1 DEF Problem
        <5>2. CASE only # {}
          BY <4>4, <5>2 DEF Selected
        <5> QED BY <5>1, <5>2
      <4> QED BY <4>2, <4>3, <4>4 DEF FirstNamed
    <3>2. todo' \subseteq DOMAIN sql
      BY <2>3 DEF Selected, Active
    <3> QED BY <1>0, <1>1, <1>2, <2>1, <2>3, <3>1, <3>2 DEF AdditiveInv, TypeOK
  <2> QED BY <1>6, <2>2, <2>3 DEF Check
<1>7. ASSUME NEW i \in DOMAIN sql, Write(i) PROVE AdditiveInv' /\ OnlyAdds
  <2>1. PICK w \in NextWrites(i) : Perform(w)
    BY <1>7 DEF Write
  <2>2. w \in PatchKind \cup SecretKind /\ Benign(w)
    BY <1>7, NextWritesBenign DEF Write
  <2>3. /\ phase' \in {"idle", "write"} /\ apply' = apply /\ only' = only
        /\ snapshot' \in {{}, snapshot} /\ todo' \subseteq todo
        /\ patched' \in BOOLEAN /\ result' \in {"done", result}
        /\ phase = "write"
    BY <1>7 DEF Write, End, Current, AdditiveInv, TypeOK
  <2>4. UNCHANGED <<late, changed, faults, others>>
    BY <1>7 DEF Write
  <2> QED BY <1>0, <1>1, <2>1, <2>2, <2>3, <2>4, PerformAdds DEF AdditiveInv, TypeOK
<1>8. ASSUME NEW i \in DOMAIN sql, Refuse(i) PROVE AdditiveInv' /\ OnlyAdds
  BY <1>0, <1>1, <1>2, <1>8 DEF Refuse, End, AdditiveInv, TypeOK
<1>9. CASE Fail
  <2>1. /\ phase' = "idle" /\ apply' = apply /\ only' = only /\ snapshot' = {} /\ todo' = {}
        /\ patched' = FALSE /\ result' = "error" /\ UNCHANGED <<changed, others>>
        /\ faults' \in 0..MaxFaults
    BY <1>9, MigrationAssumption DEF Fail, End, AdditiveInv, TypeOK
  <2>2. CASE UNCHANGED <<dir, late>>
    BY <1>0, <1>1, <1>2, <2>1, <2>2 DEF AdditiveInv, TypeOK
  <2>3. ASSUME NEW i \in DOMAIN sql, Current(i), NEW w \in NextWrites(i),
               Perform(w), UNCHANGED late
        PROVE  AdditiveInv' /\ OnlyAdds
    <3>1. w \in PatchKind \cup SecretKind /\ Benign(w)
      BY <2>3, NextWritesBenign
    <3> QED BY <1>0, <1>1, <2>1, <2>3, <3>1, PerformAdds DEF AdditiveInv, TypeOK
  <2>4. ASSUME NEW i \in DOMAIN sql, Current(i), NEW w \in NextWrites(i),
               late' = late \cup {w}, UNCHANGED dir
        PROVE  AdditiveInv' /\ OnlyAdds
    <3>1. w \in PatchKind \cup SecretKind /\ Benign(w)
      BY <2>4, NextWritesBenign
    <3> QED BY <1>0, <1>1, <1>2, <2>1, <2>4, <3>1 DEF AdditiveInv, TypeOK
  <2> QED BY <1>9, <2>2, <2>3, <2>4 DEF Fail, Current, AdditiveInv, TypeOK
<1>10. ASSUME NEW w \in late, Arrive(w) PROVE AdditiveInv' /\ OnlyAdds
  <2>1. w \in PatchKind \cup SecretKind /\ Benign(w)
    BY DEF AdditiveInv, TypeOK
  <2>2. late' = late \ {w} /\ UNCHANGED <<sql, run, changed, faults, others>>
    BY <1>10 DEF Arrive
  <2>3. CASE Perform(w)
    BY <1>0, <1>1, <2>1, <2>2, <2>3, PerformAdds DEF AdditiveInv, TypeOK
  <2>4. CASE UNCHANGED dir
    BY <1>0, <1>1, <1>2, <2>2, <2>4 DEF AdditiveInv, TypeOK
  <2> QED BY <1>10, <2>3, <2>4 DEF Arrive
<1>11. ASSUME NEW r \in Others, Serve(r) PROVE AdditiveInv' /\ OnlyAdds
  <2>1. /\ UNCHANGED <<sql, run, late, faults>> /\ others' \in 0..MaxOthers /\ others' # others
    BY <1>11, MigrationAssumption DEF Serve, AdditiveInv, TypeOK
  <2>2. OnlyAdds
    BY <2>1 DEF OnlyAdds
  <2> QED BY <1>0, <1>1, <1>11, <2>1, <2>2, ServeKeeps DEF AdditiveInv, TypeOK
<1> QED BY <1>3, <1>4, <1>5, <1>6, <1>7, <1>8, <1>9, <1>10, <1>11 DEF Next, Run

\* The tool only adds, as long as nobody else changes the aliases of accounts
\* that are being migrated.
THEOREM MigrationOnlyAdds == ASSUME AliasesElsewhere PROVE Spec => NothingRemoved
<1>1. AdditiveInv /\ [Next]_vars => [OnlyAdds]_vars
  BY AdditiveStep
<1> QED BY <1>1, AdditiveInit, AdditiveStep, PTL DEF Spec, NothingRemoved

-----------------------------------------------------------------------------
(* One bad account stops a full run.                                       *)

\* What a step does to accounts leaves their names and types.
Named(accts, more) ==
  \A a \in accts : \E b \in more : b.id = a.id /\ b.type = a.type /\ b.email = a.email

LEMMA WrittenNamed ==
  ASSUME NEW accts \in SUBSET Account, NEW w \in PatchKind \cup SecretKind
  PROVE  Named(WrittenTo(accts, w), accts)
<1> SUFFICES ASSUME NEW a \in accts
             PROVE  /\ Written(a, w).id = a.id /\ Written(a, w).type = a.type
                    /\ Written(a, w).email = a.email
  BY DEF Named, WrittenTo
<1>1. CASE w \in PatchKind
  BY <1>1 DEF Written, PatchKind, Account
<1>2. CASE w \in SecretKind
  BY <1>2 DEF Written, SecretKind, Account
<1> QED BY <1>1, <1>2

LEMMA ServeNamed ==
  ASSUME TypeOK, NEW r \in Others, Serve(r)
  PROVE  Named(accounts', accounts)
<1>1. accounts \subseteq Account
  BY DEF TypeOK
<1>2. CASE ServePassword(r)
  <2>1. PICK a \in accounts : \E w \in PasswordWrites(a) : accounts' = WrittenTo(accounts, w)
    BY <1>2 DEF ServePassword, Served
  <2>2. PICK w \in PasswordWrites(a) : accounts' = WrittenTo(accounts, w)
    BY <2>1
  <2>3. w \in SecretKind
    BY <1>1, PasswordTyped
  <2> QED BY <1>1, <2>2, <2>3, WrittenNamed
<1>3. CASE ServeDelete(r)
  BY <1>3 DEF ServeDelete, Named
<1>4. ASSUME NEW a \in accounts, NEW list,
             accounts' = (accounts \ {a}) \cup {[a EXCEPT !.aliases = list]}
      PROVE  Named(accounts', accounts)
  <2>1. LET c == [a EXCEPT !.aliases = list]
        IN  c.id = a.id /\ c.type = a.type /\ c.email = a.email
    BY <1>1 DEF Account
  <2> QED BY <1>4, <2>1 DEF Named
<1>5. CASE ServeAlias(r)
  BY <1>4, <1>5 DEF ServeAlias, Served
<1>6. CASE ServeUnalias(r)
  BY <1>4, <1>6 DEF ServeUnalias, Served
<1> QED BY <1>2, <1>3, <1>5, <1>6 DEF Serve

\* A run that is writing has listed the accounts it writes to, and no SQL account
\* is bad if it writes to all of them.
SourceInv ==
  /\ TypeOK
  /\ Named(accounts, InitAccounts) /\ Named(snapshot, InitAccounts)
  /\ phase # "idle" => ~Unreadable(sql)
  /\ (phase = "write" /\ only = {}) => \A i \in Active(sql) : ~Bad(i)

LEMMA SourceInit == Init => SourceInv
  BY TypeInit DEF Init, SourceInv, Named

\* The checks of a full run find every bad account.
LEMMA CheckFindsBad ==
  ASSUME SourceInv, phase = "domains", only = {}, NEW i \in Active(sql), Bad(i)
  PROVE  Problem(sql, Selected(sql, only), snapshot, i)
<1>1. sql[i] \in SqlAccount
  BY MigrationAssumption DEF SourceInv, TypeOK, Active
<1>2. CASE \A a \in InitAccounts : a.type = "User" => a.email # sql[i].name
  BY <1>2 DEF SourceInv, Named, Match, Problem
<1>3. ASSUME NEW e \in sql[i].emails, e.type = "list" PROVE FALSE
  BY <1>3 DEF SourceInv, Unreadable
<1>4. ASSUME NEW e \in sql[i].emails, e.type = "alias",
             e.addr \in Malformed \/ e.addr.domain \notin Hosted
      PROVE  Problem(sql, Selected(sql, only), snapshot, i)
  <2>1. e.addr \in AliasesOf(sql[i])
    BY <1>4 DEF AliasesOf
  <2> QED BY <1>4, <2>1 DEF Problem
<1> QED BY <1>2, <1>3, <1>4 DEF Bad, Problem

LEMMA SourceStep == SourceInv /\ [Next]_vars => SourceInv' /\ [LeavesNoTrace]_vars
<1> SUFFICES ASSUME SourceInv, [Next]_vars PROVE SourceInv' /\ LeavesNoTrace
  OBVIOUS
<1> USE DEF dir, run
<1>0. TypeOK' /\ TypeOK
  BY TypeStep DEF SourceInv
<1>s. sql' = sql
  BY DEF Next, Run, Launch, ListAccounts, Check, Write, Refuse, Fail, End, Arrive, Serve, vars
<1>b. \A i : Bad(i)' <=> Bad(i)
  BY <1>s DEF Bad
<1>n. ASSUME NEW w \in PatchKind \cup SecretKind, Perform(w) PROVE Named(accounts', InitAccounts)
  BY <1>0, <1>n, WrittenNamed DEF Perform, TypeOK, SourceInv, Named
<1>1. CASE UNCHANGED vars
  BY <1>0, <1>1, <1>b DEF vars, SourceInv, LeavesNoTrace
<1>2. ASSUME NEW f \in BOOLEAN, NEW o \in Onlys, Launch(f, o)
      PROVE  SourceInv' /\ LeavesNoTrace
  BY <1>0, <1>2 DEF Launch, SourceInv, LeavesNoTrace
<1>3. CASE ListAccounts
  BY <1>0, <1>3 DEF ListAccounts, SourceInv, LeavesNoTrace
<1>4. CASE Check
  <2>1. UNCHANGED <<dir, late>>
    BY <1>4 DEF Check
  <2>2. LeavesNoTrace
    BY <2>1 DEF LeavesNoTrace
  <2>3. CASE End("error") \/ End("done") \/ End("dry")
    BY <1>0, <2>1, <2>2, <2>3 DEF End, SourceInv, Named
  <2>4. CASE /\ phase = "domains" /\ phase' = "write" /\ UNCHANGED <<only, snapshot>>
             /\ \A i \in Selected(sql, only) : ~Problem(sql, Selected(sql, only), snapshot, i)
    <3>1. only = {} => \A i \in Active(sql) : ~Bad(i)
      BY <2>4, CheckFindsBad DEF Selected
    <3> QED BY <1>0, <1>b, <1>s, <2>1, <2>2, <2>4, <3>1 DEF SourceInv
  <2> QED BY <1>4, <2>3, <2>4 DEF Check
<1>5. ASSUME NEW i \in DOMAIN sql, Write(i) PROVE SourceInv' /\ LeavesNoTrace
  <2>1. PICK w \in NextWrites(i) : Perform(w)
    BY <1>5 DEF Write
  <2>2. Named(accounts', InitAccounts)
    BY <1>0, <1>n, <2>1, NextWritesTyped
  <2>3. phase = "write" /\ only' = only /\ snapshot' \in {{}, snapshot}
    BY <1>5 DEF Write, Current, End
  <2>4. Named(snapshot', InitAccounts)
    BY <2>3 DEF SourceInv, Named
  <2> QED BY <1>0, <1>b, <1>s, <2>2, <2>3, <2>4 DEF SourceInv, LeavesNoTrace
<1>6. ASSUME NEW i \in DOMAIN sql, Refuse(i) PROVE SourceInv' /\ LeavesNoTrace
  BY <1>0, <1>6 DEF Refuse, End, SourceInv, LeavesNoTrace, Named
<1>7. CASE Fail
  <2>1. phase' = "idle" /\ snapshot' = {}
    BY <1>7 DEF Fail, End
  <2>2. CASE UNCHANGED <<dir, late>>
    BY <1>0, <2>1, <2>2 DEF SourceInv, LeavesNoTrace, Named
  <2>3. ASSUME NEW i \in todo, Current(i), NEW w \in NextWrites(i),
               Perform(w) \/ UNCHANGED dir
        PROVE  SourceInv' /\ LeavesNoTrace
    <3>1. Named(accounts', InitAccounts)
      BY <1>0, <1>n, <2>3, NextWritesTyped DEF TypeOK, SourceInv
    <3>2. phase = "write"
      BY <2>3 DEF Current
    <3> QED BY <1>0, <2>1, <3>1, <3>2 DEF SourceInv, LeavesNoTrace, Named
  <2> QED BY <1>7, <2>2, <2>3 DEF Fail
<1>8. ASSUME NEW w \in late, Arrive(w) PROVE SourceInv' /\ LeavesNoTrace
  <2>1. late' = late \ {w} /\ UNCHANGED <<sql, run>>
    BY <1>8 DEF Arrive
  <2>2. Named(accounts', InitAccounts)
    BY <1>0, <1>8, <1>n DEF Arrive, TypeOK, SourceInv
  <2> QED BY <1>0, <1>b, <2>1, <2>2 DEF SourceInv, LeavesNoTrace
<1>9. ASSUME NEW r \in Others, Serve(r) PROVE SourceInv' /\ LeavesNoTrace
  <2>1. UNCHANGED <<sql, run, late>> /\ others' # others
    BY <1>0, <1>9, MigrationAssumption DEF Serve, TypeOK
  <2>2. Named(accounts', accounts)
    BY <1>0, <1>9, ServeNamed
  <2>3. Named(accounts', InitAccounts)
    BY <2>2 DEF SourceInv, Named
  <2> QED BY <1>0, <1>b, <2>1, <2>3 DEF SourceInv, LeavesNoTrace
<1> QED BY <1>1, <1>2, <1>3, <1>4, <1>5, <1>6, <1>7, <1>8, <1>9 DEF Next, Run

\* A run over the whole SQL directory does not write, and leaves no write under
\* way, when one account anywhere can not be migrated: whatever other runs have
\* done or left under way, and whatever the application serves.
THEOREM MigrationAllOrNothing == Spec => BadSourceLeavesNoTrace
<1> QED BY SourceInit, SourceStep, PTL DEF Spec, BadSourceLeavesNoTrace

-----------------------------------------------------------------------------
(* A run that reports success.  What the writes of a run achieve lasts,    *)
(* and what the run relies on of its listing is still so when it writes.   *)

\* How account s may have changed into a, of the same id, however much later.
Kept(s, a) ==
  /\ a.id = s.id /\ a.type = s.type /\ a.email = s.email
  /\ s.admin => a.admin
  /\ InSql(s) => s.aliases \subseteq a.aliases
  /\ \/ a.quota = s.quota
     \/ \E i \in DOMAIN sql : FirstNamed(i, s.email) /\ a.quota = sql[i].quota
  /\ (\E cr \in s.creds : cr.type = "Password") => a.creds = s.creds

\* A patch sets the quota the SQL directory has, if it sets one.
QuotaFits(w) ==
  w \in PatchKind =>
    \/ w.quota = 0
    \/ \E b \in InitAccounts, i \in DOMAIN sql :
         b.id = w.id /\ FirstNamed(i, b.email) /\ w.quota = sql[i].quota

Chosen(i) ==
  /\ FirstNamed(i, sql[i].name)
  /\ \E b \in InitAccounts : b.type = "User" /\ b.email = sql[i].name

HasProfile(s, a) ==
  /\ s.admin => a.admin
  /\ s.quota > 0 => a.quota = s.quota
  /\ AliasesOf(s) \subseteq {a.email} \cup {al.addr : al \in a.aliases}

Profiled(i) == \A a \in accounts : a.email = sql[i].name => HasProfile(sql[i], a)

Secured(i) ==
  \A a \in accounts : a.email = sql[i].name /\ a.id \notin changed =>
    \E k \in LoginKeys(a) : <<a.id, k>> \in migrated

\* The run is past its checks, or has reported success since.
Settling ==
  phase = "write" \/ result = "done" =>
    \A i \in Selected(sql, only) :
      /\ Chosen(i)
      /\ i \notin todo => Profiled(i) /\ Secured(i)
      /\ patched /\ (\A j \in todo : i <= j) => Profiled(i)

DoneInv ==
  /\ AdditiveInv
  /\ \A s, t \in snapshot : s.id = t.id => s = t
  /\ \A s \in snapshot, a \in accounts : s.id = a.id => Kept(s, a)
  /\ \A w \in late : QuotaFits(w)
  /\ phase # "idle" => result = "none"
  /\ phase # "write" => todo = {} /\ ~patched
  /\ todo \subseteq Selected(sql, only)
  /\ Settling

LEMMA KeptTransitive ==
  ASSUME NEW s, NEW a, NEW b, Kept(s, a), Kept(a, b)
  PROVE  Kept(s, b)
<1>1. InSql(a) <=> InSql(s)
  BY DEF Kept, InSql
<1> QED BY <1>1 DEF Kept

\* What an account has of the SQL directory's profile it does not lose.
LEMMA ProfileKept ==
  ASSUME TypeOK, NEW i \in DOMAIN sql, Chosen(i), NEW a, CameFromInit(a), NEW b, Kept(a, b),
         a.email = sql[i].name, HasProfile(sql[i], a)
  PROVE  HasProfile(sql[i], b)
<1>1. InSql(a)
  <2>1. PICK c \in InitAccounts : Came(a, c)
    BY DEF CameFromInit
  <2>2. PICK d \in InitAccounts : d.type = "User" /\ d.email = sql[i].name
    BY DEF Chosen
  <2>3. c = d
    BY <2>1, <2>2, MigrationAssumption DEF Came
  <2> QED BY <2>1, <2>2, <2>3 DEF InSql, Came
<1>2. a.quota = sql[i].quota => b.quota = sql[i].quota
  BY FirstNamedUnique DEF Kept, Chosen
<1> QED BY <1>1, <1>2 DEF HasProfile, Kept

\* A new Password credential for an account without one.
LEMMA CredentialWritten ==
  ASSUME NEW b \in InitAccounts, NEW a \in Account, Came(a, b),
         NEW w \in SecretKind, w.kind = "credential", w.key \in NewKeys(b)
  PROVE  /\ Written(a, w) = [a EXCEPT !.creds = b.creds \cup {[key |-> w.key, type |-> "Password"]}]
         /\ \/ a.creds = b.creds
            \/ a.creds = b.creds \cup {[key |-> w.key, type |-> "Password"]}
<1> DEFINE new == [key |-> w.key, type |-> "Password"]
<1>1. Written(a, w) = [a EXCEPT !.creds = PutEntry(a.creds, new)]
  BY DEF Written
<1>2. KeysOf(b.creds) \in SUBSET Nat
  BY MigrationAssumption DEF KeysOf, Account, Credential
<1>3. /\ w.key \in Nat /\ \A cr \in b.creds : cr.key # w.key
      /\ \A k \in NewKeys(b) : k = w.key
  <2>1. w.key \in NextListKey(KeysOf(b.creds)) /\ NewKeys(b) \subseteq NextListKey(KeysOf(b.creds))
    BY DEF NewKeys
  <2>2. w.key \in Nat /\ (\A x \in KeysOf(b.creds) : x < w.key) /\ \A k \in NewKeys(b) : k = w.key
    BY <1>2, <2>1, NextListKeyFacts
  <2>3. \A cr \in b.creds : cr.key \in KeysOf(b.creds)
    BY DEF KeysOf
  <2> QED BY <1>2, <2>2, <2>3
<1>4. a.creds = b.creds \/ a.creds = b.creds \cup {new}
  BY <1>3 DEF Came
<1>5. PutEntry(a.creds, new) = b.creds \cup {new}
  BY <1>3, <1>4 DEF PutEntry
<1> QED BY <1>1, <1>4, <1>5

\* An account takes every write as Kept allows.
LEMMA WrittenKept ==
  ASSUME TypeOK, NEW a \in Account, CameFromInit(a), NEW w \in PatchKind \cup SecretKind,
         Benign(w), QuotaFits(w), w.id = a.id
  PROVE  Kept(a, Written(a, w))
<1>1. PICK b \in InitAccounts : Came(a, b)
  BY DEF CameFromInit
<1>2. \A c \in InitAccounts : c.id = w.id => c = b
  BY <1>1, MigrationAssumption DEF Came
<1>3. (a.admin => Written(a, w).admin) /\ a.aliases \subseteq Written(a, w).aliases
  BY WrittenAdds
<1>4. CASE w \in PatchKind
  <2>1. /\ Written(a, w).id = a.id /\ Written(a, w).type = a.type
        /\ Written(a, w).email = a.email /\ Written(a, w).creds = a.creds
        /\ Written(a, w).quota = IF w.quota = 0 THEN a.quota ELSE w.quota
    BY <1>4 DEF Written, PatchKind, Account
  <2>2. w.quota = 0 \/ \E i \in DOMAIN sql : FirstNamed(i, a.email) /\ w.quota = sql[i].quota
    BY <1>1, <1>2, <1>4 DEF QuotaFits, Came
  <2> QED BY <1>3, <2>1, <2>2 DEF Kept
<1>5. CASE w \in SecretKind /\ w.kind = "credential"
  <2> DEFINE new == [key |-> w.key, type |-> "Password"]
  <2>1. w.key \in NewKeys(b)
    BY <1>2, <1>5 DEF Benign
  <2>2. /\ Written(a, w) = [a EXCEPT !.creds = b.creds \cup {new}]
        /\ a.creds = b.creds \/ a.creds = b.creds \cup {new}
    BY <1>1, <1>5, <2>1, CredentialWritten
  <2>3. /\ Written(a, w).id = a.id /\ Written(a, w).type = a.type
        /\ Written(a, w).email = a.email /\ Written(a, w).quota = a.quota
        /\ Written(a, w).creds = b.creds \cup {new}
    BY <2>2 DEF Account
  <2>4. (\E cr \in a.creds : cr.type = "Password") => a.creds = b.creds \cup {new}
    BY <2>1, <2>2 DEF NewKeys
  <2> QED BY <1>3, <2>3, <2>4 DEF Kept
<1>6. CASE w \in SecretKind /\ w.kind = "secret"
  BY <1>6 DEF Written, Kept
<1> QED BY <1>4, <1>5, <1>6 DEF SecretKind

\* The credential a password write sets is the one its owner signs in with.
LEMMA LoginKeyWritten ==
  ASSUME NEW b \in InitAccounts, NEW s \in Account, NEW a \in Account, Came(s, b), Came(a, b),
         NEW w \in PasswordWrites(s), w.kind = "secret" => w.key \in KeysOf(a.creds)
  PROVE  w.key \in LoginKeys(Written(a, w))
<1>1. KeysOf(b.creds) \in SUBSET Nat /\ b \in Account
  BY MigrationAssumption DEF KeysOf, Account, Credential
<1>2. ASSUME NEW k \in NewKeys(b)
      PROVE  k \in Nat /\ (\A cr \in b.creds : cr.key # k) /\ \A n \in NewKeys(b) : n = k
  <2>1. k \in NextListKey(KeysOf(b.creds)) /\ NewKeys(b) \subseteq NextListKey(KeysOf(b.creds))
    BY DEF NewKeys
  <2>2. k \in Nat /\ (\A x \in KeysOf(b.creds) : x < k) /\ \A n \in NewKeys(b) : n = k
    BY <1>1, <2>1, NextListKeyFacts
  <2>3. \A cr \in b.creds : cr.key \in KeysOf(b.creds)
    BY DEF KeysOf
  <2> QED BY <1>1, <2>2, <2>3
<1>3. CASE \A cr \in s.creds : cr.type # "Password"
  <2> DEFINE new == [key |-> w.key, type |-> "Password"]
  <2>1. PICK k \in NextListKey(KeysOf(s.creds)) : w = [kind |-> "credential", id |-> s.id, key |-> k]
    BY <1>3 DEF PasswordWrites
  <2>2. s.creds = b.creds
    <3>1. ASSUME NEW n, s.creds = b.creds \cup {[key |-> n, type |-> "Password"]} PROVE FALSE
      <4>1. [key |-> n, type |-> "Password"] \in s.creds
        BY <3>1
      <4> QED BY <1>3, <4>1
    <3> QED BY <3>1 DEF Came
  <2>3. w.key \in NewKeys(b)
    BY <1>3, <2>1, <2>2 DEF NewKeys
  <2>4. Written(a, w) = [a EXCEPT !.creds = b.creds \cup {new}]
    <3>1. w \in SecretKind /\ w.kind = "credential"
      BY <2>1, PasswordTyped
    <3> QED BY <2>3, <3>1, CredentialWritten
  <2>5. Written(a, w).creds = b.creds \cup {new}
    BY <2>4 DEF Account
  <2>6. \A cr \in b.creds : cr.type # "Password"
    BY <2>3 DEF NewKeys
  <2>7. w.key \in Nat
    BY <1>2, <2>3
  <2>8. \A y \in Written(a, w).creds : y.type = "Password" => y = new
    BY <2>5, <2>6
  <2>9. new \in Written(a, w).creds /\ new.type = "Password" /\ new.key = w.key
    BY <2>5
  <2> HIDE DEF new
  <2> QED BY <2>7, <2>8, <2>9 DEF LoginKeys
<1>4. CASE \E cr \in s.creds : cr.type = "Password"
  <2>1. PICK cr \in s.creds :
          /\ w = [kind |-> "secret", id |-> s.id, key |-> cr.key] /\ cr.type = "Password"
          /\ \A y \in s.creds : y.type = "Password" => cr.key <= y.key
    BY <1>4 DEF PasswordWrites
  <2>2. Written(a, w) = a
    BY <2>1 DEF Written
  <2>3. a.creds = s.creds
    <3>1. CASE a.creds = b.creds /\ s.creds # b.creds
      <4>1. PICK k \in NewKeys(b) : s.creds = b.creds \cup {[key |-> k, type |-> "Password"]}
        BY <3>1 DEF Came
      <4>2. cr.key = k
        BY <2>1, <4>1 DEF NewKeys
      <4>3. \E x \in a.creds : x.key = k
        BY <2>1, <4>2 DEF KeysOf
      <4> QED BY <1>2, <3>1, <4>3
    <3>2. CASE a.creds # b.creds /\ s.creds = b.creds
      BY <2>1, <3>2 DEF Came, NewKeys
    <3>3. CASE a.creds # b.creds /\ s.creds # b.creds
      <4>1. PICK k \in NewKeys(b) : s.creds = b.creds \cup {[key |-> k, type |-> "Password"]}
        BY <3>3 DEF Came
      <4>2. PICK n \in NewKeys(b) : a.creds = b.creds \cup {[key |-> n, type |-> "Password"]}
        BY <3>3 DEF Came
      <4> QED BY <1>2, <4>1, <4>2
    <3> QED BY <3>1, <3>2, <3>3
  <2>4. w.key = cr.key
    BY <2>1
  <2> QED BY <2>1, <2>2, <2>3, <2>4 DEF LoginKeys
<1> QED BY <1>3, <1>4

\* What no step undoes: an account is as Kept allows, and an SQL hash stays the
\* password unless its owner chose another.
Lasting ==
  /\ sql' = sql
  /\ \A b \in accounts' : \E a \in accounts : Kept(a, b)
  /\ changed \subseteq changed'
  /\ \A p \in migrated : p \in migrated' \/ p[1] \in changed'

LEMMA KeptItself == \A a : Kept(a, a)
  BY DEF Kept

LEMMA PerformLasts ==
  ASSUME AdditiveInv, NEW w \in PatchKind \cup SecretKind, Benign(w), QuotaFits(w), Perform(w)
  PROVE  /\ \A b \in accounts' : \E a \in accounts : Kept(a, b)
         /\ migrated \subseteq migrated'
<1>1. migrated \subseteq migrated'
  BY DEF Perform
<1>2. ASSUME NEW a \in accounts, a.id = w.id PROVE Kept(a, Written(a, w))
  BY <1>2, WrittenKept DEF AdditiveInv, TypeOK
<1> QED BY <1>1, <1>2, KeptItself DEF Perform, WrittenTo

LEMMA ServeLasts ==
  ASSUME AliasesElsewhere, AdditiveInv, NEW r \in Others, Serve(r)
  PROVE  Lasting
<1>1. sql' = sql /\ accounts \subseteq Account /\ TypeOK
  BY DEF Serve, AdditiveInv, TypeOK
<1>2. CASE ServePassword(r)
  <2>1. PICK a \in accounts : a.id = r.id /\ \E w \in PasswordWrites(a) :
          accounts' = WrittenTo(accounts, w) /\ migrated' = migrated \ {<<w.id, w.key>>}
    BY <1>2 DEF ServePassword, Served
  <2>2. PICK w \in PasswordWrites(a) :
          accounts' = WrittenTo(accounts, w) /\ migrated' = migrated \ {<<w.id, w.key>>}
    BY <2>1
  <2>3. w \in SecretKind /\ Benign(w) /\ w.id = r.id
    BY <1>1, <2>1, PasswordBenign DEF AdditiveInv
  <2>4. QuotaFits(w)
    BY <2>3 DEF QuotaFits, PatchKind, SecretKind
  <2>5. \A x \in accounts : x.id = w.id => Kept(x, Written(x, w))
    BY <1>1, <2>3, <2>4, WrittenKept DEF AdditiveInv
  <2>6. changed' = changed \cup {r.id}
    BY <1>2 DEF ServePassword
  <2>7. \A b \in accounts' : \E x \in accounts : Kept(x, b)
    BY <2>2, <2>5, KeptItself DEF WrittenTo
  <2> QED BY <1>1, <2>2, <2>3, <2>6, <2>7 DEF Lasting
<1>3. CASE ServeDelete(r)
  BY <1>1, <1>3, KeptItself DEF ServeDelete, Lasting
<1>4. ASSUME NEW a \in accounts, a.id = r.id, r.kind \in {"alias", "unalias"}, NEW list,
             accounts' = (accounts \ {a}) \cup {[a EXCEPT !.aliases = list]},
             UNCHANGED <<migrated, changed>>
      PROVE  Lasting
  <2> DEFINE c == [a EXCEPT !.aliases = list]
  <2>1. /\ c.id = a.id /\ c.type = a.type /\ c.email = a.email /\ c.creds = a.creds
        /\ c.admin = a.admin /\ c.quota = a.quota
    BY <1>1 DEF Account
  <2>2. PICK b \in InitAccounts : Came(a, b)
    BY DEF AdditiveInv, CameFromInit
  <2>3. ~InSql(a)
    BY <1>1, <1>4, <2>2 DEF AliasesElsewhere, InSql, Came, TypeOK
  <2> HIDE DEF c
  <2>4. Kept(a, c)
    BY <2>1, <2>3 DEF Kept
  <2>5. accounts' = (accounts \ {a}) \cup {c}
    BY <1>4 DEF c
  <2> QED BY <1>1, <1>4, <2>4, <2>5, KeptItself DEF Lasting
<1>5. CASE ServeAlias(r)
  BY <1>4, <1>5 DEF ServeAlias, Served
<1>6. CASE ServeUnalias(r)
  BY <1>4, <1>6 DEF ServeUnalias, Served
<1> QED BY <1>2, <1>3, <1>5, <1>6 DEF Serve

LEMMA NextWritesFit ==
  ASSUME AdditiveInv, NEW i \in DOMAIN sql, Current(i), NEW w \in NextWrites(i)
  PROVE  QuotaFits(w)
<1>1. PICK a \in Match(snapshot, sql[i].name) :
        \E p \in Patches(sql[i], a), q \in PasswordWrites(a) : w = p \/ w = q
  BY DEF NextWrites
<1>2. a \in Account /\ a.email = sql[i].name /\ CameFromInit(a)
  BY <1>1 DEF AdditiveInv, TypeOK, Match
<1>3. PICK b \in InitAccounts : b.id = a.id /\ b.email = a.email
  BY <1>2 DEF CameFromInit, Came
<1>4. FirstNamed(i, b.email)
  BY <1>2, <1>3 DEF AdditiveInv, Current
<1>5. \A p \in Patches(sql[i], a) : p.id = a.id /\ p.quota \in {0, sql[i].quota}
  BY DEF Patches
<1>6. \A q \in PasswordWrites(a) : q \notin PatchKind
  BY <1>2, PasswordTyped DEF PatchKind, SecretKind
<1> QED BY <1>1, <1>3, <1>4, <1>5, <1>6 DEF QuotaFits

LEMMA StepLasts ==
  ASSUME AliasesElsewhere, AdditiveInv, \A w \in late : QuotaFits(w), [Next]_vars
  PROVE  Lasting
<1> USE DEF dir, run
<1>0. sql' = sql
  BY DEF Next, Run, Launch, ListAccounts, Check, Write, Refuse, Fail, End, Arrive, Serve, vars
<1>1. ASSUME UNCHANGED <<dir, changed>> PROVE Lasting
  BY <1>0, <1>1, KeptItself DEF Lasting
<1>2. ASSUME NEW w \in PatchKind \cup SecretKind, Benign(w), QuotaFits(w), Perform(w), UNCHANGED changed
      PROVE  Lasting
  BY <1>0, <1>2, PerformLasts DEF Lasting
<1>3. ASSUME NEW i \in DOMAIN sql, Write(i) PROVE Lasting
  <2>1. Current(i) /\ UNCHANGED changed /\ \E w \in NextWrites(i) : Perform(w)
    BY <1>3 DEF Write
  <2> QED BY <1>2, <2>1, NextWritesBenign, NextWritesFit
<1>4. CASE Fail
  <2>1. \/ UNCHANGED <<dir, changed>>
        \/ \E i \in todo : /\ Current(i)
                           /\ \E w \in NextWrites(i) : Perform(w) /\ UNCHANGED changed
    BY <1>4 DEF Fail
  <2> QED BY <1>1, <1>2, <2>1, NextWritesBenign, NextWritesFit DEF AdditiveInv, TypeOK
<1>5. ASSUME NEW w \in late, Arrive(w) PROVE Lasting
  BY <1>1, <1>2, <1>5 DEF Arrive, AdditiveInv, TypeOK
<1>6. ASSUME NEW f, NEW o, Launch(f, o) PROVE Lasting
  BY <1>1, <1>6 DEF Launch
<1>7. CASE ListAccounts \/ Check \/ (\E i \in DOMAIN sql : Refuse(i)) \/ UNCHANGED vars
  BY <1>1, <1>7 DEF ListAccounts, Check, Refuse, vars
<1> QED BY <1>3, <1>4, <1>5, <1>6, <1>7, ServeLasts DEF Next, Run

\* What is settled stays so, and so does what a run relies on of its listing.
LEMMA LastingSettles ==
  ASSUME AdditiveInv, Lasting, NEW i \in DOMAIN sql, Chosen(i)
  PROVE  Chosen(i)' /\ (Profiled(i) => Profiled(i)') /\ (Secured(i) => Secured(i)')
<1>1. Chosen(i)'
  BY DEF Lasting, Chosen, FirstNamed
<1>2. ASSUME Profiled(i) PROVE Profiled(i)'
  <2> SUFFICES ASSUME NEW b \in accounts', b.email = sql[i].name PROVE HasProfile(sql[i], b)
    BY DEF Profiled, Lasting
  <2>1. PICK a \in accounts : Kept(a, b)
    BY DEF Lasting
  <2>2. a.email = sql[i].name
    BY <2>1 DEF Kept
  <2> QED BY <1>2, <2>1, <2>2, ProfileKept DEF Profiled, AdditiveInv
<1>3. ASSUME Secured(i) PROVE Secured(i)'
  <2> SUFFICES ASSUME NEW b \in accounts', b.email = sql[i].name, b.id \notin changed'
               PROVE  \E k \in LoginKeys(b) : <<b.id, k>> \in migrated'
    BY DEF Secured, Lasting
  <2>1. PICK a \in accounts : Kept(a, b)
    BY DEF Lasting
  <2>2. a.email = sql[i].name /\ a.id = b.id /\ a.id \notin changed
    BY <2>1 DEF Kept, Lasting
  <2>3. PICK k \in LoginKeys(a) : <<a.id, k>> \in migrated
    BY <1>3, <2>2 DEF Secured
  <2>4. a.creds = b.creds
    BY <2>1, <2>3 DEF Kept, LoginKeys
  <2>5. k \in LoginKeys(b)
    BY <2>3, <2>4 DEF LoginKeys
  <2>6. <<a.id, k>> \in migrated'
    BY <2>2, <2>3 DEF Lasting
  <2> QED BY <2>2, <2>5, <2>6
<1> QED BY <1>1, <1>2, <1>3

LEMMA LastingListing ==
  ASSUME Lasting, \A s \in snapshot, a \in accounts : s.id = a.id => Kept(s, a)
  PROVE  \A s \in snapshot, b \in accounts' : s.id = b.id => Kept(s, b)'
<1>1. \A x, y : Kept(x, y)' <=> Kept(x, y)
  BY DEF Lasting, Kept, InSql, FirstNamed
<1> SUFFICES ASSUME NEW s \in snapshot, NEW b \in accounts', s.id = b.id PROVE Kept(s, b)
  BY <1>1
<1>2. PICK a \in accounts : Kept(a, b)
  BY DEF Lasting
<1>3. a.id = s.id
  BY <1>2 DEF Kept
<1> QED BY <1>2, <1>3, KeptTransitive

\* The two writes of a run for one SQL account.
LEMMA PatchSettles ==
  ASSUME DoneInv, NEW i \in todo, Current(i), Lasting,
         NEW s \in Match(snapshot, sql[i].name), NEW p \in Patches(sql[i], s),
         p \in PatchKind, Empty(p) \/ Perform(p)
  PROVE  Profiled(i)'
<1>1. /\ sql' = sql /\ i \in DOMAIN sql /\ Chosen(i)
      /\ sql[i] \in SqlAccount /\ IsFiniteSet(sql[i].emails)
  BY MigrationAssumption
     DEF DoneInv, Settling, Current, AdditiveInv, TypeOK, Lasting
<1>2. s \in snapshot /\ s \in Account /\ s.email = sql[i].name /\ CameFromInit(s)
  BY DEF Match, DoneInv, AdditiveInv, TypeOK
<1>3. PICK new \in Fresh(sql[i], s) :
        p = [kind |-> "patch", id |-> s.id, admin |-> sql[i].admin /\ ~s.admin,
             quota |-> IF sql[i].quota # s.quota THEN sql[i].quota ELSE 0, aliases |-> new]
  BY DEF Patches
<1>4. \A addr \in Missing(sql[i], s) : \E x \in new : x.addr = addr
  BY <1>1, <1>2, <1>3, FreshFacts
<1>5. /\ p.aliases = new /\ p.id = s.id /\ p.kind = "patch"
      /\ p.quota = IF sql[i].quota # s.quota THEN sql[i].quota ELSE 0
      /\ p.admin = (sql[i].admin /\ ~s.admin)
  BY <1>3
<1>6. ASSUME NEW a \in accounts, a.email = sql[i].name PROVE a.id = s.id /\ Kept(s, a)
  <2>1. a.id = s.id
    BY <1>2, <1>6, MigrationAssumption DEF DoneInv, AdditiveInv, CameFromInit, Came
  <2> QED BY <1>2, <2>1 DEF DoneInv
<1>7. CASE Empty(p)
  <2>1. HasProfile(sql[i], s)
    BY <1>1, <1>2, <1>4, <1>5, <1>7 DEF Empty, HasProfile, Missing, VisibleAliases, SqlAccount
  <2>2. Profiled(i)
    BY <1>1, <1>2, <1>6, <2>1, ProfileKept DEF Profiled, DoneInv, AdditiveInv
  <2> QED BY <1>1, <2>2, LastingSettles DEF DoneInv
<1>8. CASE Perform(p)
  <2> SUFFICES ASSUME NEW b \in accounts', b.email = sql[i].name PROVE HasProfile(sql[i], b)
    BY <1>1 DEF Profiled
  <2>1. PICK a \in accounts : b = IF a.id = p.id THEN Written(a, p) ELSE a
    BY <1>8 DEF Perform, WrittenTo
  <2>2. /\ Written(a, p).email = a.email
        /\ Written(a, p).admin = (a.admin \/ p.admin)
        /\ Written(a, p).quota = IF p.quota = 0 THEN a.quota ELSE p.quota
        /\ Written(a, p).aliases = {al \in a.aliases : al.key \notin KeysOf(p.aliases)} \cup p.aliases
    BY <1>5 DEF Written, DoneInv, AdditiveInv, TypeOK, Account
  <2>3. a.email = sql[i].name
    BY <2>1, <2>2
  <2>4. b = Written(a, p) /\ Kept(s, a)
    BY <1>5, <1>6, <2>1, <2>3
  <2>5. p \in PatchKind /\ Benign(p) /\ CameFromInit(a) /\ a \in Account
    BY <1>1, <1>2, PatchBenign DEF Match, DoneInv, AdditiveInv, Current, TypeOK
  <2>6. a.aliases \subseteq b.aliases
    BY <1>5, <1>6, <2>3, <2>4, <2>5, WrittenAdds DEF DoneInv, AdditiveInv
  <2>7. s.aliases \subseteq a.aliases
    <3>1. s.type = "User" /\ InSql(s)
      BY <1>1, <1>2 DEF Match, InSql
    <3> QED BY <2>4, <3>1 DEF Kept
  <2>8. ASSUME NEW addr \in AliasesOf(sql[i]), addr # b.email
        PROVE  \E al \in b.aliases : al.addr = addr
    <3>1. CASE addr \in Missing(sql[i], s)
      BY <1>4, <1>5, <2>2, <2>4, <3>1
    <3>2. CASE addr \notin Missing(sql[i], s)
      <4>1. PICK al \in s.aliases : al.addr = addr
        BY <1>2, <2>2, <2>3, <2>4, <2>8, <3>2 DEF Missing, VisibleAliases
      <4> QED BY <2>6, <2>7, <4>1
    <3> QED BY <3>1, <3>2
  <2>9. AliasesOf(sql[i]) \subseteq {b.email} \cup {al.addr : al \in b.aliases}
    BY <2>8
  <2>10. sql[i].admin => b.admin
    BY <1>5, <2>2, <2>4 DEF Kept
  <2>11. sql[i].quota > 0 => b.quota = sql[i].quota
    <3>1. a.quota = s.quota \/ a.quota = sql[i].quota
      BY <1>1, <1>2, <2>4, FirstNamedUnique DEF Kept, Chosen, DoneInv, AdditiveInv
    <3> QED BY <1>1, <1>5, <2>2, <2>4, <3>1 DEF SqlAccount
  <2> QED BY <2>9, <2>10, <2>11 DEF HasProfile
<1> QED BY <1>7, <1>8

LEMMA PasswordSettles ==
  ASSUME DoneInv, NEW i \in todo, Current(i), Lasting,
         NEW s \in Match(snapshot, sql[i].name), NEW q \in PasswordWrites(s),
         Accepted(accounts, q), Perform(q)
  PROVE  Secured(i)'
<1>1. s \in Account /\ s.email = sql[i].name /\ CameFromInit(s)
  BY DEF Match, DoneInv, AdditiveInv, TypeOK
<1>2. q \in SecretKind /\ q.id = s.id
  BY <1>1, PasswordBenign
<1> SUFFICES ASSUME NEW b \in accounts', b.email = sql[i].name
             PROVE  \E k \in LoginKeys(b) : <<b.id, k>> \in migrated'
  BY DEF Secured, Lasting
<1>3. PICK a \in accounts : b = IF a.id = q.id THEN Written(a, q) ELSE a
  BY DEF Perform, WrittenTo
<1>4. Written(a, q).email = a.email /\ Written(a, q).id = a.id
  BY <1>2 DEF Written, SecretKind, DoneInv, AdditiveInv, TypeOK, Account
<1>5. a \in Account /\ CameFromInit(a) /\ a.email = s.email
  BY <1>1, <1>3, <1>4 DEF DoneInv, AdditiveInv, TypeOK
<1>6. PICK c \in InitAccounts : Came(a, c)
  BY <1>5 DEF CameFromInit
<1>7. Came(s, c) /\ a.id = s.id
  <2>1. PICK d \in InitAccounts : Came(s, d)
    BY <1>1 DEF CameFromInit
  <2>2. a.id = c.id /\ a.email = c.email /\ s.id = d.id /\ s.email = d.email
    BY <1>6, <2>1 DEF Came
  <2>3. c = d
    BY <1>5, <2>2, MigrationAssumption
  <2> QED BY <2>1, <2>2, <2>3
<1>8. q.kind = "secret" => q.key \in KeysOf(a.creds)
  BY <1>2, <1>7 DEF Accepted, DoneInv, AdditiveInv
<1>9. q.key \in LoginKeys(Written(a, q))
  BY <1>1, <1>5, <1>6, <1>7, <1>8, LoginKeyWritten
<1>10. <<q.id, q.key>> \in migrated'
  BY <1>2 DEF Perform, SecretKind
<1> QED BY <1>2, <1>3, <1>4, <1>7, <1>9, <1>10

LEMMA DoneInit == Init => DoneInv
<1> SUFFICES ASSUME Init PROVE DoneInv
  OBVIOUS
<1>1. AdditiveInv
  BY AdditiveInit
<1> QED BY <1>1 DEF Init, DoneInv, Settling

\* A run whose checks have passed found a user for each of its SQL accounts.
LEMMA CheckedChosen ==
  ASSUME DoneInv, NEW i \in Selected(sql, only),
         \A j \in Selected(sql, only) : ~Problem(sql, Selected(sql, only), snapshot, j)
  PROVE  Chosen(i)
<1>1. i \in Active(sql) /\ Active(sql) \subseteq Nat
  <2>1. sql \in Seq(SqlAccount)
    BY MigrationAssumption DEF DoneInv, AdditiveInv, TypeOK
  <2> QED BY <2>1 DEF Selected, Active
<1>2. ASSUME NEW j \in Active(sql), j < i PROVE sql[j].name # sql[i].name
  <2>1. CASE only = {}
    <3>1. j \in Selected(sql, only) /\ j # i
      BY <1>1, <1>2, <2>1 DEF Selected
    <3> QED BY <3>1 DEF Problem
  <2>2. CASE only # {}
    BY <1>2, <2>2 DEF Selected
  <2> QED BY <2>1, <2>2
<1>3. PICK a \in snapshot : a.type = "User" /\ a.email = sql[i].name
  BY DEF Problem, Match
<1>4. CameFromInit(a)
  BY DEF DoneInv, AdditiveInv
<1> QED BY <1>1, <1>2, <1>3, <1>4 DEF Chosen, FirstNamed, CameFromInit, Came

LEMMA DoneStep ==
  ASSUME AliasesElsewhere, DoneInv, [Next]_vars
  PROVE  DoneInv'
<1> USE DEF dir, run
<1>a. AdditiveInv /\ AdditiveInv' /\ TypeOK /\ TypeOK'
  BY AdditiveStep DEF DoneInv, AdditiveInv
<1>b. Lasting /\ sql' = sql
  BY StepLasts DEF DoneInv, Lasting
<1>c. /\ \A w : QuotaFits(w)' <=> QuotaFits(w)
      /\ \A x, y : Kept(x, y)' <=> Kept(x, y)
  BY <1>b DEF QuotaFits, Kept, InSql, FirstNamed
<1>d. \A names : Selected(sql, names) \subseteq DOMAIN sql
  BY DEF Selected, Active
<1>e. \A s \in snapshot, b \in accounts' : s.id = b.id => Kept(s, b)'
  BY <1>b, LastingListing DEF DoneInv
<1>f. ASSUME UNCHANGED <<phase, only, todo, patched, result>> PROVE Settling'
  BY <1>a, <1>b, <1>d, <1>f, LastingSettles DEF DoneInv, Settling
<1>g. ASSUME UNCHANGED run, late' \subseteq late PROVE DoneInv'
  BY <1>a, <1>b, <1>c, <1>e, <1>f, <1>g DEF DoneInv
<1>h. ASSUME End("error") \/ End("dry"), \A w \in late' : QuotaFits(w) PROVE DoneInv'
  BY <1>a, <1>b, <1>c, <1>h DEF DoneInv, Settling, End
<1>1. CASE UNCHANGED vars
  BY <1>1, <1>g DEF vars
<1>2. ASSUME NEW f \in BOOLEAN, NEW o \in Onlys, Launch(f, o) PROVE DoneInv'
  BY <1>a, <1>b, <1>c, <1>e, <1>2 DEF Launch, DoneInv, Settling
<1>3. CASE ListAccounts
  BY <1>a, <1>b, <1>c, <1>3, KeptItself DEF ListAccounts, DoneInv, AdditiveInv, Settling
<1>4. CASE Check
  <2>1. UNCHANGED <<dir, late, changed>> /\ phase = "domains"
    BY <1>4 DEF Check
  <2>2. \A w \in late' : QuotaFits(w)
    BY <2>1 DEF DoneInv
  <2>3. CASE End("done") /\ Selected(sql, only) = {}
    BY <1>a, <1>b, <1>c, <2>2, <2>3 DEF DoneInv, Settling, End
  <2>4. CASE /\ phase' = "write" /\ todo' = Selected(sql, only)
             /\ \A i \in Selected(sql, only) : ~Problem(sql, Selected(sql, only), snapshot, i)
             /\ UNCHANGED <<sql, apply, only, snapshot, patched, result>>
    <3>1. \A i \in Selected(sql, only) : Chosen(i)
      BY <2>4, CheckedChosen
    <3>2. \A i \in Selected(sql, only) : Chosen(i)'
      BY <1>b, <1>d, <1>a, <3>1, LastingSettles
    <3>3. ~patched
      BY <2>1 DEF DoneInv
    <3>4. Settling'
      BY <1>b, <2>4, <3>2, <3>3 DEF Settling
    <3> QED BY <1>a, <1>b, <1>c, <1>e, <2>1, <2>2, <2>4, <3>4 DEF DoneInv
  <2> QED BY <1>4, <1>h, <2>2, <2>3, <2>4 DEF Check
<1>5. ASSUME NEW i \in DOMAIN sql, Write(i) PROVE DoneInv'
  <2>1. i \in todo /\ Current(i) /\ i \in Selected(sql, only) /\ todo \subseteq Selected(sql, only)
    BY <1>5 DEF Write, Current, DoneInv
  <2>2. Chosen(i) /\ Chosen(i)'
    BY <1>a, <1>b, <1>5, <2>1, LastingSettles DEF DoneInv, Settling, Current
  <2>3. PICK w \in NextWrites(i) :
          /\ Accepted(accounts, w) /\ Perform(w)
          /\ IF w.kind = "patch"
             THEN patched' = TRUE /\ UNCHANGED <<sql, phase, apply, only, snapshot, todo, result>>
             ELSE IF todo = {i}
                  THEN End("done")
                  ELSE /\ patched' = FALSE /\ todo' = todo \ {i}
                       /\ UNCHANGED <<sql, phase, apply, only, snapshot, result>>
    BY <1>5 DEF Write
  <2>4. PICK s \in Match(snapshot, sql[i].name) :
          \E p \in Patches(sql[i], s), q \in PasswordWrites(s) :
            w = IF patched \/ Empty(p) THEN q ELSE p
    BY DEF NextWrites
  <2>5. PICK p \in Patches(sql[i], s), q \in PasswordWrites(s) :
          w = IF patched \/ Empty(p) THEN q ELSE p
    BY <2>4
  <2>6. s \in Account
    BY <1>a DEF Match, TypeOK
  <2>7. p \in PatchKind /\ q \in SecretKind
    BY <1>a, <2>6, PatchTyped, PasswordTyped
  <2>8. late' = late /\ \A x \in late' : QuotaFits(x)
    BY <1>5 DEF Write, DoneInv
  <2>9. \A j \in Selected(sql, only) :
          /\ Chosen(j)'
          /\ j \notin todo => Profiled(j)' /\ Secured(j)'
          /\ patched /\ (\A x \in todo : j <= x) => Profiled(j)'
    BY <1>a, <1>b, <1>d, <2>1, LastingSettles DEF DoneInv, Settling, Current
  <2>10. sql \in Seq(SqlAccount) /\ todo \subseteq Nat
    BY <1>a, MigrationAssumption DEF TypeOK
  <2>11. CASE w.kind = "patch"
    <3>1. w = p
      BY <2>5, <2>7, <2>11 DEF SecretKind
    <3>2. Profiled(i)'
      BY <1>b, <2>1, <2>3, <2>7, <3>1, PatchSettles
    <3>3. \A j \in Selected(sql, only) : (\A x \in todo : j <= x) => Profiled(j)'
      BY <2>1, <2>9, <2>10, <3>2 DEF Current
    <3>4. Settling'
      BY <1>b, <2>3, <2>9, <2>11, <3>3 DEF Settling
    <3>5. phase = "write" /\ phase' = phase
      BY <2>1, <2>3, <2>11 DEF Current
    <3> QED BY <1>a, <1>b, <1>c, <1>e, <2>3, <2>8, <2>11, <3>4, <3>5 DEF DoneInv
  <2>12. CASE w.kind # "patch"
    <3>1. w = q /\ (patched \/ Empty(p))
      BY <2>5, <2>7, <2>12 DEF PatchKind
    <3>2. Profiled(i)'
      <4>1. CASE patched
        BY <2>1, <2>9, <4>1 DEF Current
      <4>2. CASE Empty(p)
        BY <1>b, <2>1, <2>7, <4>2, PatchSettles
      <4> QED BY <3>1, <4>1, <4>2
    <3>3. Secured(i)'
      BY <1>b, <2>1, <2>3, <3>1, PasswordSettles
    <3>4. CASE todo = {i}
      <4>1. Settling'
        BY <1>b, <2>2, <2>3, <2>9, <2>12, <3>2, <3>3, <3>4 DEF Settling, End
      <4> QED BY <1>a, <1>b, <1>c, <2>3, <2>8, <2>12, <3>4, <4>1 DEF DoneInv, End
    <3>5. CASE todo # {i}
      <4>1. Settling'
        BY <1>b, <2>2, <2>3, <2>9, <2>12, <3>2, <3>3, <3>5 DEF Settling
      <4>2. phase = "write" /\ phase' = phase
        BY <2>1, <2>3, <2>12, <3>5 DEF Current
      <4> QED BY <1>a, <1>b, <1>c, <1>e, <2>1, <2>3, <2>8, <2>12, <3>5, <4>1, <4>2 DEF DoneInv
    <3> QED BY <3>4, <3>5
  <2> QED BY <2>11, <2>12
<1>6. ASSUME NEW i \in DOMAIN sql, Refuse(i) PROVE DoneInv'
  BY <1>h, <1>6 DEF Refuse, DoneInv
<1>7. CASE Fail
  <2>1. End("error")
    BY <1>7 DEF Fail
  <2>2. ASSUME NEW i \in todo, Current(i), NEW w \in NextWrites(i) PROVE QuotaFits(w)
    BY <1>a, <2>2, NextWritesFit DEF TypeOK
  <2>3. \A w \in late' : QuotaFits(w)
    BY <1>7, <2>2 DEF Fail, DoneInv
  <2> QED BY <1>h, <2>1, <2>3
<1>8. ASSUME NEW w \in late, Arrive(w) PROVE DoneInv'
  BY <1>g, <1>8 DEF Arrive
<1>9. ASSUME NEW r \in Others, Serve(r) PROVE DoneInv'
  BY <1>g, <1>9 DEF Serve
<1> QED BY <1>1, <1>2, <1>3, <1>4, <1>5, <1>6, <1>7, <1>8, <1>9 DEF Next, Run

\* Success reported is success: whatever runs stopped half way before, whichever
\* of their writes arrive afterwards and whatever the application serves, the
\* accounts a run was for have what the SQL directory says of them, and who has
\* not chosen another password signs in with the old one.
THEOREM MigrationSucceeds == ASSUME AliasesElsewhere PROVE Spec => []DoneMeansMigrated
<1>1. DoneInv => DoneMeansMigrated
  BY DEF DoneInv, Settling, DoneMeansMigrated, Profiled, HasProfile, Secured
<1>2. DoneInv /\ [Next]_vars => DoneInv'
  BY DoneStep
<1> QED BY <1>1, <1>2, DoneInit, PTL DEF Spec

-----------------------------------------------------------------------------
(* No address at two places.  The checks of a run are made once, on the    *)
(* listing; what follows is why they still hold for its last write, and    *)
(* for the writes of earlier runs that arrive in between.                  *)

\* The premises, besides AliasesElsewhere.  No address was shared before.
StartUnshared ==
  \A a, b \in InitAccounts :
    /\ \A al \in a.aliases : al.addr # b.email
    /\ \A al \in a.aliases, other \in b.aliases : al.addr = other.addr => a = b /\ al = other

\* Nobody else gives out an alias of the SQL directory meanwhile: after a run
\* has listed the accounts, nothing would tell it.
NewAddressesElsewhere ==
  \A r \in Others : r.kind = "alias" =>
    \A src \in Sources : \A i \in DOMAIN src : r.addr \notin AliasesOf(src[i])

\* Operators do not migrate two accounts with a common alias each by itself: one
\* run does not know of the other's patch that is still under way.  A run for all
\* accounts, or for these two, refuses.
AloneApart ==
  \A src \in Sources, o, p \in Onlys :
    o # {} /\ p # {} /\ ~Unknown(src, o) /\ ~Unknown(src, p) =>
      \A i \in Selected(src, o), j \in Selected(src, p) :
        src[i].name # src[j].name => AliasesOf(src[i]) \cap AliasesOf(src[j]) = {}

Apart(i, j) == sql[i].name # sql[j].name => AliasesOf(sql[i]) \cap AliasesOf(sql[j]) = {}

\* SQL accounts that the checks of some run may have let pass.
Entitled(i) ==
  /\ i \in Active(sql)
  /\ \/ \A j, k \in Active(sql) : Apart(j, k)
     \/ \E o \in Onlys : o # {} /\ ~Unknown(sql, o) /\ i \in Selected(sql, o)

Holds(a, addr) == a.email = addr \/ \E al \in a.aliases : al.addr = addr

\* The aliases of SQL account i are at nobody else's.
Clear(i) ==
  \A a \in accounts, addr \in AliasesOf(sql[i]) : Holds(a, addr) => a.email = sql[i].name

\* An address is account a's by a patch.
ByPatch(a, addr) ==
  \E j \in DOMAIN sql : Entitled(j) /\ sql[j].name = a.email /\ addr \in AliasesOf(sql[j])

\* The listing shows who has an alias of the SQL directory, but for patches that
\* have arrived since.
Covered ==
  \A a \in accounts, i \in DOMAIN sql : \A addr \in AliasesOf(sql[i]) : Holds(a, addr) =>
    ByPatch(a, addr) \/ \E s \in snapshot : s.id = a.id /\ Holds(s, addr)

Aims(w, i) ==
  /\ Entitled(i)
  /\ \E b \in InitAccounts :
       b.id = w.id /\ InSql(b) /\ FirstNamed(i, b.email) /\ w.aliases \in NewAliases(b)

Harmless(w) == w \in PatchKind => w.aliases = {} \/ \E i \in DOMAIN sql : Aims(w, i) /\ Clear(i)

UnsharedInv ==
  /\ AdditiveInv
  /\ Unshared
  /\ \A w \in late : Harmless(w)
  /\ phase = "write" => \A i \in todo : Entitled(i) /\ Clear(i)
  /\ phase = "domains" => Covered

LEMMA EntitledApart ==
  ASSUME AloneApart, TypeOK, NEW i, NEW j, Entitled(i), Entitled(j)
  PROVE  Apart(i, j)
<1>1. CASE \A k, n \in Active(sql) : Apart(k, n)
  BY <1>1 DEF Entitled
<1>2. ASSUME NEW o \in Onlys, NEW p \in Onlys, o # {}, p # {}, ~Unknown(sql, o), ~Unknown(sql, p),
             i \in Selected(sql, o), j \in Selected(sql, p)
      PROVE  Apart(i, j)
  BY <1>2 DEF AloneApart, TypeOK, Apart
<1> QED BY <1>1, <1>2 DEF Entitled

\* New aliases are the SQL account's, each once, and none the account has.
LEMMA NewAliasesNew ==
  ASSUME TypeOK, NEW b \in InitAccounts, NEW new \in NewAliases(b), NEW i, FirstNamed(i, b.email)
  PROVE  /\ \A x \in new : x.addr \in AliasesOf(sql[i]) /\ x.addr # b.email
         /\ \A x \in new, y \in b.aliases : x.addr # y.addr
         /\ \A x, y \in new : x.addr = y.addr => x = y
<1>1. PICK j \in DOMAIN sql : FirstNamed(j, b.email) /\ AllHosted(j) /\ new \in Fresh(sql[j], b)
  BY DEF NewAliases
<1>2. j = i
  BY <1>1, FirstNamedUnique
<1>f. new \in Fresh(sql[i], b)
  BY <1>1, <1>2
<1> DEFINE Rank(addr) == Cardinality({x \in Missing(sql[i], b) : AddressOrder[x] < AddressOrder[addr]})
<1>3. PICK base \in NextListKey(KeysOf(b.aliases)) :
        new = {[key |-> base + Rank(addr), addr |-> addr] : addr \in Missing(sql[i], b)}
  BY <1>f DEF Fresh
<1> HIDE DEF Rank
<1>4. \A x \in new : x.addr \in Missing(sql[i], b)
  BY <1>3
<1>5. \A x, y \in new : x.addr = y.addr => x = y
  BY <1>3
<1>6. \A addr \in Missing(sql[i], b) : addr \in AliasesOf(sql[i]) /\ addr # b.email /\ addr.domain \in Hosted
  BY <1>1, <1>2 DEF Missing, AllHosted
<1>7. \A addr \in Missing(sql[i], b), y \in b.aliases : y.addr = addr => y.addr.domain \notin Hosted
  BY DEF Missing, VisibleAliases
<1> QED BY <1>4, <1>5, <1>6, <1>7

\* Nobody but the account a patch is for gets an address that way.
Gains ==
  /\ sql' = sql
  /\ \A b \in accounts' : \E a \in accounts :
       /\ a.id = b.id /\ a.email = b.email
       /\ \A i \in DOMAIN sql : \A addr \in AliasesOf(sql[i]) :
            Holds(b, addr) => Holds(a, addr) \/ ByPatch(b, addr)

LEMMA GainsClear ==
  ASSUME AloneApart, TypeOK, Gains, NEW i \in DOMAIN sql, Entitled(i), Clear(i)
  PROVE  Clear(i)'
<1> SUFFICES ASSUME NEW b \in accounts', NEW addr \in AliasesOf(sql[i]), Holds(b, addr)
             PROVE  b.email = sql[i].name
  BY DEF Clear, Gains, Holds
<1>1. PICK a \in accounts : a.id = b.id /\ a.email = b.email /\ (Holds(a, addr) \/ ByPatch(b, addr))
  BY DEF Gains
<1>2. CASE ByPatch(b, addr)
  BY <1>2, EntitledApart DEF ByPatch, Apart
<1> QED BY <1>1, <1>2 DEF Clear

LEMMA GainsCovered ==
  ASSUME Gains, Covered, snapshot' = snapshot
  PROVE  Covered'
<1>1. \A x, addr : Holds(x, addr)' <=> Holds(x, addr)
  BY DEF Holds
<1>e. sql' = sql /\ \A i : Entitled(i)' <=> Entitled(i)
  BY DEF Gains, Entitled, Apart
<1>p. \A x, addr : ByPatch(x, addr)' <=> ByPatch(x, addr)
  BY <1>e DEF ByPatch
<1> SUFFICES ASSUME NEW b \in accounts', NEW i \in DOMAIN sql, NEW addr \in AliasesOf(sql[i]),
                    Holds(b, addr), ~ByPatch(b, addr)
             PROVE  \E s \in snapshot : s.id = b.id /\ Holds(s, addr)
  BY <1>1, <1>e, <1>p DEF Covered
<1>2. PICK a \in accounts : a.id = b.id /\ a.email = b.email /\ Holds(a, addr)
  BY DEF Gains
<1>3. ~ByPatch(a, addr)
  BY <1>2 DEF ByPatch
<1> QED BY <1>2, <1>3 DEF Covered

\* A patch for the account it was planned for.
LEMMA PatchUnshared ==
  ASSUME AdditiveInv, Unshared, NEW w \in PatchKind, Perform(w), sql' = sql,
         NEW i \in DOMAIN sql, Aims(w, i), Clear(i)
  PROVE  Unshared' /\ Gains
<1>1. PICK b \in InitAccounts :
        b.id = w.id /\ InSql(b) /\ FirstNamed(i, b.email) /\ w.aliases \in NewAliases(b)
  BY DEF Aims
<1>2. Entitled(i) /\ sql[i].name = b.email
  BY <1>1 DEF Aims, FirstNamed
<1>3. /\ \A x \in w.aliases : x.addr \in AliasesOf(sql[i]) /\ x.addr # b.email
      /\ \A x \in w.aliases, y \in b.aliases : x.addr # y.addr
      /\ \A x, y \in w.aliases : x.addr = y.addr => x = y
  BY <1>1, NewAliasesNew DEF AdditiveInv
<1> DEFINE New(a) == IF a.id = w.id THEN Written(a, w) ELSE a
<1>4. accounts' = {New(a) : a \in accounts}
  BY DEF Perform, WrittenTo
<1>5. \A a \in accounts : New(a).id = a.id /\ New(a).email = a.email
  BY DEF Written, PatchKind, AdditiveInv, TypeOK, Account
<1>6. ASSUME NEW a \in accounts, a.id = w.id
      PROVE  /\ a.email = b.email
             /\ a.aliases = b.aliases \/ a.aliases = b.aliases \cup w.aliases
             /\ b.aliases \subseteq a.aliases
             /\ New(a).aliases \subseteq b.aliases \cup w.aliases
  <2>1. PICK c \in InitAccounts : Came(a, c)
    BY DEF AdditiveInv, CameFromInit
  <2>2. c = b
    BY <1>1, <1>6, <2>1, MigrationAssumption DEF Came
  <2>3. a.aliases = b.aliases \/ a.aliases = b.aliases \cup w.aliases
    BY <1>1, <2>1, <2>2, NewAliasesUnique DEF Came, AdditiveInv
  <2>4. New(a).aliases = {al \in a.aliases : al.key \notin KeysOf(w.aliases)} \cup w.aliases
    BY <1>6 DEF Written, PatchKind, AdditiveInv, TypeOK, Account
  <2> QED BY <2>1, <2>2, <2>3, <2>4 DEF Came
<1>7. \A a \in accounts : a.id # w.id => New(a) = a
  OBVIOUS
<1> HIDE DEF New
<1>8. \A a \in accounts : a.email = b.email => a.id = w.id
  BY <1>1, MigrationAssumption DEF AdditiveInv, CameFromInit, Came
<1>9. \A a, c \in accounts : a.id = c.id => a = c
  BY DEF AdditiveInv
\* An alias of an account after the write was one of its own before, or is new.
<1>10. ASSUME NEW a \in accounts, NEW x \in New(a).aliases
       PROVE  x \in a.aliases \/ (a.id = w.id /\ x \in w.aliases)
  BY <1>6, <1>7, <1>10
\* Nobody else has an address that is new.
<1>11. ASSUME NEW x \in w.aliases, NEW a \in accounts, Holds(a, x.addr)
       PROVE  a.id = w.id
  BY <1>2, <1>3, <1>8, <1>11 DEF Clear
<1>12. ASSUME NEW a \in accounts, NEW c \in accounts, NEW x \in New(a).aliases
       PROVE  /\ x.addr # c.email
              /\ \A y \in New(c).aliases : x.addr = y.addr => a = c /\ x = y
  <2>1. CASE x \in a.aliases /\ (a.id = w.id => x \notin w.aliases)
    <3>1. x.addr # c.email
      BY <2>1 DEF Unshared
    <3>2. ASSUME NEW y \in New(c).aliases, x.addr = y.addr PROVE a = c /\ x = y
      <4>1. CASE y \in c.aliases
        BY <2>1, <3>2, <4>1 DEF Unshared
      <4>2. CASE c.id = w.id /\ y \in w.aliases
        <5>1. Holds(a, y.addr)
          BY <2>1, <3>2 DEF Holds
        <5>2. a.id = w.id
          BY <1>11, <4>2, <5>1
        <5>3. x \in b.aliases
          BY <1>6, <2>1, <5>2
        <5> QED BY <1>3, <3>2, <4>2, <5>3
      <4> QED BY <1>10, <3>2, <4>1, <4>2
    <3> QED BY <3>1, <3>2
  <2>2. CASE a.id = w.id /\ x \in w.aliases
    <3>1. x.addr # c.email
      <4>1. ASSUME x.addr = c.email PROVE FALSE
        <5>1. c.id = w.id
          BY <1>11, <2>2, <4>1 DEF Holds
        <5> QED BY <1>3, <1>6, <2>2, <4>1, <5>1
      <4> QED BY <4>1
    <3>2. ASSUME NEW y \in New(c).aliases, x.addr = y.addr PROVE a = c /\ x = y
      <4>1. CASE y \in c.aliases
        <5>1. Holds(c, x.addr)
          BY <3>2, <4>1 DEF Holds
        <5>2. c = a
          BY <1>9, <1>11, <2>2, <5>1
        <5>3. y \in b.aliases \/ y \in w.aliases
          BY <1>6, <2>2, <4>1, <5>2
        <5> QED BY <1>3, <2>2, <3>2, <5>2, <5>3
      <4>2. CASE c.id = w.id /\ y \in w.aliases
        BY <1>3, <1>9, <2>2, <3>2, <4>2
      <4> QED BY <1>10, <3>2, <4>1, <4>2
    <3> QED BY <3>1, <3>2
  <2> QED BY <1>10, <1>12, <2>1, <2>2
<1>13. Unshared'
  <2> SUFFICES ASSUME NEW a \in accounts, NEW c \in accounts
               PROVE  /\ \A x \in New(a).aliases : x.addr # New(c).email
                      /\ \A x \in New(a).aliases, y \in New(c).aliases :
                           x.addr = y.addr => New(a) = New(c) /\ x = y
    BY <1>4 DEF Unshared
  <2> QED BY <1>5, <1>12
<1>14. Gains
  <2> SUFFICES ASSUME NEW a \in accounts, NEW addr, Holds(New(a), addr)
               PROVE  Holds(a, addr) \/ ByPatch(New(a), addr)
    BY <1>4, <1>5 DEF Gains
  <2>1. CASE addr = a.email
    BY <2>1 DEF Holds
  <2>2. CASE \E x \in New(a).aliases : x.addr = addr
    <3>1. PICK x \in New(a).aliases : x.addr = addr
      BY <2>2
    <3>2. CASE x \in a.aliases
      BY <3>1, <3>2 DEF Holds
    <3>3. CASE a.id = w.id /\ x \in w.aliases
      <4>1. New(a).email = sql[i].name
        BY <1>2, <1>5, <1>6, <3>3
      <4>2. addr \in AliasesOf(sql[i])
        BY <1>3, <3>1, <3>3
      <4> QED BY <1>2, <4>1, <4>2 DEF ByPatch
    <3> QED BY <1>10, <3>2, <3>3
  <2> QED BY <1>5, <2>1, <2>2 DEF Holds
<1> QED BY <1>13, <1>14

\* Every other write leaves the addresses of an account as they are.
LEMMA SameAddresses ==
  ASSUME Unshared, sql' = sql,
         \A b \in accounts' : \E a \in accounts :
           a.id = b.id /\ a.email = b.email /\ b.aliases \subseteq a.aliases,
         \A a, b \in accounts' : a.id = b.id => a = b
  PROVE  Unshared' /\ Gains
<1>1. Unshared'
  <2> SUFFICES ASSUME NEW b \in accounts', NEW d \in accounts', NEW x \in b.aliases
               PROVE  /\ x.addr # d.email
                      /\ \A y \in d.aliases : x.addr = y.addr => b = d /\ x = y
    BY DEF Unshared
  <2>1. PICK a \in accounts : a.id = b.id /\ a.email = b.email /\ b.aliases \subseteq a.aliases
    OBVIOUS
  <2>2. PICK c \in accounts : c.id = d.id /\ c.email = d.email /\ d.aliases \subseteq c.aliases
    OBVIOUS
  <2> QED BY <2>1, <2>2 DEF Unshared
<1>2. Gains
  BY DEF Gains, Holds
<1> QED BY <1>1, <1>2

LEMMA PerformUnshared ==
  ASSUME AdditiveInv, Unshared, NEW w \in PatchKind \cup SecretKind, Benign(w), Harmless(w),
         Perform(w), sql' = sql
  PROVE  Unshared' /\ Gains
<1>1. CASE w \in PatchKind /\ w.aliases # {}
  BY <1>1, PatchUnshared DEF Harmless
<1>2. CASE w \in SecretKind \/ w.aliases = {}
  <2>1. \A a \in accounts : LET c == Written(a, w)
                            IN  c.id = a.id /\ c.email = a.email /\ c.aliases \subseteq a.aliases
    BY <1>2 DEF Written, PatchKind, SecretKind, AdditiveInv, TypeOK, Account
  <2>2. \A b \in accounts' : \E a \in accounts :
          a.id = b.id /\ a.email = b.email /\ b.aliases \subseteq a.aliases
    BY <2>1 DEF Perform, WrittenTo
  <2>3. \A a, b \in accounts' : a.id = b.id => a = b
    BY PerformAdds
  <2> QED BY <2>2, <2>3, SameAddresses
<1> QED BY <1>1, <1>2

LEMMA ServeUnshared ==
  ASSUME AliasesElsewhere, NewAddressesElsewhere, AdditiveInv, Unshared, NEW r \in Others, Serve(r)
  PROVE  Unshared' /\ Gains
<1>1. /\ sql' = sql /\ accounts \subseteq Account
      /\ \A a, b \in accounts : a.id = b.id => a = b
      /\ \A a, b \in accounts' : a.id = b.id => a = b
  BY ServeKeeps DEF Serve, AdditiveInv, TypeOK
<1>2. CASE ServePassword(r)
  <2>1. PICK a \in accounts : \E w \in PasswordWrites(a) : accounts' = WrittenTo(accounts, w)
    BY <1>2 DEF ServePassword, Served
  <2>2. PICK w \in PasswordWrites(a) : accounts' = WrittenTo(accounts, w)
    BY <2>1
  <2>3. w \in SecretKind
    BY <1>1, <2>1, PasswordTyped
  <2>4. \A x \in accounts : LET c == Written(x, w)
                            IN  c.id = x.id /\ c.email = x.email /\ c.aliases \subseteq x.aliases
    BY <1>1, <2>3 DEF Written, SecretKind, Account
  <2>5. \A b \in accounts' : \E x \in accounts :
          x.id = b.id /\ x.email = b.email /\ b.aliases \subseteq x.aliases
    BY <2>2, <2>4 DEF WrittenTo
  <2> QED BY <1>1, <2>5, SameAddresses
<1>3. CASE ServeDelete(r)
  BY <1>1, <1>3, SameAddresses DEF ServeDelete
<1>4. CASE ServeAlias(r)
  <2>1. PICK a \in Served(r, accounts) : \E key \in NextListKey(KeysOf(a.aliases)) :
          accounts' = (accounts \ {a})
            \cup {[a EXCEPT !.aliases = a.aliases \cup {[key |-> key, addr |-> r.addr]}]}
    BY <1>4 DEF ServeAlias
  <2>2. PICK key \in NextListKey(KeysOf(a.aliases)) :
          accounts' = (accounts \ {a})
            \cup {[a EXCEPT !.aliases = a.aliases \cup {[key |-> key, addr |-> r.addr]}]}
    BY <2>1
  <2> DEFINE x == [key |-> key, addr |-> r.addr]
             c == [a EXCEPT !.aliases = a.aliases \cup {x}]
  <2>3. a \in accounts /\ c.id = a.id /\ c.email = a.email /\ c.aliases = a.aliases \cup {x}
    BY <1>1 DEF Served, Account
  <2>4. accounts' = (accounts \ {a}) \cup {c} /\ x.addr = r.addr
    BY <2>2
  <2> HIDE DEF x, c
  <2>5. \A d \in accounts : ~Holds(d, r.addr)
    BY <1>4 DEF ServeAlias, Owners, VisibleAliases, Holds
  <2>6. \A i \in DOMAIN sql : r.addr \notin AliasesOf(sql[i])
    BY <1>4 DEF NewAddressesElsewhere, ServeAlias, AdditiveInv, TypeOK
  <2>7. Unshared'
    <3>1. \A d, e \in (accounts \ {a}) \cup {c} : \A y \in d.aliases : y.addr # e.email
      BY <2>3, <2>4, <2>5 DEF Unshared, Holds
    <3>2. \A d \in accounts \ {a} : \A y \in d.aliases, z \in c.aliases : y.addr # z.addr
      BY <2>3, <2>4, <2>5 DEF Unshared, Holds
    <3>3. \A y, z \in c.aliases : y.addr = z.addr => y = z
      BY <2>3, <2>4, <2>5 DEF Unshared, Holds
    <3>4. \A d, e \in accounts \ {a} : \A y \in d.aliases, z \in e.aliases :
            y.addr = z.addr => d = e /\ y = z
      BY DEF Unshared
    <3> QED BY <2>4, <3>1, <3>2, <3>3, <3>4 DEF Unshared
  <2>8. Gains
    BY <1>1, <2>3, <2>4, <2>6 DEF Gains, Holds
  <2> QED BY <2>7, <2>8
<1>5. CASE ServeUnalias(r)
  <2>1. PICK a \in Served(r, accounts) : \E al \in VisibleAliases(a) :
          accounts' = (accounts \ {a}) \cup {[a EXCEPT !.aliases = a.aliases \ {al}]}
    BY <1>5 DEF ServeUnalias
  <2>2. PICK al \in VisibleAliases(a) :
          accounts' = (accounts \ {a}) \cup {[a EXCEPT !.aliases = a.aliases \ {al}]}
    BY <2>1
  <2>3. LET c == [a EXCEPT !.aliases = a.aliases \ {al}]
        IN  a \in accounts /\ c.id = a.id /\ c.email = a.email /\ c.aliases \subseteq a.aliases
    BY <1>1 DEF Served, Account
  <2>4. \A b \in accounts' : \E x \in accounts :
          x.id = b.id /\ x.email = b.email /\ b.aliases \subseteq x.aliases
    BY <2>2, <2>3
  <2> QED BY <1>1, <2>4, SameAddresses
<1> QED BY <1>2, <1>3, <1>4, <1>5 DEF Serve

\* What a run writes for an SQL account that its checks let pass is harmless.
LEMMA NextWritesHarmless ==
  ASSUME UnsharedInv, NEW i \in DOMAIN sql, Current(i), NEW w \in NextWrites(i)
  PROVE  w \in PatchKind \cup SecretKind /\ Benign(w) /\ Harmless(w)
<1>1. w \in PatchKind \cup SecretKind /\ Benign(w)
  BY NextWritesBenign DEF UnsharedInv
<1>2. Entitled(i) /\ Clear(i) /\ FirstNamed(i, sql[i].name)
  BY DEF UnsharedInv, AdditiveInv, Current
<1>3. PICK a \in Match(snapshot, sql[i].name) :
        \E p \in Patches(sql[i], a), q \in PasswordWrites(a) : w = p \/ w = q
  BY DEF NextWrites
<1>4. a.email = sql[i].name /\ a \in Account /\ CameFromInit(a)
  BY <1>3 DEF UnsharedInv, AdditiveInv, TypeOK, Match
<1>5. w.id = a.id
  BY <1>3, <1>4, PasswordBenign DEF Patches
<1>6. ASSUME w \in PatchKind, w.aliases # {} PROVE Aims(w, i)
  <2>1. PICK b \in InitAccounts : b.id = w.id /\ InSql(b) /\ w.aliases \in NewAliases(b)
    BY <1>1, <1>6 DEF Benign
  <2>2. b.email = sql[i].name
    BY <1>4, <1>5, <2>1, MigrationAssumption DEF CameFromInit, Came
  <2> QED BY <1>2, <2>1, <2>2 DEF Aims
<1> QED BY <1>1, <1>2, <1>6 DEF Harmless

\* The checks of a run, made on its listing, hold for the accounts as they are.
LEMMA CheckedClear ==
  ASSUME AloneApart, UnsharedInv, phase = "domains", ~Unknown(sql, only),
         \A j \in Selected(sql, only) : ~Problem(sql, Selected(sql, only), snapshot, j),
         NEW i \in Selected(sql, only)
  PROVE  Entitled(i) /\ Clear(i)
<1>1. i \in Active(sql) /\ i \in DOMAIN sql /\ only \in Onlys /\ Covered
  BY DEF Selected, Active, UnsharedInv, AdditiveInv, TypeOK
<1>2. Entitled(i)
  <2>1. CASE only # {}
    BY <1>1, <2>1 DEF Entitled
  <2>2. CASE only = {}
    <3>1. Selected(sql, only) = Active(sql)
      BY <2>2 DEF Selected
    <3>2. \A j, k \in Active(sql) : Apart(j, k)
      BY <3>1 DEF Problem, Apart
    <3> QED BY <1>1, <3>2 DEF Entitled
  <2> QED BY <2>1, <2>2
<1>3. ASSUME NEW a \in accounts, NEW addr \in AliasesOf(sql[i]), Holds(a, addr)
      PROVE  a.email = sql[i].name
  <2>1. CASE ByPatch(a, addr)
    BY <1>2, <2>1, EntitledApart DEF ByPatch, Apart, UnsharedInv, AdditiveInv
  <2>2. ASSUME NEW s \in snapshot, s.id = a.id, Holds(s, addr) PROVE a.email = sql[i].name
    <3>1. /\ addr.domain \in Hosted
          /\ Owners(snapshot, addr) \ {x.id : x \in Match(snapshot, sql[i].name)} = {}
      BY <1>3 DEF Problem
    <3>2. s.id \in Owners(snapshot, addr)
      BY <2>2, <3>1 DEF Owners, VisibleAliases, Holds
    <3>3. PICK t \in Match(snapshot, sql[i].name) : t.id = s.id
      BY <3>1, <3>2
    <3>4. t.email = sql[i].name /\ CameFromInit(t) /\ CameFromInit(a)
      BY <3>3 DEF Match, UnsharedInv, AdditiveInv
    <3> QED BY <2>2, <3>3, <3>4, MigrationAssumption DEF CameFromInit, Came
  <2> QED BY <1>1, <1>3, <2>1, <2>2 DEF Covered
<1> QED BY <1>2, <1>3 DEF Clear

LEMMA UnsharedInit == ASSUME StartUnshared PROVE Init => UnsharedInv
<1> SUFFICES ASSUME Init PROVE UnsharedInv
  OBVIOUS
<1>1. AdditiveInv
  BY AdditiveInit
<1> QED BY <1>1 DEF Init, UnsharedInv, Unshared, StartUnshared

LEMMA UnsharedStep ==
  ASSUME AliasesElsewhere, NewAddressesElsewhere, AloneApart, UnsharedInv, [Next]_vars
  PROVE  UnsharedInv'
<1> USE DEF dir, run
<1>a. AdditiveInv /\ AdditiveInv' /\ TypeOK /\ Unshared
  BY AdditiveStep DEF UnsharedInv, AdditiveInv
<1>b. sql' = sql
  BY DEF Next, Run, Launch, ListAccounts, Check, Write, Refuse, Fail, End, Arrive, Serve, vars
<1>c. /\ \A i : Entitled(i)' <=> Entitled(i)
      /\ \A w, i : Aims(w, i)' <=> Aims(w, i)
  <2>1. \A i : Entitled(i)' <=> Entitled(i)
    BY <1>b DEF Entitled, Apart
  <2>2. \A b : (InSql(b)' <=> InSql(b)) /\ NewAliases(b)' = NewAliases(b)
    BY <1>b DEF InSql, NewAliases, FirstNamed, AllHosted
  <2>3. \A i, name : FirstNamed(i, name)' <=> FirstNamed(i, name)
    BY <1>b DEF FirstNamed
  <2> QED BY <2>1, <2>2, <2>3 DEF Aims
<1>d. ASSUME UNCHANGED dir PROVE Unshared' /\ Gains
  BY <1>a, <1>b, <1>d, SameAddresses DEF AdditiveInv
<1>e. ASSUME Gains, NEW w, Harmless(w) PROVE Harmless(w)'
  BY <1>a, <1>b, <1>c, <1>e, GainsClear DEF Harmless, Aims
<1>f. ASSUME Unshared', Gains, late' \subseteq late, UNCHANGED <<phase, todo, snapshot>>
      PROVE  UnsharedInv'
  <2>1. phase = "write" => \A i \in todo : Entitled(i)' /\ Clear(i)'
    BY <1>a, <1>c, <1>f, GainsClear DEF UnsharedInv, TypeOK
  <2> QED BY <1>a, <1>e, <1>f, <2>1, GainsCovered DEF UnsharedInv
<1>g. ASSUME Unshared', Gains, phase' \in {"idle", "accounts"}, \A w \in late' : Harmless(w)
      PROVE  UnsharedInv'
  BY <1>a, <1>e, <1>g DEF UnsharedInv
<1>h. \A w \in late : w \in PatchKind \cup SecretKind /\ Benign(w) /\ Harmless(w)
  BY DEF UnsharedInv, AdditiveInv, TypeOK
<1>1. CASE UNCHANGED vars
  BY <1>1, <1>d, <1>f DEF vars
<1>2. ASSUME NEW f \in BOOLEAN, NEW o \in Onlys, Launch(f, o) PROVE UnsharedInv'
  BY <1>2, <1>d, <1>g, <1>h DEF Launch
<1>3. CASE ListAccounts
  <2>1. UNCHANGED <<dir, late>> /\ snapshot' = accounts /\ phase' = "domains"
    BY <1>3 DEF ListAccounts
  <2>2. Covered'
    BY <2>1 DEF Covered
  <2> QED BY <1>a, <1>d, <1>e, <1>h, <2>1, <2>2 DEF UnsharedInv
<1>4. CASE Check
  <2>1. UNCHANGED <<dir, late>> /\ phase = "domains"
    BY <1>4 DEF Check
  <2>2. CASE phase' = "idle"
    BY <1>d, <1>g, <1>h, <2>1, <2>2
  <2>3. CASE /\ phase' = "write" /\ todo' = Selected(sql, only) /\ ~Unknown(sql, only)
             /\ \A i \in Selected(sql, only) : ~Problem(sql, Selected(sql, only), snapshot, i)
    <3>1. \A i \in todo' : Entitled(i) /\ Clear(i)
      BY <2>1, <2>3, CheckedClear
    <3>2. todo' \subseteq DOMAIN sql
      BY <2>3 DEF Selected, Active
    <3>3. \A i \in todo' : Entitled(i)' /\ Clear(i)'
      BY <1>a, <1>c, <1>d, <2>1, <3>1, <3>2, GainsClear
    <3> QED BY <1>a, <1>d, <1>e, <1>h, <2>1, <2>3, <3>3 DEF UnsharedInv
  <2> QED BY <1>4, <2>2, <2>3 DEF Check, End
<1>5. ASSUME NEW i \in DOMAIN sql, Write(i) PROVE UnsharedInv'
  <2>1. Current(i) /\ late' = late
    BY <1>5 DEF Write
  <2>2. PICK w \in NextWrites(i) : Perform(w)
    BY <1>5 DEF Write
  <2>3. Unshared' /\ Gains
    BY <1>a, <1>b, <2>1, <2>2, NextWritesHarmless, PerformUnshared
  <2>4. CASE phase' = "idle"
    BY <1>g, <1>h, <2>1, <2>3, <2>4
  <2>5. CASE phase' = phase /\ todo' \subseteq todo
    <3>1. phase = "write" /\ \A j \in todo' : Entitled(j)' /\ Clear(j)'
      BY <1>a, <1>c, <2>1, <2>3, <2>5, GainsClear DEF UnsharedInv, TypeOK, Current
    <3> QED BY <1>a, <1>e, <1>h, <2>1, <2>3, <2>5, <3>1 DEF UnsharedInv
  <2> QED BY <1>5, <2>4, <2>5 DEF Write, End
<1>6. ASSUME NEW i \in DOMAIN sql, Refuse(i) PROVE UnsharedInv'
  BY <1>6, <1>d, <1>g, <1>h DEF Refuse, End
<1>7. CASE Fail
  <2>1. phase' = "idle"
    BY <1>7 DEF Fail, End
  <2>2. CASE UNCHANGED <<dir, late>>
    BY <1>d, <1>g, <1>h, <2>1, <2>2
  <2>3. ASSUME NEW i \in todo, Current(i), NEW w \in NextWrites(i),
               \/ Perform(w) /\ UNCHANGED late
               \/ late' = late \cup {w} /\ UNCHANGED dir
        PROVE  UnsharedInv'
    <3>1. w \in PatchKind \cup SecretKind /\ Benign(w) /\ Harmless(w)
      BY <1>a, <2>3, NextWritesHarmless DEF TypeOK
    <3>2. Unshared' /\ Gains
      BY <1>a, <1>b, <1>d, <2>3, <3>1, PerformUnshared
    <3> QED BY <1>g, <1>h, <2>1, <2>3, <3>1, <3>2
  <2> QED BY <1>7, <2>2, <2>3 DEF Fail
<1>8. ASSUME NEW w \in late, Arrive(w) PROVE UnsharedInv'
  <2>1. late' \subseteq late /\ UNCHANGED <<phase, todo, snapshot>> /\ (Perform(w) \/ UNCHANGED dir)
    BY <1>8 DEF Arrive
  <2>2. Unshared' /\ Gains
    BY <1>a, <1>b, <1>d, <1>h, <2>1, PerformUnshared
  <2> QED BY <1>f, <2>1, <2>2
<1>9. ASSUME NEW r \in Others, Serve(r) PROVE UnsharedInv'
  BY <1>a, <1>9, <1>f, ServeUnshared DEF Serve
<1> QED BY <1>1, <1>2, <1>3, <1>4, <1>5, <1>6, <1>7, <1>8, <1>9 DEF Next, Run

\* Whatever runs fail half way and whichever of their writes arrive late, no
\* address comes to be at two places: the checks on the listing are enough for
\* all the writes of a run, under the premises above.
THEOREM MigrationUnshared ==
  ASSUME AliasesElsewhere, NewAddressesElsewhere, AloneApart, StartUnshared
  PROVE  Spec => []Unshared
<1>1. UnsharedInv => Unshared
  BY DEF UnsharedInv
<1>2. UnsharedInv /\ [Next]_vars => UnsharedInv'
  BY UnsharedStep
<1>3. Init => UnsharedInv
  BY UnsharedInit
<1> QED BY <1>1, <1>2, <1>3, PTL DEF Spec
=============================================================================
