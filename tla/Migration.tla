----------------------------- MODULE Migration -----------------------------
(***************************************************************************)
(* The one-shot tool that copies the old SQL directory into Stalwart       *)
(* (cmd/migrate-directory).  A run loads the SQL rows, lists Stalwart's    *)
(* accounts and domains, checks everything, and only then writes, account  *)
(* by account: one patch with whatever Stalwart lacks, then the password   *)
(* hash.  Every write is decided on the listing made before the first one. *)
(* An operator runs it as often as needed, dry or with --apply; a run may  *)
(* end at any remote call (an error, the five minutes are over, the        *)
(* process is killed), and the write it was waiting for may have been made *)
(* or may still arrive during a later run.  The application keeps serving  *)
(* meanwhile: the requests in `Others' may be handled in between.          *)
(*                                                                         *)
(* Abstracted: texts (a description is set under the same condition as a   *)
(* quota), the contents of hashes, output.  The SQL data and the hosted    *)
(* domains do not change.  Addresses are canonical, see Stalwart.          *)
(***************************************************************************)
EXTENDS Stalwart, FiniteSets, Sequences

CONSTANTS
  Sources,       \* the contents directory.accounts and .emails may have
  AddressOrder,  \* the order of the query: ORDER BY a.name, e.address
  Malformed,     \* addresses with an empty local part or domain
  Onlys,         \* the --only lists operators pass; {} when there is none
  Others,        \* the requests the application may serve meanwhile
  InitAccounts,  \* Stalwart's directory at the start
  MaxFaults,     \* bound: runs that fail for a reason outside of the data
  MaxOthers,     \* bound: requests served meanwhile
  MaxLate        \* bound: abandoned writes under way at the same time

\* One account of the SQL directory with its rows in directory.emails.
SqlEmail == [addr : Address, type : {"primary", "alias", "list"}]

SqlAccount ==
  [ name : Address, active : BOOLEAN, validHash : BOOLEAN, admin : BOOLEAN,
    quota : Nat, emails : SUBSET SqlEmail ]

\* A request of the application, for the account it found.
OtherRequest ==
  [kind : {"password", "delete"}, id : Nat]
    \cup [kind : {"alias", "unalias"}, id : Nat, addr : Address]

\* Two SQL accounts may have the same canonical name, so a source is a
\* sequence; its positions identify the accounts.
ASSUME MigrationAssumption ==
  /\ \A src \in Sources :
       /\ src \in Seq(SqlAccount)
       /\ \A i \in DOMAIN src : IsFiniteSet(src[i].emails)
  /\ AddressOrder \in [Address -> Nat]
  /\ Malformed \subseteq Address
  /\ {} \in Onlys /\ \A o \in Onlys : o \subseteq Address
  /\ Others \subseteq OtherRequest
  /\ InitAccounts \subseteq Account
  /\ \A a, b \in InitAccounts : (a.id = b.id \/ a.email = b.email) => a = b
  /\ MaxFaults \in Nat /\ MaxOthers \in Nat /\ MaxLate \in Nat

VARIABLES
  sql,       \* the SQL directory
  accounts,  \* Stalwart's directory
  migrated,  \* <<account id, credential key>>: passwords that are the SQL hash
  phase,     \* of the run: "idle", or the remote calls it makes next
  apply,     \* of the run: whether --apply was given
  only,      \* of the run: its --only list
  snapshot,  \* of the run: the accounts it listed
  todo,      \* of the run: the SQL accounts still to be written
  patched,   \* of the run: the patch of the first of `todo' is written
  result,    \* of the last run that ended
  late,      \* abandoned writes that may still arrive
  changed,   \* history: ids whose owner chose a password, or lost the account
  faults, others  \* counters for the bounds

dir == <<accounts, migrated>>
run == <<phase, apply, only, snapshot, todo, patched, result>>
vars == <<sql, accounts, migrated, phase, apply, only, snapshot, todo, patched,
          result, late, changed, faults, others>>

PatchKind  == [kind : {"patch"}, id : Nat, admin : BOOLEAN, quota : Nat,
               aliases : SUBSET Alias]
SecretKind == [kind : {"secret", "credential"}, id : Nat, key : Nat]

-----------------------------------------------------------------------------
(* Reading the two directories.                                            *)

\* The accounts loadSQL returns, and whether it refuses what it reads.
Active(src) == {i \in DOMAIN src : src[i].active}

Unreadable(src) ==
  \E i \in Active(src) : \E e \in src[i].emails : e.type \notin {"primary", "alias"}

AliasesOf(s) == {e.addr : e \in {x \in s.emails : x.type = "alias"}}

\* filterOnly: of several accounts with one canonical name it keeps the first.
Selected(src, names) ==
  {i \in Active(src) :
     \/ names = {}
     \/ /\ src[i].name \in names
        /\ \A j \in Active(src) : j < i => src[j].name # src[i].name}

Unknown(src, names) == \E name \in names : \A i \in Active(src) : src[i].name # name

Match(accts, name) == {a \in accts : a.type = "User" /\ a.email = name}

KeysOf(list) == {x.key : x \in list}

NextListKey(keys) == {n \in {0} \cup {k + 1 : k \in keys} : \A k \in keys : k < n}

VisibleAliases(a) == {al \in a.aliases : al.addr.domain \in Hosted}

\* Mutant: groups are not looked at.
OwnersUsers(accts, addr) ==
  {a.id : a \in {x \in accts : x.type = "User" /\
                   (x.email = addr \/ \E al \in VisibleAliases(x) : al.addr = addr)}}
\* An address two accounts share belongs to the one listed last; here it counts
\* as the other's.  No instance starts with one.
Owners(accts, addr) ==
  {a.id : a \in {x \in accts :
                   x.email = addr \/ \E al \in VisibleAliases(x) : al.addr = addr}}

-----------------------------------------------------------------------------
(* What a run writes for one SQL account s to the account a that matches.  *)

\* The aliases Stalwart lacks.
Missing(s, a) ==
  AliasesOf(s) \ ({a.email} \cup {al.addr : al \in VisibleAliases(a)})

\* Keyed from the first free one on, in the order of the query.
\* Mutants: keyed from 0 on; from the last key of the account on.
FreshFromZero(s, a) ==
  { { [key |-> Cardinality({x \in Missing(s, a) : AddressOrder[x] < AddressOrder[addr]}),
       addr |-> addr] : addr \in Missing(s, a) } }
FreshFromLast(s, a) ==
  { { [key |-> base + Cardinality({x \in Missing(s, a) : AddressOrder[x] < AddressOrder[addr]}) - 1,
       addr |-> addr] : addr \in Missing(s, a) } :
    base \in NextListKey(KeysOf(a.aliases)) }

Fresh(s, a) ==
  { { [key |-> base + Cardinality({x \in Missing(s, a) : AddressOrder[x] < AddressOrder[addr]}),
       addr |-> addr] : addr \in Missing(s, a) } :
    base \in NextListKey(KeysOf(a.aliases)) }

\* buildPatch.
Patches(s, a) ==
  { [kind |-> "patch", id |-> a.id, admin |-> s.admin /\ ~a.admin,
     quota |-> IF s.quota # a.quota THEN s.quota ELSE 0, aliases |-> new] :
    new \in Fresh(s, a) }

Empty(p) == ~p.admin /\ p.quota = 0 /\ p.aliases = {}

\* SetPassword: the Password credential with the smallest key, or a new one.
PasswordWrites(a) ==
  LET passwords == {cr \in a.creds : cr.type = "Password"}
  IN  IF passwords = {}
      THEN {[kind |-> "credential", id |-> a.id, key |-> key] :
              key \in NextListKey(KeysOf(a.creds))}
      ELSE {[kind |-> "secret", id |-> a.id, key |-> cr.key] :
              cr \in {x \in passwords : \A y \in passwords : x.key <= y.key}}

\* What plan reports about SQL account i of the selected ones, on listing accts.
\* Mutants: the hash is not checked; an alias the account has itself is refused.
ProblemNoHash(src, sel, accts, i) ==
  \/ \E j \in sel : j # i /\ src[j].name = src[i].name
  \/ Match(accts, src[i].name) = {}
  \/ \E addr \in AliasesOf(src[i]) :
       \/ addr \in Malformed \/ addr.domain \notin Hosted
       \/ Owners(accts, addr) \ {a.id : a \in Match(accts, src[i].name)} # {}
       \/ \E j \in sel : src[j].name # src[i].name /\ addr \in AliasesOf(src[j])
ProblemOwned(src, sel, accts, i) ==
  \/ \E j \in sel : j # i /\ src[j].name = src[i].name
  \/ ~src[i].validHash
  \/ Match(accts, src[i].name) = {}
  \/ \E addr \in AliasesOf(src[i]) :
       \/ addr \in Malformed \/ addr.domain \notin Hosted
       \/ Owners(accts, addr) # {}
       \/ \E j \in sel : src[j].name # src[i].name /\ addr \in AliasesOf(src[j])

Problem(src, sel, accts, i) ==
  \/ \E j \in sel : j # i /\ src[j].name = src[i].name
  \/ ~src[i].validHash
  \/ Match(accts, src[i].name) = {}
  \/ \E addr \in AliasesOf(src[i]) :
       \/ addr \in Malformed \/ addr.domain \notin Hosted
       \/ Owners(accts, addr) \ {a.id : a \in Match(accts, src[i].name)} # {}
       \/ \E j \in sel : src[j].name # src[i].name /\ addr \in AliasesOf(src[j])

-----------------------------------------------------------------------------
(* What a write does.                                                      *)

Accepted(accts, w) ==
  \E a \in accts : a.id = w.id /\ (w.kind = "secret" => w.key \in KeysOf(a.creds))

Written(a, w) ==
  CASE w.kind = "patch" ->
         [a EXCEPT !.admin = a.admin \/ w.admin,
                   !.quota = IF w.quota = 0 THEN a.quota ELSE w.quota,
                   !.aliases = {al \in a.aliases : al.key \notin KeysOf(w.aliases)} \cup w.aliases]
    [] w.kind = "credential" ->
         [a EXCEPT !.creds = PutEntry(a.creds, [key |-> w.key, type |-> "Password"])]
    [] OTHER -> a

WrittenTo(accts, w) == {IF a.id = w.id THEN Written(a, w) ELSE a : a \in accts}

\* The migration's write w arrives at Stalwart.
Perform(w) ==
  /\ accounts' = WrittenTo(accounts, w)
  /\ migrated' = IF w.kind = "patch" THEN migrated ELSE migrated \cup {<<w.id, w.key>>}

-----------------------------------------------------------------------------
Init ==
  /\ sql \in Sources
  /\ accounts = InitAccounts /\ migrated = {}
  /\ phase = "idle" /\ apply = FALSE /\ only = {}
  /\ snapshot = {} /\ todo = {} /\ patched = FALSE /\ result = "none"
  /\ late = {} /\ changed = {} /\ faults = 0 /\ others = 0

\* The run ends.
End(how) ==
  /\ phase' = "idle" /\ result' = how
  /\ snapshot' = {} /\ todo' = {} /\ patched' = FALSE
  /\ UNCHANGED <<sql, apply, only>>

\* execute: flags are read and the SQL directory is loaded.
Launch(f, o) ==
  /\ phase = "idle"
  /\ apply' = f /\ only' = o
  /\ phase' = IF Unreadable(sql) THEN "idle" ELSE "accounts"
  /\ result' = IF Unreadable(sql) THEN "error" ELSE "none"
  /\ UNCHANGED <<sql, dir, snapshot, todo, patched, late, changed, faults, others>>

ListAccounts ==
  /\ phase = "accounts"
  /\ phase' = "domains" /\ snapshot' = accounts
  /\ UNCHANGED <<sql, dir, apply, only, todo, patched, result, late, changed, faults, others>>

\* Mutant: an account that lacks nothing is not written, its password neither.
CheckChangedOnly ==
  LET sel == Selected(sql, only)
      lacking == {i \in sel : \E a \in Match(snapshot, sql[i].name) :
                               \E p \in Patches(sql[i], a) : ~Empty(p)}
  IN  /\ phase = "domains"
      /\ \/ /\ Unknown(sql, only) \/ \E i \in sel : Problem(sql, sel, snapshot, i)
            /\ End("error")
         \/ /\ ~Unknown(sql, only) /\ \A i \in sel : ~Problem(sql, sel, snapshot, i)
            /\ IF apply /\ lacking # {}
               THEN /\ phase' = "write" /\ todo' = lacking
                    /\ UNCHANGED <<sql, apply, only, snapshot, patched, result>>
               ELSE End(IF apply THEN "done" ELSE "dry")
      /\ UNCHANGED <<dir, late, changed, faults, others>>

\* The domains are listed; run makes every check before the first write.
Check ==
  LET sel == Selected(sql, only)
  IN  /\ phase = "domains"
      /\ \/ /\ Unknown(sql, only) \/ \E i \in sel : Problem(sql, sel, snapshot, i)
            /\ End("error")
         \/ /\ ~Unknown(sql, only) /\ \A i \in sel : ~Problem(sql, sel, snapshot, i)
            /\ IF apply /\ sel # {}
               THEN /\ phase' = "write" /\ todo' = sel
                    /\ UNCHANGED <<sql, apply, only, snapshot, patched, result>>
               ELSE End(IF apply THEN "done" ELSE "dry")
      /\ UNCHANGED <<dir, late, changed, faults, others>>

\* The SQL account being written: the first that is not done.
Current(i) == phase = "write" /\ i \in todo /\ \A j \in todo : i <= j

\* The remote write a run makes next for SQL account i: UpdateAccount unless
\* the patch is empty, then SetPassword.
NextWrites(i) ==
  UNION {{IF patched \/ Empty(p) THEN w ELSE p :
            p \in Patches(sql[i], a), w \in PasswordWrites(a)} :
         a \in Match(snapshot, sql[i].name)}

Write(i) ==
  /\ Current(i)
  /\ \E w \in NextWrites(i) :
       /\ Accepted(accounts, w) /\ Perform(w)
       /\ IF w.kind = "patch"
          THEN patched' = TRUE /\ UNCHANGED <<sql, phase, apply, only, snapshot, todo, result>>
          ELSE IF todo = {i}
               THEN End("done")
               ELSE /\ patched' = FALSE /\ todo' = todo \ {i}
                    /\ UNCHANGED <<sql, phase, apply, only, snapshot, result>>
  /\ UNCHANGED <<late, changed, faults, others>>

\* Mutant: a refused write is tried again.
RefuseAndRetry(i) ==
  /\ Current(i)
  /\ \E w \in NextWrites(i) : ~Accepted(accounts, w)
  /\ UNCHANGED vars

\* Stalwart refuses: the run stops there.
Refuse(i) ==
  /\ Current(i)
  /\ \E w \in NextWrites(i) : ~Accepted(accounts, w)
  /\ End("error")
  /\ UNCHANGED <<dir, late, changed, faults, others>>

\* A remote call fails, or the process dies waiting for it.  A write may have
\* been made, or arrive later.
Fail ==
  /\ phase # "idle" /\ faults < MaxFaults
  /\ faults' = faults + 1
  /\ End("error")
  /\ \/ UNCHANGED <<dir, late>>
     \/ \E i \in todo :
          /\ Current(i)
          /\ \E w \in NextWrites(i) :
               \/ Accepted(accounts, w) /\ Perform(w) /\ UNCHANGED late
               \/ /\ Cardinality(late) < MaxLate /\ late' = late \cup {w}
                  /\ UNCHANGED dir
  /\ UNCHANGED <<changed, others>>

Arrive(w) ==
  /\ w \in late /\ late' = late \ {w}
  /\ IF Accepted(accounts, w) THEN Perform(w) ELSE UNCHANGED dir
  /\ UNCHANGED <<sql, run, changed, faults, others>>

-----------------------------------------------------------------------------
(* Requests the application serves meanwhile, here each in one step (what  *)
(* may happen inside of one is module Directory's subject).                *)

Served(r, accts) == {a \in accts : a.id = r.id}

ServePassword(r) ==
  /\ r.kind = "password"
  /\ \E a \in Served(r, accounts) : \E w \in PasswordWrites(a) :
       /\ accounts' = WrittenTo(accounts, w)
       /\ migrated' = migrated \ {<<w.id, w.key>>}
  /\ changed' = changed \cup {r.id}

ServeDelete(r) ==
  /\ r.kind = "delete"
  /\ accounts' = accounts \ Served(r, accounts)
  /\ changed' = changed \cup {r.id}
  /\ UNCHANGED migrated

ServeAlias(r) ==
  /\ r.kind = "alias"
  /\ r.addr.domain \in Hosted /\ Owners(accounts, r.addr) = {}
  /\ \E a \in Served(r, accounts) : \E key \in NextListKey(KeysOf(a.aliases)) :
       accounts' = (accounts \ {a})
         \cup {[a EXCEPT !.aliases = a.aliases \cup {[key |-> key, addr |-> r.addr]}]}
  /\ UNCHANGED <<migrated, changed>>

ServeUnalias(r) ==
  /\ r.kind = "unalias"
  /\ \E a \in Served(r, accounts) : \E al \in VisibleAliases(a) :
       /\ al.addr = r.addr
       /\ accounts' = (accounts \ {a}) \cup {[a EXCEPT !.aliases = a.aliases \ {al}]}
  /\ UNCHANGED <<migrated, changed>>

Serve(r) ==
  /\ others < MaxOthers /\ others' = others + 1
  /\ ServePassword(r) \/ ServeDelete(r) \/ ServeAlias(r) \/ ServeUnalias(r)
  /\ UNCHANGED <<sql, run, late, faults>>

Run ==
  \/ ListAccounts
  \/ Check
  \/ \E i \in DOMAIN sql : Write(i) \/ Refuse(i)

Next ==
  \/ \E f \in BOOLEAN, o \in Onlys : Launch(f, o)
  \/ Run
  \/ Fail
  \/ \E w \in late : Arrive(w)
  \/ \E r \in Others : Serve(r)

\* A run goes on until it ends: every remote call returns, at the latest when
\* the five minutes of the run are over.  The operator applies again as long as
\* the migration is not done.
Fairness ==
  /\ WF_vars(Run)
  /\ SF_vars(Launch(TRUE, {}))

Spec == Init /\ [][Next]_vars /\ Fairness
-----------------------------------------------------------------------------
(* Properties.                                                             *)

TypeOK ==
  /\ sql \in Sources
  /\ accounts \subseteq Account
  /\ migrated \subseteq Nat \X Nat
  /\ phase \in {"idle", "accounts", "domains", "write"}
  /\ apply \in BOOLEAN /\ only \in Onlys
  /\ snapshot \subseteq Account
  /\ todo \subseteq DOMAIN sql
  /\ patched \in BOOLEAN
  /\ result \in {"none", "dry", "done", "error"}
  /\ late \subseteq PatchKind \cup SecretKind
  /\ changed \subseteq Nat
  /\ faults \in 0..MaxFaults /\ others \in 0..MaxOthers

ApiKeys(a) == {cr \in a.creds : cr.type = "ApiKey"}

\* The tool only adds: through all it does an account keeps its aliases, its
\* Admin role and its API keys, whatever runs fail and whichever of their
\* writes arrive late (migrate.go:112, README.md:99).
OnlyAdds ==
  others' = others => \A a \in accounts : \A b \in accounts' :
    b.id = a.id =>
      /\ a.aliases \subseteq b.aliases
      /\ a.admin => b.admin
      /\ ApiKeys(a) \subseteq ApiKeys(b)

NothingRemoved == [][OnlyAdds]_vars

\* No address is at two places, although the checks of a run are made once,
\* on the listing, for all the writes of the run (migrate.go:130-140, 172-181).
\* Runs limited to one account each see only their own account's aliases.
Unshared ==
  \A a, b \in accounts :
    /\ \A al \in a.aliases : al.addr # b.email
    /\ \A al \in a.aliases, other \in b.aliases : al.addr = other.addr => a = b /\ al = other

\* An SQL account that cannot be migrated.
Bad(i) ==
  \/ ~sql[i].validHash
  \/ \A a \in InitAccounts : a.type = "User" => a.email # sql[i].name
  \/ \E e \in sql[i].emails :
       \/ e.type = "list"
       \/ e.type = "alias" /\ (e.addr \in Malformed \/ e.addr.domain \notin Hosted)

\* One bad account anywhere in the SQL directory, and a full run leaves no
\* trace: not one account is written first, nor is a write left under way
\* (migrate.go:292-293, README.md:98).  Only what an earlier run, of the good
\* accounts alone, has left under way may still arrive.
LeavesNoTrace ==
  (phase # "idle" /\ only = {} /\ \E i \in Active(sql) : Bad(i)) =>
    /\ late' \subseteq late
    /\ (late' = late /\ others' = others) => UNCHANGED dir

BadSourceLeavesNoTrace == [][LeavesNoTrace]_vars

\* The credential somebody signs in to account a with.
LoginKeys(a) ==
  {cr.key : cr \in {x \in a.creds : /\ x.type = "Password"
                                    /\ \A y \in a.creds : y.type = "Password" => x.key <= y.key}}

\* A run that reports success has brought Stalwart up to the SQL data, however
\* many runs stopped half way before it (migrate.go:305-315, 111-112).
DoneMeansMigrated ==
  result = "done" =>
    \A i \in Selected(sql, only), a \in accounts :
      a.email = sql[i].name =>
        /\ sql[i].admin => a.admin
        /\ sql[i].quota > 0 => a.quota = sql[i].quota
        /\ AliasesOf(sql[i]) \subseteq {a.email} \cup {al.addr : al \in a.aliases}
        /\ a.id \notin changed => \E k \in LoginKeys(a) : <<a.id, k>> \in migrated

\* Every run ends, and an operator who applies again after each failure ends
\* with all of the accounts migrated, provided the SQL data can be: no write of
\* a failed run stands in the way of the next (migrate_test.go:389).
Importable ==
  /\ ~Unreadable(sql)
  /\ LET sel == Selected(sql, {})
     IN  \A i \in sel : ~Problem(sql, sel, InitAccounts, i)

RunsEnd == phase # "idle" ~> phase = "idle"

EventuallyMigrated ==
  Importable ~> (result = "done" /\ only = {}) \/ changed # {}
=============================================================================
