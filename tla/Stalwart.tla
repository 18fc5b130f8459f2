------------------------------ MODULE Stalwart ------------------------------
(***************************************************************************)
(* The part of the Stalwart mail server this application depends on: the   *)
(* directory of accounts behind x:Account/get and x:Account/set.  Stalwart *)
(* is not in this repository; what is written here is what the JMAP client *)
(* (internal/stalwart/jmap.go) sends, and what its decoder expects back.   *)
(*                                                                         *)
(* Lists that Stalwart keys (aliases, credentials) are sets of entries     *)
(* with a `key' field.  A JMAP patch addresses an entry by its key, and    *)
(* setting an occupied key replaces the entry that was there.              *)
(*                                                                         *)
(* Addresses are canonical (trimmed, lower case) throughout.               *)
(***************************************************************************)
EXTENDS Naturals

CONSTANTS
  Local,    \* local parts of addresses
  Domain,   \* domain names, hosted or not
  Hosted    \* the domains Stalwart hosts (x:Domain/get)

ASSUME HostedAssumption == Hosted \subseteq Domain

Address == [local : Local, domain : Domain]

Alias == [key : Nat, addr : Address]

Credential == [key : Nat, type : {"Password", "ApiKey"}]

\* The fields of an account object the application reads or writes.  `quota'
\* is maxDiskQuota, 0 when the key is absent; `groups' holds account ids.
Account ==
  [ id      : Nat,
    type    : {"User", "Group"},
    email   : Address,
    aliases : SUBSET Alias,
    groups  : SUBSET Nat,
    admin   : BOOLEAN,
    quota   : Nat,
    creds   : SUBSET Credential ]

-----------------------------------------------------------------------------
(* What x:Account/set can be asked to do.                                  *)

CreateWrite     == [kind : {"create"}, email : Address, quota : Nat]
DestroyWrite    == [kind : {"destroy"}, id : Nat]
AliasWrite      == [kind : {"alias"}, id : Nat, key : Nat, addr : Address]
UnaliasWrite    == [kind : {"unalias"}, id : Nat, key : Nat]
MemberWrite     == [kind : {"join", "leave"}, id : Nat, group : Nat]
ProfileWrite    == [kind : {"profile"}, id : Nat,
                    fields : SUBSET {"description", "quota"}, quota : Nat]
\* credentials/<key>/secret, and credentials/<key> with a new Password entry
SecretWrite     == [kind : {"secret"}, id : Nat, key : Nat]
CredentialWrite == [kind : {"credential"}, id : Nat, key : Nat]

PatchWrite ==
  AliasWrite \cup UnaliasWrite \cup MemberWrite \cup ProfileWrite
    \cup SecretWrite \cup CredentialWrite

AccountWrite == CreateWrite \cup DestroyWrite \cup PatchWrite

\* CreateAccount sends one Password credential under key 0, no alias, no group
\* and the User role.
NewAccount(id, w) ==
  [ id      |-> id,
    type    |-> "User",
    email   |-> w.email,
    aliases |-> {},
    groups  |-> {},
    admin   |-> FALSE,
    quota   |-> w.quota,
    creds   |-> {[key |-> 0, type |-> "Password"]} ]

\* Put entry e into a keyed list, in the place of whatever has its key.
PutEntry(list, e) == {x \in list : x.key # e.key} \cup {e}

Patched(a, w) ==
  CASE w.kind = "alias" ->
         [a EXCEPT !.aliases = PutEntry(a.aliases, [key |-> w.key, addr |-> w.addr])]
    [] w.kind = "unalias" ->
         [a EXCEPT !.aliases = {al \in a.aliases : al.key # w.key}]
    [] w.kind = "join"  -> [a EXCEPT !.groups = a.groups \cup {w.group}]
    [] w.kind = "leave" -> [a EXCEPT !.groups = a.groups \ {w.group}]
    [] w.kind = "profile" ->
         [a EXCEPT !.quota = IF "quota" \in w.fields THEN w.quota ELSE a.quota]
    [] w.kind = "credential" ->
         [a EXCEPT !.creds = PutEntry(a.creds, [key |-> w.key, type |-> "Password"])]
    [] OTHER -> a

\* Stalwart refuses a second account with the same name and domain
\* (alreadyExists), an unknown id (notFound) and a patch below a list entry
\* that does not exist (invalidPatch).  It may refuse any other write too; the
\* modules that use this one leave that open.
Accepts(accts, w) ==
  CASE w.kind = "create" -> \A a \in accts : a.email # w.email
    [] w.kind = "secret" ->
         \E a \in accts : a.id = w.id /\ \E cr \in a.creds : cr.key = w.key
    [] OTHER -> \E a \in accts : a.id = w.id

\* The directory after an accepted write; `id' names the account a create makes.
Effect(accts, w, id) ==
  CASE w.kind = "create"  -> accts \cup {NewAccount(id, w)}
    [] w.kind = "destroy" -> {a \in accts : a.id # w.id}
    [] OTHER -> {IF a.id = w.id THEN Patched(a, w) ELSE a : a \in accts}

=============================================================================
