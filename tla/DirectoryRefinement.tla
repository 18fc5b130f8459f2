------------------------- MODULE DirectoryRefinement -------------------------
(***************************************************************************)
(* How Directory implements DirectoryAbs: what each variable of the        *)
(* promise is in the state of the account store.                           *)
(***************************************************************************)
EXTENDS Directory

AddressesOf(list) == {al.addr : al \in list}

WithPassword(creds) == \E cr \in creds : cr.type = "Password"

ApiKeysOf(creds) == {cr \in creds : cr.type = "ApiKey"}

\* An account as DirectoryAbs sees it: its lists without their keys.
Abstract(a) ==
  [ id       |-> a.id,
    type     |-> a.type,
    email    |-> a.email,
    aliases  |-> AddressesOf(a.aliases),
    groups   |-> a.groups,
    admin    |-> a.admin,
    quota    |-> a.quota,
    password |-> WithPassword(a.creds),
    apiKeys  |-> ApiKeysOf(a.creds) ]

DomainOfAddress(addr) == addr.domain

Promise == INSTANCE DirectoryAbs WITH
  dir        <- {Abstract(a) : a \in accounts},
  admins     <- rows,
  InitDir    <- {Abstract(a) : a \in InitAccounts},
  InitAdmins <- InitRows,
  DomainOf   <- DomainOfAddress

\* Every request of the application is, as far as the directory and the domain
\* admin rows show, one of the indivisible changes DirectoryAbs allows, or no
\* change: failures, lost answers and late writes leave nothing in between.
ImplementsPromise == Promise!Spec
==============================================================================
