--------------------------- MODULE DirectoryAbs ---------------------------
(***************************************************************************)
(* What the account store promises, without the remote calls: an account   *)
(* is a user or group with an address, a set of alias addresses and so on, *)
(* and every request is one indivisible change of the directory or of the  *)
(* domain admin table.  List keys, listings, deadlines and answers are the *)
(* business of Directory, which implements this module where its requests  *)
(* do not interfere.                                                       *)
(***************************************************************************)
EXTENDS Naturals

CONSTANTS
  Address,     \* mail addresses
  Domain,      \* domain names
  Hosted,      \* the domains hosted here
  DomainOf(_), \* the domain of an address
  InitDir,     \* the accounts at the start
  InitAdmins   \* the domains each address administers at the start

VARIABLES
  dir,     \* the accounts
  admins   \* the domains each address administers

vars == <<dir, admins>>

\* The accounts that receive mail for an address.
Holders(addr) == {a \in dir : addr = a.email \/ addr \in a.aliases}

Init == dir = InitDir /\ admins = InitAdmins

\* Replace account a by b.
Replace(a, b) == dir' = (dir \ {a}) \cup {b}

\* A new user starts without aliases, groups or rights, domain rights included.
Create ==
  \E a \in dir' \ dir :
    /\ dir' = dir \cup {a}
    /\ \A b \in dir : b.id # a.id /\ b.email # a.email
    /\ a.type = "User" /\ ~ a.admin
    /\ a.aliases = {} /\ a.groups = {} /\ a.apiKeys = {}
    /\ a.password
    /\ DomainOf(a.email) \in Hosted
    /\ admins[a.email] = {}

\* An account leaves the directory after its domain rights.
Destroy ==
  \E a \in dir :
    /\ a.type = "User"
    /\ admins[a.email] = {}
    /\ dir' = dir \ {a}

\* An alias is on a hosted domain, and new to the whole directory.
AddAlias ==
  \E a \in dir, addr \in Address :
    /\ a.type = "User"
    /\ DomainOf(addr) \in Hosted
    /\ Holders(addr) = {}
    /\ Replace(a, [a EXCEPT !.aliases = a.aliases \cup {addr}])

RemoveAlias ==
  \E a \in dir : \E addr \in a.aliases :
    /\ a.type = "User"
    /\ DomainOf(addr) \in Hosted
    /\ Replace(a, [a EXCEPT !.aliases = a.aliases \ {addr}])

JoinGroup ==
  \E a, g \in dir :
    /\ a.type = "User" /\ g.type = "Group"
    /\ Replace(a, [a EXCEPT !.groups = a.groups \cup {g.id}])

LeaveGroup ==
  \E a \in dir : \E g \in a.groups :
    /\ a.type = "User"
    /\ Replace(a, [a EXCEPT !.groups = a.groups \ {g}])

SetQuota ==
  \E a \in dir, b \in dir' :
    /\ a.type = "User"
    /\ Replace(a, b)
    /\ b = [a EXCEPT !.quota = b.quota]

SetPassword ==
  \E a \in dir :
    /\ a.type = "User"
    /\ Replace(a, [a EXCEPT !.password = TRUE])

ChangeAccounts ==
  /\ dir' # dir
  /\ \/ Create \/ Destroy
     \/ AddAlias \/ RemoveAlias
     \/ JoinGroup \/ LeaveGroup
     \/ SetQuota \/ SetPassword
  /\ UNCHANGED admins

\* Domain rights are given to users of the directory only.
GrantDomains ==
  /\ admins' # admins
  /\ \E a \in dir, domains \in SUBSET Domain :
       /\ a.type = "User"
       /\ admins' = [admins EXCEPT ![a.email] = domains]
  /\ UNCHANGED dir

Next == ChangeAccounts \/ GrantDomains

Spec == Init /\ [][Next]_vars
=============================================================================
