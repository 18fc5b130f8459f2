---------------------------- MODULE MCDirectory ----------------------------
(* Instances of Directory for TLC.                                          *)
EXTENDS DirectoryRefinement, TLC

-----------------------------------------------------------------------------
at(local, domain) == [local |-> local, domain |-> domain]

\* anna has two aliases, one on a domain no longer hosted, with a gap between
\* their keys, and no password but an API key; bert is an ordinary user; crew is
\* a group with an alias.
Anna == at("anna", "here")
Bert == at("bert", "here")
Crew == at("crew", "here")
News == at("news", "here")
Info == at("info", "here")
Away == at("anna", "away")
Anna2 == at("anna2", "here")
News2 == at("news2", "here")

MCLocal  == {"anna", "bert", "crew", "news", "info", "anna2", "news2"}
MCDomain == {"here", "away"}
MCHosted == {"here"}

EmptyAccount ==
  [ id |-> 0, type |-> "User", email |-> Anna, aliases |-> {}, groups |-> {},
    admin |-> FALSE, quota |-> 0, creds |-> {} ]

Password == [key |-> 0, type |-> "Password"]

MCAccounts ==
  { [EmptyAccount EXCEPT
       !.id = 1,
       !.aliases = {[key |-> 0, addr |-> Away], [key |-> 2, addr |-> News]},
       !.creds = {[key |-> 0, type |-> "ApiKey"]}],
    [EmptyAccount EXCEPT !.id = 2, !.email = Bert, !.groups = {3}, !.creds = {Password}],
    [EmptyAccount EXCEPT
       !.id = 3, !.type = "Group", !.email = Crew,
       !.aliases = {[key |-> 0, addr |-> Info]}] }

MCRows == [addr \in Address |-> IF addr = Anna THEN {"here"} ELSE {}]

Create(name)       == [op |-> "create", name |-> name, type |-> "individual", quota |-> 0]
CreateGroup        == [op |-> "create", name |-> News, type |-> "group", quota |-> 0]
Delete(name)       == [op |-> "delete", name |-> name]
SetPassword(name)  == [op |-> "password", name |-> name]
Insert(name, addr) == [op |-> "insert", name |-> name, addr |-> addr, type |-> "alias"]
Remove(name, addr) == [op |-> "remove", name |-> name, addr |-> addr]
AddGroup(name)     == [op |-> "add_group", name |-> name, group |-> Crew]
RemoveGroup(name)  == [op |-> "remove_group", name |-> name, group |-> Crew]
SetQuota(name, q)  == [op |-> "update", name |-> name, fields |-> {"quota"}, quota |-> q]
Disable(name)      == [op |-> "update", name |-> name, fields |-> {"inactive"}, quota |-> 0]
PutDomains(name, ds) == [op |-> "put_domains", name |-> name, domains |-> ds]

CallSymmetry == Permutations(Calls)

\* Every kind of request, the ones that are refused included.
AllRequests ==
  { Create(Anna), Create(Away), CreateGroup, Delete(Anna), Delete(Bert),
    SetPassword(Anna), SetPassword(Bert), Insert(Anna, Info), Insert(Anna, Anna2),
    Insert(Bert, News), Insert(Bert, Anna), Insert(Anna, Away), Insert(Away, Anna2), Remove(Anna, News),
    Remove(Bert, Info), AddGroup(Anna), RemoveGroup(Bert),
    SetQuota(Anna, 1), Disable(Bert), PutDomains(Anna, {"away"}), PutDomains(Bert, {"here"}) }

\* Requests that contend for Anna and for the addresses around her, and one
\* that is refused.
ContendingRequests ==
  { Create(Anna), CreateGroup, Delete(Anna), SetPassword(Anna), Insert(Anna, Anna2),
    Insert(Bert, News), Insert(Bert, Info), Remove(Anna, News), SetQuota(News, 1),
    PutDomains(Anna, {"away"}) }

\* Requests that may overlap in any way without one undoing what another
\* decided: no two inserts, and no grant of domains.
CompatibleRequests ==
  { Create(Anna), Delete(Anna), SetPassword(Anna), Insert(Anna, Anna2),
    Remove(Anna, News), RemoveGroup(Bert) }

\* Two requests each, that the application lets overlap.
TwoInserts     == {Insert(Bert, News2), Insert(Bert, Anna2)}
DeleteAndGrant == {Delete(Anna), PutDomains(Anna, {"away"})}

=============================================================================
