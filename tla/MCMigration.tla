---------------------------- MODULE MCMigration ----------------------------
(* Instances of Migration for TLC.                                          *)
EXTENDS Migration, TLC

at(local, domain) == [local |-> local, domain |-> domain]

Anna == at("anna", "here")
Bert == at("bert", "here")
Crew == at("crew", "here")
Info == at("info", "here")
News == at("news", "here")
Post == at("post", "here")
Team == at("team", "here")
Away == at("news", "away")
None == at("none", "here")

MCLocal  == {"anna", "bert", "crew", "info", "news", "post", "team", "none"}
MCDomain == {"here", "away"}
MCHosted == {"here"}
MCMalformed == {None}

\* Alphabetical, as far as these addresses go.
MCOrder == [x \in Address |->
  CASE x.local = "info" -> 1 [] x.local = "news" -> 2 [] x.local = "post" -> 3 [] OTHER -> 0]

EmptyAccount ==
  [ id |-> 0, type |-> "User", email |-> Anna, aliases |-> {}, groups |-> {},
    admin |-> FALSE, quota |-> 0, creds |-> {} ]

\* anna has one of her SQL aliases, an alias on a domain no longer hosted, an
\* API key and no password; bert has two passwords; crew is a group.
MCAccounts ==
  { [EmptyAccount EXCEPT
       !.id = 1,
       !.aliases = {[key |-> 0, addr |-> Info], [key |-> 3, addr |-> Away]},
       !.creds = {[key |-> 1, type |-> "ApiKey"]}],
    [EmptyAccount EXCEPT
       !.id = 2, !.email = Bert, !.admin = TRUE, !.quota = 5,
       !.creds = {[key |-> 0, type |-> "Password"], [key |-> 1, type |-> "Password"]}],
    [EmptyAccount EXCEPT
       !.id = 3, !.type = "Group", !.email = Crew,
       !.aliases = {[key |-> 0, addr |-> at("crew", "away")]}] }

alias(x) == [addr |-> x, type |-> "alias"]
primary(x) == [addr |-> x, type |-> "primary"]

SqlAnna ==
  [ name |-> Anna, active |-> TRUE, validHash |-> TRUE, admin |-> TRUE, quota |-> 7,
    emails |-> {primary(Anna), alias(Anna), alias(Info), alias(News), alias(Post)} ]
SqlBert ==
  [ name |-> Bert, active |-> TRUE, validHash |-> TRUE, admin |-> FALSE, quota |-> 0,
    emails |-> {primary(Bert)} ]
\* An account nobody uses any more, with rows that could not be migrated.
SqlCrew ==
  [ name |-> Crew, active |-> FALSE, validHash |-> FALSE, admin |-> FALSE, quota |-> 0,
    emails |-> {[addr |-> Crew, type |-> "list"]} ]

\* bert's row with one thing in it that cannot be migrated.
BadBerts ==
  { [SqlBert EXCEPT !.validHash = FALSE],
    [SqlBert EXCEPT !.emails = {alias(None)}],
    [SqlBert EXCEPT !.emails = {alias(Away)}],
    [SqlBert EXCEPT !.emails = {[addr |-> Post, type |-> "list"]}],
    [SqlBert EXCEPT !.name = at("post", "here")],
    [SqlBert EXCEPT !.name = Crew] }

\* bert's row with an address that is or becomes somebody else's.
SharingBerts ==
  { [SqlBert EXCEPT !.emails = {alias(x)}] : x \in {Anna, Crew, Info, Post} }

GoodSource == <<SqlAnna, SqlBert, SqlCrew>>

MCSources ==
  {GoodSource, <<[SqlBert EXCEPT !.emails = {alias(Post)}], SqlCrew>>, <<SqlAnna, SqlAnna>>, <<>>,
   <<[SqlAnna EXCEPT !.validHash = FALSE], SqlBert>>}
    \cup {<<SqlAnna, b>> : b \in BadBerts \cup SharingBerts}

MCOnlys == {{}, {Bert}, {Anna, Crew}}

\* Requests about accounts while they are migrated, and about the aliases of
\* one that is not.
MCOthers ==
  { [kind |-> "password", id |-> 1], [kind |-> "password", id |-> 2],
    [kind |-> "delete", id |-> 2],
    [kind |-> "alias", id |-> 3, addr |-> Team],
    [kind |-> "unalias", id |-> 3, addr |-> Team] }
=============================================================================
