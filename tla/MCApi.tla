------------------------------- MODULE MCApi --------------------------------
(* An instance of Api for TLC.                                              *)
EXTENDS Api, TLC

\* root is a full admin; dora administers the domain a, piet a and b; ulla is a
\* user; crew is a group on b; free is nobody's.
MCDomain == {"a", "b"}

MCName == {"root@a", "dora@a", "piet@a", "ulla@a", "crew@b", "free@a"}

MCDomainOf == [n \in MCName |-> IF n = "crew@b" THEN "b" ELSE "a"]

MCRole ==
  [n \in MCName |-> CASE n = "root@a" -> "admin"
                      [] n = "crew@b" -> "group"
                      [] n = "free@a" -> "none"
                      [] OTHER -> "user"]

MCRows ==
  [n \in MCName |-> CASE n = "dora@a" -> {"a"}
                      [] n = "piet@a" -> {"a", "b"}
                      [] OTHER -> {}]

MCAlias == {}

Plain(op, name, arg) ==
  [op |-> op, name |-> name, arg |-> arg, quota |-> FALSE, domains |-> {}]

OnAccount(op, name) == Plain(op, name, name)

\* Requests around the rights of one another's targets.
RightsRequests ==
  { OnAccount("list", "dora@a"),
    OnAccount("create", "free@a"),
    OnAccount("password", "ulla@a"),
    OnAccount("password", "dora@a"),
    [OnAccount("patch", "ulla@a") EXCEPT !.quota = TRUE],
    OnAccount("delete", "piet@a"),
    Plain("add_email", "ulla@a", "free@a"),
    Plain("del_email", "ulla@a", "free@a"),
    Plain("add_group", "ulla@a", "crew@b"),
    [OnAccount("put_domains", "ulla@a") EXCEPT !.domains = {"b"}],
    [OnAccount("put_domains", "dora@a") EXCEPT !.domains = {"a", "b"}] }

\* Requests while sessions expire.
SessionRequests ==
  { OnAccount("get", "ulla@a"),
    OnAccount("delete", "ulla@a"),
    OnAccount("create", "ulla@a"),
    Plain("del_group", "ulla@a", "crew@b") }

MCRequest == RightsRequests \cup SessionRequests

MCChange ==
  { [name |-> "ulla@a", role |-> "admin"],
    [name |-> "dora@a", role |-> "none"],
    [name |-> "root@a", role |-> "user"] }

\* The run about rights left behind.
MCCreatePiet == {OnAccount("create", "piet@a")}

MCPietLeaves == {[name |-> "piet@a", role |-> "none"]}

Symmetry == Permutations(Calls)

=============================================================================
