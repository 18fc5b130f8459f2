CONSTANTS
  Calls = {c1, c2}
  Name <- MCName
  Domain <- MCDomain
  DomainOf <- MCDomainOf
  Request <- MCRequest
  Change <- MCChange
  InitRole <- MCRole
  InitRows <- MCRows
  InitAlias <- MCAlias
  SignedIn = {"root@a", "dora@a"}
  SignIns = {"ulla@a"}
  TTL = 1
  MaxTime = 2
  MaxRequests = 2
  MaxChanges = 1
SPECIFICATION InstanceSpec
INVARIANTS TypeOK ActsWithinRights SessionsExpire
SYMMETRY Symmetry
