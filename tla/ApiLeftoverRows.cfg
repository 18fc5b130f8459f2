CONSTANTS
  Calls = {c1, c2}
  Name <- MCName
  Domain <- MCDomain
  DomainOf <- MCDomainOf
  Request <- MCCreatePiet
  Change <- MCPietLeaves
  InitRole <- MCRole
  InitRows <- MCRows
  InitAlias <- MCAlias
  SignedIn = {"dora@a"}
  SignIns = {}
  TTL = 1
  MaxTime = 0
  MaxRequests = 2
  MaxChanges = 1
SPECIFICATION Spec
PROPERTIES NoRightsGranted
