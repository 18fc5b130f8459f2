\* An account is deleted while it is given domains.
CONSTANTS
  Local <- MCLocal
  Domain <- MCDomain
  Hosted <- MCHosted
  Calls = {c1, c2}
  Requests <- DeleteAndGrant
  InitAccounts <- MCAccounts
  InitRows <- MCRows
  FirstId = 4
  MaxId = 4
  MaxKey = 3
  MaxLate = 0
SPECIFICATION Spec
INVARIANT
  NoOrphanRows
