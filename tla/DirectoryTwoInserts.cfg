\* Two aliases are added to one account at the same time.
CONSTANTS
  Local <- MCLocal
  Domain <- MCDomain
  Hosted <- MCHosted
  Calls = {c1, c2}
  Requests <- TwoInserts
  InitAccounts <- MCAccounts
  InitRows <- MCRows
  FirstId = 4
  MaxId = 4
  MaxKey = 3
  MaxLate = 0
SPECIFICATION Spec
PROPERTY
  AliasGoesOnRequest
