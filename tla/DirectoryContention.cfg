\* Two requests at a time that contend for one account, and a late write.
CONSTANTS
  Local <- MCLocal
  Domain <- MCDomain
  Hosted <- MCHosted
  Calls = {c1, c2}
  Requests <- ContendingRequests
  InitAccounts <- MCAccounts
  InitRows <- MCRows
  FirstId = 4
  MaxId = 4
  MaxKey = 3
  MaxLate = 1
SYMMETRY CallSymmetry
SPECIFICATION Spec
INVARIANTS
  TypeOK
  InsertFits
  RemoveFits
  AddressClear
  OnePassword
PROPERTIES
  OnlyNamedChange
  ApiKeysKept
