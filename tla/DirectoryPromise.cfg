\* Requests one at a time, and compatible ones that overlap, with a late write.
CONSTANTS
  Local <- MCLocal
  Domain <- MCDomain
  Hosted <- MCHosted
  Calls = {c1, c2}
  Requests <- AllRequests
  InitAccounts <- MCAccounts
  InitRows <- MCRows
  FirstId = 4
  MaxId = 4
  MaxKey = 3
  MaxLate = 1
SYMMETRY CallSymmetry
SPECIFICATION InstanceSpec
INVARIANT
  NoOrphanRows
PROPERTIES
  GrantReplaces
  OkMeansDone
  ImplementsPromise
