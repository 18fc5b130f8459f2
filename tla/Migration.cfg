\* Several runs over good and bad SQL data, two of them failing anywhere, while
\* the application serves a request.
CONSTANTS
  Local <- MCLocal
  Domain <- MCDomain
  Hosted <- MCHosted
  Sources <- MCSources
  AddressOrder <- MCOrder
  Malformed <- MCMalformed
  Onlys <- MCOnlys
  Others <- MCOthers
  InitAccounts <- MCAccounts
  MaxFaults = 2
  MaxOthers = 2
  MaxLate = 2
SPECIFICATION Spec
INVARIANTS
  TypeOK
  Unshared
  DoneMeansMigrated
PROPERTIES
  NothingRemoved
  BadSourceLeavesNoTrace
  RunsEnd
  EventuallyMigrated
