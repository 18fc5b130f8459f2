CONSTANTS
  Account = {anna, bert}
  Domain = {here, away}
  NoAccount = NoAccount
  MaxLoads = 2
  MaxElsewhere = 1
SPECIFICATION Spec
INVARIANTS TypeOK OwnDomainsOnly
PROPERTIES SavesEnd
