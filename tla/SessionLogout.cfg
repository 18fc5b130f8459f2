\* One session is logged out while it changes its password.
CONSTANTS
  c1 = c1
  c2 = c2
  anna = anna
  bert = bert
  Calls <- MCCalls
  Users <- MCUsers
  Rotation = {FALSE, TRUE}
  TokenTTL = 1
  StateTTL = 1
  AccessTTL = 2
  Margin = 1
  CallTime = 1
  MaxFlows = 1
  MaxRefresh = 2
  MaxTime = 2
SPECIFICATION Spec
INVARIANT
  LogoutForgets
