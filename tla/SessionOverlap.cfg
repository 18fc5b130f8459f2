\* Two requests at a time; two sign-ins, or one session for longer; tokens that
\* expire and are revoked, a logout or a restart at any time.
CONSTANTS
  c1 = c1
  c2 = c2
  anna = anna
  bert = bert
  Calls <- MCCalls
  Users <- MCUsers
  Rotation = {FALSE, TRUE}
  TokenTTL = 1
  StateTTL = 1
  AccessTTL = 2
  Margin = 1
  CallTime = 1
  MaxFlows = 2
  MaxRefresh = 3
  MaxTime = 3
SYMMETRY Symmetry
SPECIFICATION InstanceSpec
INVARIANTS
  TypeOK
  TokensMatchSession
  TokensOutliveSession
  FreshWhenUsed
  LogoutForgetsWhenIdle
PROPERTIES
  ReauthMeansGone
  ChangeIsFinal
