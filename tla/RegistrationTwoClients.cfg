\* As Registration.cfg: a second client with the same id, by another pod or a
\* late call.
CONSTANTS
  old = old
  new = new
  ours = ours
  staging = staging
  secret0 = secret0
  secret1 = secret1
  secret2 = secret2
  Pods <- MCPods
  ClientId = ours
  OtherIds <- MCOtherIds
  Secret <- MCSecret
  OldSecret = secret0
  Existing <- MCExisting
  MinBackoff = 5
  MaxBackoff = 15
  MaxId = 5
  MaxLate = 1
  MaxRemovals = 0
SPECIFICATION Spec
PROPERTIES
  CreatedWhenNone
