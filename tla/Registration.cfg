\* Two pods with different secrets, a Stalwart that comes and goes, one late
\* call and one removal by an administrator.
CONSTANTS
  old = old
  new = new
  ours = ours
  staging = staging
  secret0 = secret0
  secret1 = secret1
  secret2 = secret2
  Pods <- MCPods
  ClientId = ours
  OtherIds <- MCOtherIds
  Secret <- MCSecret
  OldSecret = secret0
  Existing <- MCExisting
  MinBackoff = 5
  MaxBackoff = 15
  MaxId = 5
  MaxLate = 1
  MaxRemovals = 1
SPECIFICATION Spec
INVARIANTS
  TypeOK
  NoStaleSecret
PROPERTIES
  OthersUntouched
  Registers
