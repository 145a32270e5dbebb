SPECIFICATION SceneSpec
CONSTANTS
  b1 = b1
  b2 = b2
  b3 = b3
  p1 = p1
  p2 = p2
  NoValue = NoValue
  Binding = {b1, b2, b3}
  Profile = {p1, p2}
  ProfileOf <- MCProfileOf
  Field = {title}
  Value = {v}
  Worker = {w1, w2}
  MaxPairs = 3
  MaxChanges = 3
SYMMETRY Symmetry
CHECK_DEADLOCK FALSE
INVARIANTS
  RoutingOwed
  MetadataOwed
  
  CredentialKept
  DeadIsDead
  FreezeRemembered
PROPERTIES
  AccountsSurvive
