SPECIFICATION Spec
CONSTANTS
  e1 = e1
  e2 = e2
  b1 = b1
  b2 = b2
  p1 = p1
  p2 = p2
  NoId = NoId
  NoValue = NoValue
  Field = {}
  Value = {}
  Id = {e1}
  Binding = {b1, b2}
  Profile = {p1, p2}
  ProfileOf <- MCProfileOf2
  Order <- MCPlannedFirst
  ArmLead = 1
  Grace = 1
  StartInFlight = 2
  Retention = 3
  MaxTime = 3
  PreludeMax = 1
  RequireAll = FALSE
  StartTimes = {1, 3}
  Plans <- MCPlans
  AutoStart = {TRUE}
  Outcome <- MCUpOrFailed2
  Connected <- MCConnected2
  Preludes = {TRUE, FALSE}
  BeginOk = {TRUE}
  EdgeFirst = TRUE
CHECK_DEADLOCK FALSE
INVARIANT OnlyPlannedAired
