SPECIFICATION SceneSpec
CONSTANTS
  b1 = b1
  p1 = p1
  Binding = {b1, b2}
  Profile = {p1}
  None = None
  Routed = {b1}
  RoutedProfile <- MCRoutedProfile
  NoField = {}
  Id = {e1}
  NoId = NoId
  NoValue = NoValue
  ArmLead = 1
  Grace = 1
  StartInFlight = 2
  Retention = 3
  RequireAll = FALSE
  MaxTime = 5
  StartTimes = {1}
  AutoStart = {TRUE}
  PreludeMax = 1
  Preludes = {TRUE, FALSE}
  BeginOk = {TRUE}
  EdgeFirst = TRUE
  Order <- MCOrder
  Plans <- MCPlans
  Outcome <- MCOutcome
  Connected <- MCConnected
CHECK_DEADLOCK FALSE
PROPERTIES
  UiReturns
  EntriesSettle
