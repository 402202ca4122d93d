SPECIFICATION Spec
CONSTANTS
  Workers = {w1}
  Profiles <- MCProfiles
  NewProfiles <- MCNewProfiles
  Plans = {"basic"}
  Week = 1
  Waiting <- MCWaiting
  MaxTime = 2
  MaxPolicies = 2
  MaxChanges = 1
  None = None
  storm = storm
  outage = outage
  Incidents = {storm, outage}
  Event <- MCEvent
  Answers = {"success", "pending"}
  Amounts = {1000}
  Thresholds <- MCThresholds
  DefaultThresholds <- MCDefault
  DuplicateWindow = 0
  BurstWindow = 1
  Day = 1
  BurstLimit = 2
  MaxClaims = 2
INVARIANT PurchasesDisjoint MoneyAccounted BurstBounded
