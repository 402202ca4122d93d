SPECIFICATION RoutesSpec
CONSTANTS
  Policies = {p1}
  Buyers = {b1}
  Holders = {h1}
  Week = 1
  MaxTime = 0
  MaxRenewals = 2
  None = None
  Profiles <- MCProfiles
  ClaimHistories <- MCClaimHistories
  Quotes = {q1}
  Asked = {}
  Askers = {}
  Wanted = {"basic", "standard"}
  Viewers = {}
  MaxDowngrades = 1
CHECK_DEADLOCK FALSE
PROPERTY DowngradeOnce
