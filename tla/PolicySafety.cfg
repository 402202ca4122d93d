SPECIFICATION RoutesSpec
CONSTANTS
  Policies = {p1, p2}
  Buyers = {b1}
  Holders = {h1, h2}
  Week = 1
  MaxTime = 1
  MaxRenewals = 1
  None = None
  Profiles <- MCProfiles
  ClaimHistories <- MCClaimHistories
  Quotes = {q1, q2}
  Asked = {"basic"}
  Askers = {r1, r2}
  Wanted = {"basic", "standard"}
  Viewers = {v1}
  MaxDowngrades = 1
CHECK_DEADLOCK FALSE
SYMMETRY MCSymmetry
INVARIANT AtMostOneActive EndMatchesRenewals CoverWithinPlan ViewFresh PremiumBounded
PROPERTY CancelledForGood QuoteHonoured
