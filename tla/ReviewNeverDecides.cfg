SPECIFICATION ReviewFairSpec
CONSTANTS
  Claims = {c1, c2}
  Reviewers = {r1, r2}
  RiskAdmins = {r2}
  Appeals = {a1}
  Signals <- MCOneSignal
  OrmClaims = {c1, c2}
  None = None
CHECK_DEADLOCK FALSE
PROPERTY ReviewedEventually
