SPECIFICATION ReviewFairSpec
CONSTANTS
  Claims = {c1, c2}
  Reviewers = {r1, r2}
  RiskAdmins = {r2}
  Appeals = {a1, a2}
  Signals <- MCSignals
  OrmClaims = {c2}
  None = None
CHECK_DEADLOCK FALSE
INVARIANTS ApprovalStands ApprovalsAnnounced
PROPERTY StoppedNeedsAdmin ComparableDecided
