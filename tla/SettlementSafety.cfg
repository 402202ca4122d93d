SPECIFICATION FairSpec
CONSTANTS
  Claims = {c1}
  Reviewers = {r1}
  RiskAdmins = {r1}
  Appeals = {a1}
  Deliveries = {d1, d2}
  Jobs = {j1}
  Retries = {t1, t2}
  Adapters = {"razorpay", "mock", "contract"}
  Signals <- MCSignals
  OrmClaims = {}
  RecheckAge = 1
  StaleAge = 1
  EscalateAge = 2
  ReviewAge = 2
  None = None
CHECK_DEADLOCK FALSE
INVARIANTS RecordsTruthful SuccessStands PaidOnce
PROPERTY UncertainResolved
