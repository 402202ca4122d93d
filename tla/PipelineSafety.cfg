SPECIFICATION FairSpec
CONSTANTS
  Workers = {w1}
  Triggers = {t1}
  Replicas = {r1, r2}
  Requests = {q1}
  Eligible <- MCEligible
  GatewayOutcomes = {"confirmed", "failed"}
  BasePayout = 2
  WeeklyCap = 3
  MaxFaults = 2
  None = None
CHECK_DEADLOCK FALSE
INVARIANT AtomicSettlement ExclusiveClaim TransferAccounted
PROPERTY LedgerSpec TransactionsEnd
