SPECIFICATION FairSpec
CONSTANTS
  Workers = {w1, w2}
  Triggers = {t1, t2}
  Replicas = {r1}
  Requests = {}
  Eligible <- MCEligible
  GatewayOutcomes = {"confirmed"}
  BasePayout = 2
  WeeklyCap = 3
  MaxFaults = 0
  None = None
CHECK_DEADLOCK FALSE
PROPERTY PolledTriggerSettled
