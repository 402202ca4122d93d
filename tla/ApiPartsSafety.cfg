SPECIFICATION PartsSpec
CONSTANTS
  Calls = {q1, q2, q3}
  Ips = {ip}
  Identities = {}
  Devices = {d1}
  Scopes <- Windows
  Spread = 1
  MaxTime = 2
  CodeLife = 2
  AskWindow = 2
  MaxAsks = 1
  Nil = Nil
  Readers = {v1, v2}
  Rows <- MCRows
  Limit = 1
  NoCursor = NoCursor
  Workers = {w1}
  Triggers = {t1, t2, t3}
  Replicas = {r1, r2}
  Requests = {}
  Eligible <- MCEligible
  GatewayOutcomes = {"confirmed", "failed"}
  BasePayout = 2
  WeeklyCap = 3
  MaxFaults = 1
  None = None
CHECK_DEADLOCK FALSE
SYMMETRY CallsAlike
INVARIANTS AdmittedBounded RefusalDeserved CodeUsedOnce AsksBounded TokenRotatedOnce LoggedOutStays WalksComplete OverrunBounded
