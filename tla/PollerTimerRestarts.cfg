SPECIFICATION Spec
CONSTANTS
  HeavyRain = HeavyRain
  SeverePollution = SeverePollution
  LocalRestriction = LocalRestriction
  Feeds <- MCFeeds
  Local <- MCLocal
  Duration <- MCDuration
  Clients = {"str"}
  MaxTime = 5
  MaxFaults = 0
  None = None
CHECK_DEADLOCK FALSE
INVARIANT SustainedBreachFires
