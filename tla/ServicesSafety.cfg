SPECIFICATION ServicesSpec
CONSTANTS
  HeavyRain = HeavyRain
  SeverePollution = SeverePollution
  LocalRestriction = LocalRestriction
  Feeds <- MCFeeds
  Local <- MCLocal
  Duration <- MCDuration
  Clients = {"str", "bytes"}
  MaxTime = 4
  MaxFaults = 1
  None = None
  Weather = Weather
  AirQuality = AirQuality
  Adapters = {Weather, AirQuality}
  Conditions <- MCConditions
  Order <- MCOrder
  Lasting <- MCLasting
  Measures <- MCMeasures
  Deployments <- MCDeployments
  Restriction = LocalRestriction
  PollEvery = 2
  Grace = 1
  StaleAge = 6
  ActiveWindow = 2
  DedupWindow = 6
  MaxClock = 7
  MaxEnds = 1
  MaxMishaps = 1
  Nothing = Nothing
  c1 = c1
  c2 = c2
  c3 = c3
  c4 = c4
  Filed = {c1, c2, c3, c4}
  Asked = {c1}
  Standings = {"pending", "rejected"}
  WorkerOf <- MCWorkerOf
  About <- MCAbout
  Scorings = {q1}
  Signals <- MCFraudSignals
  NoResult = NoResult
  Couriers = {w1, w2}
  w1 = w1
  w2 = w2
  Fingerprints = {f1}
  Zones = {z1}
  z1 = z1
  Incidents = {i1, i2}
  i1 = i1
  i2 = i2
  By <- MCBy
  In <- MCIn
  Analyses = {a1, a2}
  MinSize = 2
  Nowhere = Nowhere
CHECK_DEADLOCK FALSE
INVARIANT FiresAfterSustainedBreach FiresOnRecentReading UnsentAccounted
INVARIANT DetectionSustained SustainedDetected EventsAnnounced  ClustersConsistent
