CONSTANTS
  daily = daily
  extra = extra
  tick = tick
  k1 = k1
  k2 = k2
  NoRun = NoRun
  Businesses <- MCBusinesses
  ClientKeys <- MCClientKeys
  Restorable <- MCAllSteps
  ApiRequests <- MCOneApi
  CronRequests <- MCNoCron
  QueueSize = 1
  MaxRuns = 1
  MaxBoots = 2
  MaxFaults = 0
  NumSteps = 1
SPECIFICATION FairSpec
PROPERTIES
  OrphanIsRecovered
