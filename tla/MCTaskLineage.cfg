CONSTANTS
  daily = daily
  extra = extra
  tick = tick
  k1 = k1
  k2 = k2
  NoRun = NoRun
  Businesses <- MCBusinesses
  ClientKeys <- MCClientKeys
  Restorable <- MCAllSteps
  ApiRequests <- MCOneApi
  CronRequests <- MCNoCron
  QueueSize = 1
  MaxRuns = 1
  MaxBoots = 3
  MaxFaults = 1
  NumSteps = 2
SPECIFICATION Spec
INVARIANTS
  TypeOK
  ChildReplacesParent
  StepsNeedTheirPrefix
  SuccessIsComplete
