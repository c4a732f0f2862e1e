CONSTANTS
  daily = daily
  extra = extra
  tick = tick
  k1 = k1
  k2 = k2
  NoRun = NoRun
  Businesses <- MCBusinesses
  ClientKeys <- MCClientKeys
  Restorable <- MCAllSteps
  ApiRequests <- MCApi
  CronRequests <- MCCron
  QueueSize = 1
  MaxRuns = 2
  MaxBoots = 2
  MaxFaults = 0
  NumSteps = 1
SPECIFICATION Spec
INVARIANTS
  OneActivePerBusiness
  UniqueKeys
  WorkerOwnsRunning
  PendingIsHeld
PROPERTIES
  FinishedRunsAreFinal
  KeepsLifecycle
