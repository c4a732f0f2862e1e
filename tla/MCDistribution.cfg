CONSTANTS
  monday = monday
  first = first
  second = second
  worker = worker
  NoTarget = NoTarget
  Episodes <- MCEpisodes
  Platforms <- MCPlatforms
  Requests <- MCRequests
  MaxAttempts = 3
  MaxBoots = 3
SPECIFICATION FairSpec
INVARIANTS
  TypeOK
  OneAttempt
  UploadsFollowRss
  RssRowIsTruthful
PROPERTIES
  TargetSettles
  KeepsLedger
  OnlyResumeResends
CHECK_DEADLOCK FALSE
