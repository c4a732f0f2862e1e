SPECIFICATION Spec
CONSTANTS
  ByWeight <- MCByWeight
  Recruitment <- MCRecruitment
  Domestic <- MCDomestic
  AI <- MCAI
  MaxCandidates = 3
  MaxSelected = 2
  MaxAI = 1
  MinDomestic = 1
  MinRecruitment = 1
  Excerpts <- MCExcerpts
  MaxSources = 2
  MaxEvidence = 4
  MinPublishable = 1
  Providers <- MCProviders
  FallsBack <- MCFallsBack
  MaxRetries = 1
  MaxCalls = 7
  Orders <- MCOrders
  Gates <- MCGates
  MaxRevisions = 1
  MaxEdition = 2
  Sections <- MCSections
  Takes = {t1, t2}
  MaxSegments = 3
  FoundSets <- MCFoundSets
  MaxAttempts = 2
  NoAudio = NoAudio
INVARIANTS TypeOK EpisodeIsReviewed NeverAskedTwice CallsAreAccounted SelectionIsBalanced DraftSpeaksItsScript ReadyToMerge
SYMMETRY MCSymmetry
CHECK_DEADLOCK FALSE
