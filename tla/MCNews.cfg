CONSTANTS
  Articles <- MCArticles
  Title <- MCTitle
  Language <- MCLanguage
  Texts = {"note", "story", "report", "feature"}
  NoText = "absent"
  Length <- MCLength
  NearTexts <- MCNear
  MinLength = 2
  Sources = {"wire", "tracker", "tagged"}
  Priority <- MCPriority
  MaxAge <- MCMaxAge
  TitleWindow = 0
  NearWindow = 0
  ClusterWindow = 1
  SourceOrder <- MCOrder
  Tagged = {"tagged"}
  Trackers = {"tracker"}
  CollectionDays = 0
  Lists <- MCLists
  FeedText <- MCFeedText
  FeedDate <- MCFeedDate
  Undated = 9
  Pages <- MCPages
  Failed = Failed
  BriefingAge = 1
  LastDay = 1
  MaxBriefings = 1
  MaxCrashes = 1
SPECIFICATION Spec
INVARIANTS
  TypeOK
  EveryArticleIsAccountedFor
  EventsFollowTheEvidence
CHECK_DEADLOCK FALSE
