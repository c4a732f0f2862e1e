CONSTANTS
  monday = monday
  tuesday = tuesday
  one = one
  other = other
  NoAudio = NoAudio
  NoEpisode = NoEpisode
  Episodes <- MCBoth
  Audios <- MCAudios
  Losable <- MCVolume
  MaxVersions = 2
  MaxBoots = 3
  MaxFaults = 1
SPECIFICATION FairSpec
INVARIANTS
  TypeOK
  StatusesAgree
  ApprovedIsDraft
  ServingOwnsPublishing
  FeedShowsPublished
PROPERTIES
  PublishingSettles
  ImplementsFeed
