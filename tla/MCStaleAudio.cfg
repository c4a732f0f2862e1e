CONSTANTS
  monday = monday
  tuesday = tuesday
  one = one
  other = other
  NoAudio = NoAudio
  NoEpisode = NoEpisode
  Episodes <- MCMonday
  Audios <- MCAudios
  Losable <- MCNothing
  MaxVersions = 2
  MaxBoots = 2
  MaxFaults = 1
SPECIFICATION Spec
INVARIANT PublishedIsApproved
