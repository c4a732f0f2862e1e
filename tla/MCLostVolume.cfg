CONSTANTS
  monday = monday
  tuesday = tuesday
  one = one
  other = other
  NoAudio = NoAudio
  NoEpisode = NoEpisode
  Episodes <- MCMonday
  Audios <- MCAudios
  Losable <- MCVolume
  MaxVersions = 1
  MaxBoots = 2
  MaxFaults = 0
SPECIFICATION Spec
INVARIANT StartupHealsFeed
