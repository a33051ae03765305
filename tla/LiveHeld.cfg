\* One recording whose last words are held back for their echo when it is stopped.
CONSTANTS
  Sessions = {s1}
  Echoes = {1}
  MaxSaid = 3
  MaxVersions = 2
  MaxLiveFaults = 2
SPECIFICATION LiveSpec
INVARIANT StopSavesHeld
CHECK_DEADLOCK FALSE
