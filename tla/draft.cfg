SPECIFICATION WriterSpec
CONSTANTS
  StoryLength = 4
  MinUsable = 2
  MaxRounds = 2
  MaxAttempts = 2
  MaxPauses = 1
  MaxKills = 0
  StreamModes = {TRUE, FALSE}
  StreamFallback = TRUE
CHECK_DEADLOCK FALSE
INVARIANT ContinuationKeepsDraft
