SPECIFICATION WritingSpec
CONSTANTS
  StoryLength = 3
  MinUsable = 2
  MaxRounds = 2
  MaxAttempts = 2
  MaxPauses = 2
  MaxKills = 1
  StreamModes = {TRUE, FALSE}
  StreamFallback = TRUE
  ViewPieces = 1
  MaxNotes = 1
  MaxDrops = 1
  MaxReloads = 1
  PageLimit = 2
  MaxRetries = 2
  MaxProse = 1
  OptionalSizes = {0, 80000}
  RequiredSizes = {2000, 45000, 97000}
  Budgets <- BudgetPairs
CHECK_DEADLOCK FALSE
INVARIANTS WritingTypeOK ShownIsSaved PassedTextUsable ToldIsSaved RequestBound RefusalEndsCall BadJsonReported ValueFound FitsOrExhausted
PROPERTIES PauseKeepsText ReconnectOverlooksNothing ViewSettles CallEnds FitEnds
