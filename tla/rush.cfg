SPECIFICATION Spec
CONSTANTS
  N = 2
  MaxRetries = 2
  MaxJobs = 8
  Workers = {w1, w2}
  Nobody = Nobody
  MaxRequests = 3
  MaxCrashes = 0
  Timely = TRUE
  RushMode = TRUE
  AutoModes = {TRUE, FALSE}
CHECK_DEADLOCK FALSE
SYMMETRY Symmetry
CONSTRAINT RoomForJobs
INVARIANT QueuedChapterCovered
PROPERTIES CompletedStable
