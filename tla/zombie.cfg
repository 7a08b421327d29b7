SPECIFICATION Spec
CONSTANTS
  N = 2
  MaxRetries = 2
  MaxJobs = 6
  Workers = {w1, w2}
  Nobody = Nobody
  MaxRequests = 1
  MaxCrashes = 0
  Timely = FALSE
  RushMode = FALSE
  AutoModes = {TRUE}
CHECK_DEADLOCK FALSE
SYMMETRY Symmetry
CONSTRAINT RoomForJobs
INVARIANTS PassedIsAccepted
PROPERTIES WorkerNeverUnpauses
