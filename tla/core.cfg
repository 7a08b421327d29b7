SPECIFICATION Spec
CONSTANTS
  N = 2
  MaxRetries = 2
  MaxJobs = 7
  Workers = {w1, w2}
  Nobody = Nobody
  MaxRequests = 2
  MaxCrashes = 0
  Timely = TRUE
  RushMode = FALSE
  AutoModes = {TRUE}
CHECK_DEADLOCK FALSE
SYMMETRY Symmetry
CONSTRAINT RoomForJobs
INVARIANTS TypeOK RunningHasWork
PROPERTIES ImplementsJobLease
