SPECIFICATION Spec
CONSTANTS
  N = 2
  MaxRetries = 2
  MaxJobs = 5
  Workers = {w1, w2}
  Nobody = Nobody
  MaxRequests = 2
  MaxCrashes = 1
  Timely = TRUE
  RushMode = FALSE
  AutoModes = {TRUE}
CHECK_DEADLOCK FALSE
SYMMETRY Symmetry
CONSTRAINT RoomForJobs
PROPERTIES LeaseShieldsChapter OnlyRenewalsStray
