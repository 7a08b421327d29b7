SPECIFICATION FairSpec
CONSTANTS
  N = 1
  MaxRetries = 2
  MaxJobs = 9
  Workers = {w1, w2}
  Nobody = Nobody
  MaxRequests = 2
  MaxCrashes = 1
  Timely = TRUE
  RushMode = FALSE
  AutoModes = {TRUE}
CHECK_DEADLOCK FALSE
PROPERTIES RunEnds PauseTakesHold
