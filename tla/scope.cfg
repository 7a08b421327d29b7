SPECIFICATION ScopeSpec
CONSTANTS
  N = 2
  MaxRetries = 2
  MaxJobs = 7
  Workers = {w1}
  Nobody = Nobody
  MaxRequests = 3
  MaxCrashes = 0
  Timely = TRUE
  RushMode = FALSE
  AutoModes = {TRUE}
CHECK_DEADLOCK FALSE
PROPERTIES OthersStayAsTheyAre
