SPECIFICATION ServicesSpec
CONSTANTS
  Workers = {w1, w2, w3}
  Nobody = Nobody
  JobIds = {j1, j2, j3}
  PromptUsers = {u1, u2}
  MaxPrompts = 4
  MaxEdits = 3
  NChapters = 4
  MaxTexts = 2
  RawScores = {0, 60, 70, 90}
  OverallThreshold = 80
  OutlineThreshold = 70
  InstructionThreshold = 90
  Admins = {a1, a2}
  Models = {"m1", "m2"}
  MaxLists = 2
  Projects = {p1, p2}
  SavedKeys = 2
  MaxSaves = 4
CHECK_DEADLOCK FALSE
INVARIANTS ServicesTypeOK LeaseExclusive LeaseCovers VersionsFollowCreation OneApproved DistantIsCurrent RewriteForgets GateHolds OneDefault StartedHasClients
PROPERTY SystemSettingsStayOut
