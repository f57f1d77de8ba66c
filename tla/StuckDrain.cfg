SPECIFICATION FairSpec
CONSTANTS
  Clients = {c1}
  MaxTokens = 3
  MaxBoots = 2
  MaxSessions = 1
  Ungated = FALSE
  Faults = TRUE
PROPERTY LaunchesResume
CHECK_DEADLOCK FALSE
