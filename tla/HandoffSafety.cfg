SPECIFICATION Spec
CONSTANTS
  Clients = {c1, c2}
  MaxTokens = 3
  MaxBoots = 3
  MaxSessions = 1
  Ungated = TRUE
  Faults = TRUE
INVARIANTS InstallIsExclusive RetiresIdle InstallerOwnsToken
CHECK_DEADLOCK FALSE
