SPECIFICATION FairSpec
CONSTANTS
  Roles <- Two
  PM = "project-manager"
  Coder = "coder"
  Reviewer = "reviewer"
  Fragile <- CoderOnly
  Hasty = FALSE
  MaxAttempts = 1
  MaxBlocks = 1
  MaxSessions = 2
  MaxEvents = 3
INVARIANTS NobodyIsStranded
PROPERTIES QuietRoundStops
