SPECIFICATION Spec
CONSTANTS
  Roles <- Two
  Arch = "architect"
  PM = "project-manager"
  UserRoles <- ArchitectOnly
  Overlaps = FALSE
  MaxSessions = 3
  MaxMessages = 1
  MaxWork = 3
  MaxEvents = 2
INVARIANTS NoForgottenRestart RestorationSurvives
PROPERTIES IntentSurvives
CHECK_DEADLOCK FALSE
