SPECIFICATION FairSpec
CONSTANTS
  MaxRequests = 2
  MaxCommits = 0
  MaxEdits = 0
  MaxSettings = 1
  MaxRecoveries = 1
  Crashes = FALSE
  Used <- PlanOnly
  FirstRequired <- PlanOnly
  Toggled <- PlanOnly
  Exceptions <- PlanOverride
INVARIANTS AcceptanceIsEarned
PROPERTIES OutcomeReachesPM
