SPECIFICATION Spec
CONSTANTS
  MaxRequests = 2
  MaxCommits = 2
  MaxEdits = 1
  MaxSettings = 0
  MaxRecoveries = 1
  Crashes = TRUE
  Used <- DiffOnly
  FirstRequired <- CodeGates
  Toggled = {}
  Exceptions <- SkipValidation
INVARIANTS RunningHasRunner ApprovalCoversCode
PROPERTIES ImplementsLedger
