SPECIFICATION WorkflowSpec
CONSTANTS
  m1 = m1
  Roles <- TargetRoles
  Messages <- MCMessages
  NoRole = NoRole
  NoMessage = NoMessage
  MaxRevision = 7
  Tasks <- AllTasks
  CompletedProposals = FALSE
  Interrupted <- UserTasks
  Losable <- UserTasks
INVARIANTS CodeIsTestedFirst NoSelfInflictedWarning
