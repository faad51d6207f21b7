SPECIFICATION FairSpec
CONSTANTS
  coder = coder
  tester = tester
  Roles <- TwoRoles
  NoRole = NoRole
  Messages <- MCMessages
  NoMessage = 0
  MaxRevision = 2
  MaxMessages = 2
  Crashes = FALSE
  LiveReconnect = FALSE
  FaultySteps <- Reliable
  HookLoss = TRUE
INVARIANTS  GrantSpentByItsRow
PROPERTIES RouteOutlivesApproval ClaimResolves
