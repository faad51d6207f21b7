SPECIFICATION Spec
CONSTANTS
  coder = coder
  tester = tester
  Roles <- OneRole
  NoRole = NoRole
  Messages <- MCMessages
  NoMessage = 0
  MaxRevision = 1
  MaxMessages = 2
  Crashes = TRUE
  LiveReconnect = TRUE
  FaultySteps <- OwnedSteps
  HookLoss = TRUE
INVARIANTS ClaimHasOwner
 
