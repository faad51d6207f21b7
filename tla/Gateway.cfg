SPECIFICATION FairSpec
CONSTANTS
  Slugs <- TwoTasks
  Roles <- Roster
  Tool = "project-manager"
  Clients <- WindowsAndPhone
  Desk <- TwoWindows
  Phone = "phone"
  Loops <- TwoLoops
  Plans <- AllPlans
  LateStarts = FALSE
  Overlaps = FALSE
  MaxMessages = 2
  MaxReplies = 2
  Lark = FALSE
INVARIANTS ResourcesAreOwned  HandledOnce 
PROPERTIES StopsPolling
CHECK_DEADLOCK FALSE
