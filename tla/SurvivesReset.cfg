SPECIFICATION FairSpec
CONSTANTS
  Slugs <- TwoTasks
  Roles <- Roster
  Tool = "project-manager"
  Clients <- WindowsAndPhone
  Desk <- TwoWindows
  Phone = "phone"
  Loops <- TwoLoops
  Plans <- Resetting
  LateStarts = FALSE
  Overlaps = TRUE
  MaxMessages = 2
  MaxReplies = 2
  Lark = TRUE
INVARIANT RunningOnlyWhileArmed
CHECK_DEADLOCK FALSE
