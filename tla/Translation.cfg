SPECIFICATION PanelSpec
CONSTANTS
  Replies <- TwoReplies
  Batched <- FirstReply
  Held <- SecondReply
  Inputs <- OneInput
  Tools <- AllTools
  MaxAsked = 2
  MaxClears = 1
  MaxFaults = 2
  FeedPlans <- ShortFeeds
  PollLimit = 2
  LineKinds <- SomeLines
  Modes <- OneMode
  Races = FALSE
INVARIANTS   TranslatedOnce
PROPERTIES  LinesReachPanel
CHECK_DEADLOCK FALSE
