SPECIFICATION FairSpec
CONSTANTS
  Roles <- Two
  PM = "project-manager"
  HE = "harness-engineer"
  NoRole = "none"
  Drafters <- ArchitectDrafts
  Plans <- ShortPlans
  AutoReview = TRUE
  Toggled = TRUE
  Hasty = FALSE
  MaxRuns = 2
  MaxAcceptances = 1
  MaxItems = 1
  MaxQueue = 1
  MaxEvents = 1
INVARIANTS NoDocForgotten CompletedAfterDocs ReviewedOnce
PROPERTIES  DocsSettle
