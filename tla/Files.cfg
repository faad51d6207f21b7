SPECIFICATION FilesSpec
CONSTANTS
  Op = op
  Readers <- NoReaders
  MaxOps = 6
  Faults = TRUE
  HarnessPlans <- ShortPlans
  OddInputs = FALSE
  Interrupted = FALSE
  Sources = {"source"}
  Languages = {"chinese", "german"}
  SourceText <- TwoLines
  ChunkTarget = 2
  Targets = {"target"}
  Legacy <- OldIndex
  Requests <- Asked
  MaxFileJobs = 2
  MaxStarts = 1
  FieldForms = {"plain", "bulleted"}
  MaxSubmissions = 1
INVARIANTS AppliedIsCurrent NobodyMissesAnUpdate ListedIsWhole 
PROPERTIES  ProjectTextKept ResultsStayListed
CHECK_DEADLOCK FALSE
