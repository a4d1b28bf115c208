SPECIFICATION Spec
CONSTANTS
  MaxSrc = 1
  MaxHist = 0
  MaxDay = 0
  MaxKills = 1
  MaxJobs = 0
  Channels = {"local"}
  Broken = {}
  Dated = FALSE
  ClassC = TRUE
  ErrExit = TRUE
  Sample = Sample
INVARIANTS
  LocalReleasesAreFaithful
  SignedByTheProvider
  NoFiction
  HarnessLeavesNoTrace
PROPERTY ReleasedInTheEnd
CHECK_DEADLOCK FALSE
