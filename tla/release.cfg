SPECIFICATION Spec
CONSTANTS
  MaxSrc = 1
  MaxHist = 1
  MaxDay = 1
  MaxKills = 1
  MaxJobs = 2
  Channels = {"hand", "aws", "github"}
  Broken = {1}
  Dated = TRUE
  ClassC = TRUE
  ErrExit = TRUE
  Sample = Sample
INVARIANTS
  CIReleasesAreFaithful
  NoRedRelease
CHECK_DEADLOCK FALSE
