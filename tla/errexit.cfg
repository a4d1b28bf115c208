\* The AWS job in a shell that goes on after a red command.
SPECIFICATION Spec
CONSTANTS
  MaxSrc = 1
  MaxHist = 0
  MaxDay = 0
  MaxKills = 0
  MaxJobs = 2
  Channels = {"hand", "aws"}
  Broken = {1}
  Dated = FALSE
  ClassC = TRUE
  ErrExit = FALSE
  Sample = Sample
INVARIANT NoRedRelease
CHECK_DEADLOCK FALSE
