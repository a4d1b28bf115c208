SPECIFICATION Spec
CONSTANTS
  scan = scan
  edr = edr
  aws = aws
  k1 = k1
  k2 = k2
  x = x
  tenant = tenant
  account = account
  KSIs = {k1, k2}
  Platform = aws
  Adapters = {scan, edr}
  Targets <- MCTargets
  Skipping = {scan}
  Exports <- MCExports
  Profiles <- MCProfiles
  Keys = {"old", "new"}
  Blank = Blank
  None = None
  Reworded = Reworded
  MaxApplies = 2
  MaxEdits = 1
INVARIANTS
  TypeOK
  ProductionEvidenceHolds
  ObservationsSurvive
PROPERTY RepeatKeepsCleared
