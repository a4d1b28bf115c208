SPECIFICATION Spec
CONSTANTS
  KSIs = {k1, k2}
  Ahead = 1
  Week = 1
  Month = 1
  Gap = 2
  Quarter = 2
  NineMonths = 3
  Expiry = 3
  Year = 4
  Cases <- MCCases
INVARIANTS
  TypeOK
  StatusAlwaysKnown
  SignedWithinTheWeek
  ReadyMeansFinished
SYMMETRY KSISymmetry
