\* Three overlapping jobs on one KSI across one midnight: conditional writes, faults, signing.
SPECIFICATION FairSpec
CONSTANTS
    k1 = k1
    k2 = k2
    Runs = {r1, r2, r3}
    KSIs = {k1}
    Fractions = {0, 1}
    None = None
    RetainDays = 1
    TicksPerDay = 1
    Outcomes <- OneKSI
    SigningRuns = {r1}
    MaxAttempts = 2
    MaxReruns = 0
    MaxClock = 1
    MaxFaults = 1
    MaxLostAcks = 0
INVARIANTS
    TypeOK
    StoreHoldsTheLandings
    SignatureAttestsStore
    LandingsAreArchived
    OncePerRun
    OnlyLosersFail
PROPERTIES
    EveryJobEnds
    ArchiveIsImmutable
    ImplementsLog
CHECK_DEADLOCK FALSE
