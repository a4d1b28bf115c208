\* Jobs started twice spread over three days with a retention of zero days and one lost
\* answer: pruning and anchors.
SPECIFICATION Spec
CONSTANTS
    k1 = k1
    k2 = k2
    Runs = {r1, r2}
    KSIs = {k1, k2}
    Fractions = {0, 1}
    None = None
    RetainDays = 0
    TicksPerDay = 1
    Outcomes <- PartWays
    SigningRuns = {}
    MaxAttempts = 1
    MaxReruns = 1
    MaxClock = 2
    MaxFaults = 0
    MaxLostAcks = 1
INVARIANTS
    StoreVerifies
    RollupReplaysObservations
CHECK_DEADLOCK FALSE
