SPECIFICATION FairSpec
CONSTANTS
    Callers = {c1,c2,c3}
    NoCaller = NoCaller
    Keys = {k1,k2}
    NoKey = NoKey
    NoEntry = NoEntry
    Durations <- MCDurations
    DefaultMaxAge = 1
    PruneAge = 0
    PruneThreshold = 1
    ClientTimeout = 1
    MaxTime = 2
    MaxCalls = 1
CHECK_DEADLOCK FALSE
INVARIANTS SingleFlight StalenessBound LoadBound
PROPERTIES Answered KeepsPromise
