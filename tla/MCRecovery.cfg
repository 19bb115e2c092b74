CONSTANTS
    Timeout = 2
    Grace = 1
    FirstGrace = 4
    Suppress = 3
    WifiTries = 2
    BindLimit = 2
    Workers = {w1, w2}
    Guarded = TRUE
SPECIFICATION FairSpec
INVARIANTS TypeOK RecoveryExclusive ResetIsLastResort
PROPERTIES OutageEscalates BootResolves
