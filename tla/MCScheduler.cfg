CONSTANTS
    a = a
    b = b
    Tools = {"tool"}
    Ids = {a, b}
    Kinds = {"once", "boot", "cron"}
    SlotCount = 2
    MaxTime = 2
    MaxAdds = 2
    MaxResets = 1
    IoErrors = TRUE
    Free = Free
    NoFile = NoFile
    Torn = Torn
SPECIFICATION FairSpec
INVARIANTS TypeOK UniqueNames NoDoubleFire TornOnlyDuringSave
PROPERTIES OnceJobFires
CHECK_DEADLOCK FALSE
