CONSTANTS
    a = a
    b = b
    Tools = {"tool"}
    Ids = {a, b}
    Kinds = {"once", "boot"}
    SlotCount = 2
    MaxTime = 2
    MaxAdds = 2
    MaxResets = 0
    IoErrors = FALSE
    Free = Free
    NoFile = NoFile
    Torn = Torn
SPECIFICATION Spec
PROPERTY ThreadSaveKeepsJobs
CHECK_DEADLOCK FALSE
