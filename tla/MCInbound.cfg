CONSTANTS
    MaxUpdate = 3
    Ignorable = {2}
    MainCapacity = 1
    AgentCapacity = 1
    BodyMax = 2
    MaxResets = 1
    MaxJobs = 1
    SelfTest = TRUE
    Job = Job
    Probe = Probe
    NoEvent = NoEvent
SPECIFICATION FairSpec
INVARIANTS TypeOK PipelineOrdered OffsetHoldsAtFailure LossesCounted
PROPERTIES NoReplayAfterSave UpdateResolved
CHECK_DEADLOCK FALSE
