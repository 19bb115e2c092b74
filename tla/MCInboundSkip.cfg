CONSTANTS
    MaxUpdate = 3
    Ignorable = {}
    MainCapacity = 1
    AgentCapacity = 1
    BodyMax = 3
    MaxResets = 0
    MaxJobs = 1
    SelfTest = FALSE
    Job = Job
    Probe = Probe
    NoEvent = NoEvent
SPECIFICATION Spec
INVARIANTS AcknowledgedWereQueued
