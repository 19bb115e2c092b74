CONSTANTS
    p1 = p1
    p2 = p2
    Threads = {p1, p2}
    Fds = {1, 2}
    Group <- OneGroup
    NoFd = NoFd
    None = None
    System = System
    GuardTicks = 2
    SessionHwTicks = 2
    HwMaxTicks = 2
    AcquireTicks = 1
    LongTicks = 2
    SessionTicks = 0
    Features = {}
    Failures = {}
SPECIFICATION FairSpec
PROPERTIES HungOperationResets
