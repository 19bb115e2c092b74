CONSTANTS
    p1 = p1
    p2 = p2
    Threads = {p1, p2}
    Fds = {1, 2}
    Group <- OneGroup
    NoFd = NoFd
    None = None
    System = System
    GuardTicks = 2
    SessionHwTicks = 2
    HwMaxTicks = 2
    AcquireTicks = 2
    LongTicks = 1
    SessionTicks = 1
    Features = {"session", "long"}
    Failures = {}
SPECIFICATION FairSpec
PROPERTIES UnfedHangResets StaleSessionResets HungLongOperationResets WaiterReturns
