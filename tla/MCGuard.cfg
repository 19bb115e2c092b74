CONSTANTS
    p1 = p1
    p2 = p2
    Threads = {p1, p2}
    Fds = {1}
    Group <- OwnGroups
    NoFd = NoFd
    None = None
    System = System
    GuardTicks = 1
    SessionHwTicks = 2
    HwMaxTicks = 1
    AcquireTicks = 1
    LongTicks = 1
    SessionTicks = 0
    Features = {"session", "uptime", "reboot", "recover", "long"}
    Failures = {"open", "ioctl", "spawn"}
SPECIFICATION Spec
INVARIANTS TypeOK GuardExclusive WatchdogCoversOperation DisarmFindsOwnGuard
