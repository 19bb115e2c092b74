CONSTANTS
    QueueLen = 2
    BatchMax = 2
    MaxYield = 2
    CounterMod = 7
    AgentReplies = TRUE
SPECIFICATION FairSpec
INVARIANTS TypeOK NoticeAccounting NeverFirstTransport
PROPERTIES ReadyDelivers PollerKeepsPolling
