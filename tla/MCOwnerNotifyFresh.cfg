CONSTANTS
    QueueLen = 2
    BatchMax = 2
    MaxYield = 2
    CounterMod = 7
    AgentReplies = FALSE
SPECIFICATION GoodNetSpec
PROPERTIES NoticeResolved
