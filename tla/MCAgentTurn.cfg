CONSTANTS
    agent = agent
    poll = poll
    mcp = mcp
    Threads = {agent, poll, mcp}
    None = None
    Agent = agent
    Telegram = {poll}
    Mcp = {mcp}
    MaxIterations = 3
    MaxCalls = 2
    Builds <- AllBuilds
SPECIFICATION FairSpec
INVARIANTS TypeOK ResourcesReturned WaitingNeverResets EventsAccounted
PROPERTIES WaitsEnd LaneComesBack TurnReplies
