\* A turn, its child and a third run, with every failure and with prompts that
\* may never be answered.
CONSTANTS
    Chats = {c1}
    AgentIds = {a1}
    RunIds = {r1, r2, r3}
    None = None
    MaxAgents = 1
    MaxDepth = 1
    MailBound = 1
    MaxRounds = 1
    ForkErrors = TRUE
    StoreFaults = TRUE
SPECIFICATION MCFairSpec
PROPERTIES
    SlotsComeBack
    RunsEnd
CHECK_DEADLOCK FALSE
