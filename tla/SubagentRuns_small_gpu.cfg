\* The small GPU profile, one slot and one level, shared by two chats, with
\* every failure the code handles.
CONSTANTS
    Chats = {c1, c2}
    AgentIds = {a1, a2}
    RunIds = {r1, r2, r3}
    None = None
    MaxAgents = 1
    MaxDepth = 1
    MailBound = 0
    MaxRounds = 1
    ForkErrors = TRUE
    StoreFaults = TRUE
SPECIFICATION MCSpec
SYMMETRY Symmetry
INVARIANTS
    TypeOK
    LiveChildHoldsSlot
CHECK_DEADLOCK FALSE
