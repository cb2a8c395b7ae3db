\* Two subagents of two chats run, stop, end and restart over three runs and
\* one slot, with duplicate and late completion reports.
CONSTANTS
    Chats = {c1, c2}
    AgentIds = {a1, a2}
    RunIds = {r1, r2, r3}
    None = None
    MaxAgents = 1
    MaxDepth = 2
    MailBound = 1
SPECIFICATION Spec
SYMMETRY Symmetry
INVARIANTS
    TypeOK
    Capacity
    DelegationTree
    EveryRunFindsItsChild
    DeliveredOnce
PROPERTIES
    ImplementsSlotPool
    StopIsKept
CHECK_DEADLOCK FALSE
