\* A turn of two rounds after an earlier exchange of its chat.
CONSTANTS
    MaxToolRounds = 2
    MaxCalls = 2
    EscalateAt = 1
    KeepRounds = 1
    MaxSteers = 1
    Histories <- MCHistories
    Slips = {"markup"}
    Modes = {"Agent"}
    Workflows = {"dashboard"}
SPECIFICATION FairSpec
INVARIANTS
    TypeOK
    RoundsInOrder
    AskedInThisTurn
PROPERTIES
    TurnEnds
