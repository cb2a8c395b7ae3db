\* Four rounds after an earlier exchange, with the two rounds the code keeps.
CONSTANTS
    MaxToolRounds = 4
    MaxCalls = 1
    EscalateAt = 1
    KeepRounds = 2
    MaxSteers = 0
    Histories <- MCHistories
    Slips = {}
    Modes = {"Plan"}
    Workflows = {"none"}
SPECIFICATION Spec
INVARIANTS
    RequestSurvives
