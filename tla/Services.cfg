CONSTANTS
    c1 = c1
    c2 = c2
    v1 = v1
    j1 = j1
    a1 = a1
    a2 = a2
    v2 = v2
    Callers = {c1, c2}
    Commands = {"dev", "start"}
    MaxSpawns = 2
    Saves = {v1, v2}
    Configs = {"a", "b"}
    MaxRequests = 2
    MaxSaid = 2
    MaxLines = 1
    Jobs = {j1}
    Sizes = {1, 2}
    MaxSaves = 2
    Children = {a1, a2}
SPECIFICATION Spec
INVARIANTS TypeOK ProcessesOwned NothingStale
PROPERTY RequestsEnd
CHECK_DEADLOCK FALSE
