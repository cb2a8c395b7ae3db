CONSTANTS
    f1 = f1
    f2 = f2
    d1 = d1
    d2 = d2
    c1 = c1
    c2 = c2
    Boot = Boot
    Targets = {"p", "q"}
    MaxArtifacts = 3
    MaxMishaps = 2
    Steps = {"x", "y"}
    Statuses = {"pending", "completed"}
    MaxSteps = 2
    MaxPlans = 3
    Folders = {f1, f2}
    Spaces = {d1, d2}
    Servers = {c1, c2, Boot}
    MaxBinds = 3
    MaxTroubles = 2
    MaxFrames = 3
    MaxBlocks = 2
    Longest = 10
    Chunk = 9
    Overlap = 2
    MinChunk = 2
    Batch = 2
    Limit = 2
SPECIFICATION Spec
SYMMETRY Exchange
INVARIANTS TypeOK ShownIsThere
PROPERTY ActsAsAsked
CHECK_DEADLOCK FALSE
