CONSTANTS
    r1 = r1
    r2 = r2
    f1 = f1
    k1 = k1
    k2 = k2
    c1 = c1
    c2 = c2
    w1 = w1
    j1 = j1
    j2 = j2
    i1 = i1
    v1 = v1
    v2 = v2
    h1 = h1
    i2 = i2
    Runs = {r1, r2}
    Files = {f1}
    Texts = {"empty", "a"}
    Cores = {k1, k2}
    MaxTurns = 2
    MaxLives = 2
    Clients = {c1, c2}
    Writers = {w1}
    Roots = {"r1", "r2"}
    MaxWrites = 1
    MaxKeys = 2
    Jobs = {j1, j2}
    Watchers = {w1}
    Sizes = {1}
    MaxSaves = 2
    Readers = {i1, i2}
    PageCount = 2
    OcrLimit = 2
    Kinds = {"scan", "native", "sheet"}
    Drafts = {1, 2}
    Builds = 2
    Windows = {v1, v2}
    Names = {"p"}
    Added = {"w"}
    Places = {"x"}
    Chats = {h1}
SYMMETRY Symmetry
SPECIFICATION Spec
INVARIANTS TypeOK NothingStranded SearchFindsWhole StoreIsWhole
PROPERTIES DiscardBringsBack RecordsStay
CHECK_DEADLOCK FALSE
