\* The Models panel turning between two models, or a run asking for one while
\* residency is disturbed.
CONSTANTS
    chat = chat
    embed = embed
    p1 = p1
    r1 = r1
    Models = {chat, embed}
    Managed = {chat}
    Uses <- MCUses
    Mb <- MCMb
    Runs = {}
    Panels = {p1}
    None = None
    Solo = 4
    Budget = 3
    Cap = 1
    Measures = TRUE
    Disturbed = FALSE
SPECIFICATION MCSpec
PROPERTIES
    EveryRequestEnds
    CacheIsPutRight
CHECK_DEADLOCK FALSE
