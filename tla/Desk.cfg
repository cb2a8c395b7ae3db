CONSTANTS
    chat = chat
    embed = embed
    c1 = c1
    c2 = c2
    h1 = h1
    h2 = h2
    s1 = s1
    s2 = s2
    Editors = {c1}
    Starters = {c2}
    Directories = {"A", "B"}
    MaxWindow = 2
    MaxEdits = 1
    Talks = {h1, h2}
    Spaces = {"p"}
    Subjects = {"t"}
    Facts = {"a", "b"}
    Slots = {s1, s2}
    MaxTalks = 2
    MaxStrokes = 1
    MaxChanges = 2
SPECIFICATION Spec
SYMMETRY Exchange
INVARIANTS TypeOK ModelsFit KeptAsSet
PROPERTY RunsKeepFaith
CHECK_DEADLOCK FALSE
