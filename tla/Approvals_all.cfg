\* Two runs share the operator: two prompts, a question, a policy that turns.
CONSTANTS
    write = write
    execute = execute
    Runs = {r1, r2}
    Tools = {write}
    Risk <- MCRisk
    Prompts = {p1, p2}
    Questions = {q1}
    Choices = {"AskAlways", "AskRiskyOnly"}
    None = None
SPECIFICATION FairSpec
INVARIANTS
    TypeOK
    RefusedByItsOwn
    RunsOnWhatWasAllowed
    EveryPromptIsAwaited
    DeliveredIsHeard
PROPERTIES
    StopDismissesPrompt
