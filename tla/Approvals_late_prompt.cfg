\* One run, one tool, one prompt: the Stop that comes just before the prompt.
CONSTANTS
    write = write
    execute = execute
    Runs = {r1}
    Tools = {write}
    Risk <- MCRisk
    Prompts = {p1}
    Questions = {}
    Choices = {"AskAlways"}
    None = None
SPECIFICATION FairSpec
PROPERTIES
    StopLeavesNoPrompt
