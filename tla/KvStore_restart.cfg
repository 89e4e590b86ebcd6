SPECIFICATION Spec
CONSTANTS
    Slots = {s1}
    Words = {1, 2}
    Sampled = {1}
    Prompts <- Growing
    MinTokens = 2
    ColdMax = 3
    Interval = 2
    Trim = 0
    Align = 2
    Budget = 8
    Contexts = {4, 5}
    MaxMap = 0
    MaxRuns = 2
    Faults = {"unlink", "load", "model", "crash", "hangup"}
PROPERTIES
    ConversationKept
