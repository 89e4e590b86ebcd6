SPECIFICATION Spec
CONSTANTS
    Slots = {s1, s2}
    Words = {1, 2}
    Sampled = {1}
    Prompts <- Replays
    MinTokens = 2
    ColdMax = 3
    Interval = 2
    Trim = 0
    Align = 2
    Budget = 40
    Contexts = {4}
    MaxMap = 0
    MaxRuns = 1
    Faults = {}
PROPERTIES
    ConversationKept
