SPECIFICATION FairSpec
CONSTANTS
    Slots = {s1, s2}
    Words = {1, 2}
    Sampled = {1}
    Prompts <- Replays
    MinTokens = 2
    ColdMax = 4
    Interval = 2
    Trim = 1
    Align = 2
    Budget = 4
    Contexts = {4}
    MaxMap = 1
    MaxRuns = 1
    Faults = {"write", "load", "crash"}
INVARIANTS
    TypeOK
    AnswersThePrompt
    ScheduleHonest
    NoDuplicateFrontier
    PayloadsWithinBudget
    OneLeftoverPerRun
PROPERTIES
    StoresEnd
