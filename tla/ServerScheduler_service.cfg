SPECIFICATION FairSpec
CONSTANTS
    Jobs = {j1, j2}
    NoJob = NoJob
    SlotCount = 2
    MaxQuanta = 2
    MaxTokens = 1
    Impatient = {j1}
    MayStop = FALSE
    Detours = {}
PROPERTIES
    ImplementsFairService
    EveryRequestEnds
