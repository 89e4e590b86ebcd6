SPECIFICATION FairSpec
CONSTANTS
    Jobs = {j1, j2}
    NoJob = NoJob
    SlotCount = 2
    MaxQuanta = 1
    MaxTokens = 1
    Impatient = {}
    MayStop = TRUE
    Detours = {"canonical"}
INVARIANTS
    ShutdownOrder
PROPERTIES
    ShutdownCompletes
