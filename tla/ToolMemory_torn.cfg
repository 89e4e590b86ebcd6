SPECIFICATION Spec
CONSTANTS
    Clients = {c1}
    Loader = worker
    MaxIds = 3
    TurnCalls = 2
    Blocks <- ThreeBlocks
    BlockBytes <- SameSize
    EntryBytes = 1
    MaxEntries = 2
    MaxBytes = 5
    Texts <- OneText
    Found <- FoundAandB
    Requests <- Histories
    Overlap = TRUE
    None = None
INVARIANTS
    ExactOrNothing
