SPECIFICATION Spec
CONSTANTS
    Jobs = {j1, j2}
    NoJob = NoJob
    SlotCount = 2
    MaxQuanta = 1
    MaxTokens = 1
    Impatient = {j1, j2}
    MayStop = FALSE
    Detours = {"rewind", "repair", "late_repair"}
SYMMETRY Symmetry
INVARIANTS
    TypeOK
    JobOwnership
    OneTokenPerSlot
    CountersExact
    FreeSlotIsIdle
    NoLostWakeup
    ModelExclusive
    RunsWhereBound
    WorkConserving
    BoundedOvertaking
PROPERTIES
    NoPrefillOverToken
    ImplementsService
