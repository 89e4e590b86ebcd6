SPECIFICATION Spec
CONSTANTS
    Tokens = {a, b}
    Ctx = 5
    Chunk = 2
    Prompts <- AllPrompts
    MaxSaved = 2
    Depth = 3
    Exact = TRUE
    LeftoverRewinds = FALSE
    Wrong = Wrong
    None = None
SYMMETRY Alike
INVARIANTS
    TypeOK
    SoundState
    SoundLogits
    SavedSound
    SnapshotsBelong
