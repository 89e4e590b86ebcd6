SPECIFICATION Spec
CONSTANTS
    Tokens = {a, b}
    Ctx = 4
    Chunk = 2
    Prompts <- AllPrompts
    MaxSaved = 2
    Depth = 3
    Exact = FALSE
    LeftoverRewinds = TRUE
    Wrong = Wrong
    None = None
SYMMETRY Alike
INVARIANTS
    SoundState
