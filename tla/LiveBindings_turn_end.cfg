SPECIFICATION Spec
CONSTANTS
    k1 = k1
    k2 = k2
    Slots = {s1}
    Clients = {k1, k2}
    Kinds <- Pairs
    Messages = {m1}
    Results = {x1}
    Calls = {c1}
    Ctx = 6
    MinTokens = 2
    MaxFiles = 1
    Coincide = FALSE
    None = None
INVARIANTS
    TurnsAreClosed
