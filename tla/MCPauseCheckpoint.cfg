SPECIFICATION Spec
CONSTANTS
    A = A NoAgent = NoAgent h1 = h1 h2 = h2
    Agents = {A}
    Handlers = {h1, h2}
    RestartLimit = 1
    MaxRequests = 3
SYMMETRY Symmetry
INVARIANTS
    PauseHolds
    DeadRunsAreClosed
CHECK_DEADLOCK FALSE
