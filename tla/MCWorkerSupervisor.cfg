SPECIFICATION Spec
CONSTANTS
    A = A B = B NoAgent = NoAgent h1 = h1 h2 = h2 m1 = m1 m2 = m2
    Agents = {A, B}
    Handlers = {h1, h2}
    Threads = {m1, m2}
    RestartLimit = 1
    MaxProcesses = 5
    MaxDoubled = 4
SYMMETRY Symmetry
CONSTRAINT Interesting
INVARIANTS
    OneWorkerPerAgent
    EndStopsWorkers
    TableIsWatched
CHECK_DEADLOCK FALSE
