SPECIFICATION Spec
CONSTANTS
    Conversations = {c1, c2}
    Handlers = {h1, h2}
    Profiles = {good, bad}
    Valid = {good}
    NoProfile = NoProfile
    Idle = Idle
    c1 = c1 c2 = c2 good = good bad = bad h1 = h1 h2 = h2
SYMMETRY Symmetry
INVARIANTS
    RanMeansLocked
    OneActive
    ProfileLocked
    LockedProfileIsValid
    MessagesOnlyWhileRunning
PROPERTIES
    EndedStaysEnded
CHECK_DEADLOCK FALSE
