SPECIFICATION FairSpec
CONSTANTS
    c1 = c1 c2 = c2
    NoConv = NoConv
    Conversations = {c1, c2}
    Writers = {w1}
    Sockets = {s1}
    ConvOf <- MCConvOf
    MaxRows <- MCMaxRows
    MaxFaults = 2
INVARIANTS
    NoGapAfterReplay
    NoOvertaking
PROPERTIES
    MarkedIsNotRepublished
    EventsAreDispatched
CHECK_DEADLOCK FALSE
