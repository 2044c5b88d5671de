SPECIFICATION FairSpec
CONSTANTS
    A = A B = B
    Me = A Peer = B User = User
    UserMentions <- MCDirect
    PeerMentions <- MCNobody
    RelayOwner = A
    MaxMessages = 2
    MaxRuns = 2
    MaxRetries = 1
    MaxSubmitRetries = 1
    MaxPauses = 1
    MaxFaults = 1
INVARIANTS
    NothingForgotten
    ServerKnowsTheRun
PROPERTIES
    PendingIsTakenUp
CHECK_DEADLOCK FALSE
