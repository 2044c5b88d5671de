SPECIFICATION Spec
CONSTANTS
    A = A B = B
    Me = A Peer = B User = User
    UserMentions <- MCUserMentions
    PeerMentions <- MCPeerMentions
    RelayOwner = A
    MaxMessages = 3
    MaxRuns = 2
    MaxRetries = 0
    MaxSubmitRetries = 1
    MaxPauses = 0
    MaxFaults = 0
INVARIANTS
    NothingForgotten
    EpisodesAreRooted
    SubmissionsAreFresh
    RunsMatchMessages
CHECK_DEADLOCK FALSE
