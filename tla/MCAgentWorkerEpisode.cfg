SPECIFICATION Spec
CONSTANTS
    A = A B = B
    Me = A Peer = B User = User
    UserMentions <- MCDirect
    PeerMentions <- MCPeerMentions
    RelayOwner = A
    MaxMessages = 2
    MaxRuns = 2
    MaxRetries = 0
    MaxSubmitRetries = 0
    MaxPauses = 0
    MaxFaults = 0
INVARIANTS
    UserMessagesOpenEpisodes
CHECK_DEADLOCK FALSE
