SPECIFICATION FairPageSpec
CONSTANTS
    c1 = c1 c2 = c2 NoConversation = NoConversation
    Conversations = {c1, c2}
    First = c1
    Stored <- MCStored
    MaxMessages = 1
    MaxLoads = 2
    MaxActs = 3
INVARIANTS
    SeenIsShown
PROPERTIES
    CatchesUp
CHECK_DEADLOCK FALSE
