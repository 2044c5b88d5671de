SPECIFICATION Spec
CONSTANTS
    r1 = r1 r2 = r2 r3 = r3
    u1 = u1 u2 = u2 g1 = g1 g2 = g2 g3 = g3 g4 = g4 A = A B = B
    User = User
    NoPayload = NoPayload
    Requests = {r1, r2, r3}
    UserKeys = {u1}
    Runs = {g1, g2}
    Bodies = {"plain", "doomed"}
    FailingBodies = {"doomed"}
    Agents = {A, B}
    Episodes = {"e"}
    RunOf <- MCRunOf
    ReplyTarget <- MCReplyTarget
    MaxActions = 1
    MaxPerAgent = 1
    MaxHops = 1
PROPERTIES
    DuplicateGetsOriginalResponse
CHECK_DEADLOCK FALSE
