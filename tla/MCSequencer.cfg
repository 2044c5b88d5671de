SPECIFICATION FairSpec
CONSTANTS
    r1 = r1 r2 = r2 r3 = r3
    u1 = u1 u2 = u2 g1 = g1 g2 = g2 g3 = g3 g4 = g4 A = A B = B
    User = User
    NoPayload = NoPayload
    Requests = {r1, r2, r3}
    UserKeys = {u1, u2}
    Runs = {g1, g2, g3, g4}
    Bodies = {"plain", "doomed"}
    FailingBodies = {"doomed"}
    Agents = {A, B}
    Episodes = {"e"}
    RunOf <- MCFourRuns
    ReplyTarget <- MCReplyTarget
    MaxActions = 2
    MaxPerAgent = 1
    MaxHops = 1
INVARIANTS
    GaplessAndOnce
    ProjectionCoversTranscript
    AcknowledgedIsStored
    AgentSawEverythingBefore
    EpisodeBudgetHolds
    RunsSpeakForThemselves
    CommittedSubmissionHasItsMessage
PROPERTIES
    ImplementsMessageLog
    HandlersFinish
CHECK_DEADLOCK FALSE
