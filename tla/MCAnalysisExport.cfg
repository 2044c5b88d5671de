SPECIFICATION FairSpec
CONSTANTS
    j1 = j1 j2 = j2 NoJob = NoJob
    Jobs = {j1, j2}
    MaxCrashes = 2
INVARIANTS
    ReportedIsDownloadable
PROPERTIES
    EveryJobEnds
CHECK_DEADLOCK FALSE
