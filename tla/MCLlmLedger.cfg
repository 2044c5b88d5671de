SPECIFICATION FairSpec
CONSTANTS
    a1 = a1 a2 = a2 p1 = p1 runA = runA
    NoRun = NoRun
    Calls = {a1, a2, p1}
    Runs = {runA}
    RunOf <- MCRunOf
    Direct = {a2}
    Estimate <- MCEstimate
    Totals = {0, 1, 3}
    Limits <- MCLimits
INVARIANTS
    CallLimitHolds
    LedgerMatchesAttempts
    OnlyExcessOvershoots
PROPERTIES
    SettledAttemptsAreFinal
    ReservationsEnd
CHECK_DEADLOCK FALSE
