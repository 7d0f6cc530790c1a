SPECIFICATION FairSpec
CONSTANTS
    h1 = h1
    h2 = h2
    sch = sch
    o1 = o1
    o2 = o2
    Handler <- OneHandler
    Scheduler = sch
    Operator <- TwoOperators
    Plan <- DeliverTextConfirm
    Delayed <- Last
    MaxFailed = 2
    MaxResume = 3
    MaxClaims = 2
    MaxEnv = 2
INVARIANT SuccessComplete
INVARIANT ClaimAccounted
PROPERTY NoMessageAfterUnknown
PROPERTY StaleFenced
PROPERTY LedgerSpec
PROPERTY RunningEnds
CHECK_DEADLOCK FALSE
