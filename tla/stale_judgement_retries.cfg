SPECIFICATION Spec
CONSTANTS
    h1 = h1
    h2 = h2
    sch = sch
    o1 = o1
    o2 = o2
    Handler <- OneHandler
    Scheduler = sch
    Operator <- TwoOperators
    Plan <- TextText
    Delayed <- NoPosition
    MaxFailed = 2
    MaxResume = 3
    MaxClaims = 2
    MaxEnv = 3
SYMMETRY Symmetric
INVARIANT NoBlindRetry
CHECK_DEADLOCK FALSE
