SPECIFICATION SumSpec
CONSTANTS
    Exercised = {"run", "events"}
    h1 = h1
    h2 = h2
    sch = sch
    o1 = o1
    o2 = o2
    Handler <- TwoHandlers
    Scheduler = sch
    Operator <- OneOperator
    Plan <- DeliverConfirm
    Delayed <- NoPosition
    MaxFailed = 1
    MaxResume = 3
    MaxClaims = 2
    MaxEnv = 2
    Order = {x1}
    Receiver = {y1}
    Kinds = {{"paid", "completed"}, {"created"}, {"reviewed"}}
    Undisturbed = {{"created"}}
    MaxCards = 2
    MaxReplays = 2
    MaxEventEnv = 1
SYMMETRY Symmetric
INVARIANTS TypeOK EventTypeOK CallsAuthorised EventSafe
PROPERTY TakeoverSafe
CHECK_DEADLOCK FALSE
