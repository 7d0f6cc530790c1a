SPECIFICATION SumSpec
CONSTANTS
    Exercised = {"outbox", "lifecycle", "bargain", "batch", "refresh", "order", "credential"}
    Worker = {p1, p2}
    Nobody = nobody
    Message = {1, 2}
    Event = {{1, 2}, {2}}
    MaxAttempts = 2
    MaxReports = 2
    MaxEnv = 1
    MaxUnheard = 1
    Components = 2
    Caller = {p1, p2, p3}
    MaxCalls = 4
    MaxRefusals = 2
    BargainHandler = {p1, p2}
    MaxPending = 3
    MaxReady = 2
    MaxBargainEnv = 1
    Line = {1, 2}
    Publisher = {p1, p2}
    NoToken = none
    MaxRequests = 2
    MaxBatchEnv = 1
    MaxTokens = 3
    MaxRefreshEnv = 2
    Sync = {s1, s2}
    MaxStarts = 2
    MaxOrderEnv = 2
    MaxTries = 2
    MaxLogins = 1
    MaxAnswers = 1
    MaxRounds = 1
    MaxScheduled = 1
    SetCookies = {{"other"}, {"session", "other"}}
INVARIANTS ServicesTypeOK AcceptedAccounted BargainSafe BatchSafe ShipmentRemembered StopQuiet
PROPERTIES OutboxFenced LifecycleSafe RefreshSafe OrderSafe OnlineCurrent CommitsForward
CHECK_DEADLOCK FALSE
