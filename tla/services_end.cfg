SPECIFICATION FairSumSpec
CONSTANTS
    Exercised = {"outbox", "lifecycle", "batch", "refresh", "order", "credential"}
    Worker = {1, 2}
    Nobody = nobody
    Message = {1, 2}
    Event = {{1, 2}, {2}}
    MaxAttempts = 2
    MaxReports = 1
    MaxEnv = 1
    MaxUnheard = 1
    Components = 2
    Caller = {1, 2, 3}
    MaxCalls = 3
    MaxRefusals = 2
    BargainHandler = {1, 2}
    MaxPending = 3
    MaxReady = 2
    MaxBargainEnv = 1
    Line = {1}
    Publisher = {1, 2}
    NoToken = none
    MaxRequests = 1
    MaxBatchEnv = 1
    MaxTokens = 2
    MaxRefreshEnv = 2
    Sync = {s1}
    MaxStarts = 1
    MaxOrderEnv = 2
    MaxTries = 2
    MaxLogins = 1
    MaxAnswers = 0
    MaxRounds = 1
    MaxScheduled = 1
    SetCookies = {{"session"}, {"other"}}
PROPERTIES ServicesEnd
CHECK_DEADLOCK FALSE
