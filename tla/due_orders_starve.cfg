SPECIFICATION TasksSpec
CONSTANTS
    Settings = {{"rate"}, {"polish"}}
    MaxOrders = 2
    DueLimit = 1
    MaxAttempts = 2
    Manual = {m1}
    MaxItems = 2
    MaxCookies = 2
    MaxTaskEnv = 2
INVARIANT DueReachesAll
CHECK_DEADLOCK FALSE
