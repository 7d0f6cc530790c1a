SPECIFICATION SumSpec
CONSTANTS
    Exercised = {"delivery", "chat", "reply", "message", "tasks"}
    Requester = {q1}
    Units = 2
    Supply = 3
    MaxFailed = 1
    MaxResume = 2
    MaxReplay = 2
    MaxEnv = 2
    MaxPosts = 2
    MaxDeletes = 2
    MaxPages = 1
    MaxLocal = 1
    Replier = {p1, p2}
    MaxCopies = 2
    MaxReplyEnv = 2
    MaxGaps = 1
    MaxSends = 2
    MaxLinks = 2
    Settings = {{"rate"}, {"polish"}}
    MaxOrders = 2
    DueLimit = 2
    MaxAttempts = 2
    Manual = {m1}
    MaxItems = 2
    MaxCookies = 2
    MaxTaskEnv = 1
INVARIANTS PartsTypeOK StockSafe LostVisible ReplayWhole ConversationSafe RepliesSafe MessagesSafe TasksSafe
PROPERTIES StockSpec DeletedForGood
CHECK_DEADLOCK FALSE
