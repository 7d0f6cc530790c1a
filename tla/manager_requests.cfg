SPECIFICATION FairSpec
CONSTANTS
    r1 = r1
    r2 = r2
    Request <- TwoRequests
    Nobody = nobody
    Op <- AllOps
    MaxRequests = 4
    MaxStarts = 4
    MaxCookie = 1
INVARIANT TypeOK
INVARIANT ManagerSafe
INVARIANT DownIsDown
INVARIANT Refreshed
PROPERTY SlotSpec RequestsEnd
CHECK_DEADLOCK FALSE
