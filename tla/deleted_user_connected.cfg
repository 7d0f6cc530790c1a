SPECIFICATION Spec
CONSTANTS
    r1 = r1
    r2 = r2
    Request <- TwoRequests
    Nobody = nobody
    Op <- DeleteUserAndRestart
    MaxRequests = 2
    MaxStarts = 2
    MaxCookie = 0
INVARIANT DeletedUserIsDown
CHECK_DEADLOCK FALSE
