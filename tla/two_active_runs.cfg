SPECIFICATION Spec
CONSTANTS
    Requester = {q1}
    Units = 2
    Supply = 3
    MaxFailed = 2
    MaxResume = 2
    MaxReplay = 3
    MaxEnv = 0
INVARIANT OneActiveRun
CHECK_DEADLOCK FALSE
