SPECIFICATION CredentialSpec
CONSTANTS
    MaxLogins = 1
    MaxAnswers = 1
    MaxRounds = 1
    MaxScheduled = 0
    SetCookies = {{"session"}, {"other"}}
PROPERTIES LoginKept
CHECK_DEADLOCK FALSE
