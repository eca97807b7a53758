SPECIFICATION Spec
CONSTANTS
    MaxCalls = 3
    MaxRequest = 2
    MaxReply = 2
    MaxConns = 2
    MaxDeaths = 1
INVARIANT AnswersOwn
CHECK_DEADLOCK FALSE
