CONSTANTS
    Blocks = {1, 2}
    Requests = {r1}
    NoTimer = NoTimer
    MaxTime = 2
    TimerMax = 1
    MaxCrashes = 1
SPECIFICATION MCSpec
INVARIANTS BlocksAreTimely
PROPERTIES ClosedIsFinal BlocksMoveOn
CHECK_DEADLOCK FALSE
