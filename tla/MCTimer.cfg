SPECIFICATION Spec
CONSTANTS
    Users = {u1}
    MaxTimers = 2
INVARIANT TimerInv
PROPERTIES
    RemovedStaysSilent
    DueRuns
CHECK_DEADLOCK FALSE
