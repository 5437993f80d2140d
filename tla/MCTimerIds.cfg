SPECIFICATION Spec
CONSTANTS
    Users = {u1, u2}
    MaxTimers = 2
INVARIANT IdsNew
CHECK_DEADLOCK FALSE
