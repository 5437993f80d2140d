CONSTANTS
    Submitters = {s1, s2}
    Workers = {w1, w2}
    MaxWork = 3
    MaxResizes = 2
SPECIFICATION FairSpec
INVARIANTS
    PoolInv
    WaitedIsDone
PROPERTY WorkGetsDone
CHECK_DEADLOCK FALSE
