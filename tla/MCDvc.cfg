SPECIFICATION Spec
CONSTANTS
    MaxId = 2
    MaxLength = 2
    MaxWrites = 2
    MaxCloses = 1
INVARIANTS
    DvcInv
    ReceivedInOrder
PROPERTIES
    CloseArrives
    DisconnectClosesAll
CHECK_DEADLOCK FALSE
