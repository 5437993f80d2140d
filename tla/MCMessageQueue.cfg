CONSTANTS
    Messages = {a, b}
    Quit = quit
    Zero = zero
    InitialCount = 1
    Increment = 1
    MaxSize = 5
SPECIFICATION FairSpec
INVARIANTS
    PeekFindsMessage
    QuitIsLast
PROPERTIES
    ImplementsContract
    QuitEndsConsumer
