SPECIFICATION Spec
CONSTANTS
    MaxSessions = 2
    MaxMessages = 2
    MaxChunks = 2
    AppWrites = 2
    PluginWrites = 1
INVARIANTS
    StaticInv
    SentInItsSession
    MessagesHandled
PROPERTIES
    EveryWriteReleased
    DisconnectReturns
CHECK_DEADLOCK FALSE
