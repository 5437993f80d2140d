CONSTANTS
    ChannelCount = 1
    MaxUpdates = 1
    ServerConfigs <- MCServerConfigs
SPECIFICATION ServerOpenSpec
INVARIANTS
    ActivatedAfterFontList
    KeysAfterJoin
    
    GrantAfterCooperate
CHECK_DEADLOCK FALSE
