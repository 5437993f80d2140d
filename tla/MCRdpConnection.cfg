CONSTANTS
    ChannelCount = 1
    MaxInput = 2
    MaxUpdates = 1
    MaxReconnects = 1
    ClientConfigs <- MCClientConfigs
    ServerConfigs <- MCServerConfigs
SPECIFICATION Spec
INVARIANTS
    NoFailure
    Quiescence
    ReactivationAgreed
    JoinAgreed
PROPERTY ImplementsActivation
