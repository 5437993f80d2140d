CONSTANTS
    ChannelCount = 1
    MaxInput = 1
    MaxUpdates = 1
    MaxReconnects = 1
    ClientConfigs <- MCFairClientConfigs
    ServerConfigs <- MCFairServerConfigs
SPECIFICATION FairSpec
PROPERTIES
    ActiveAgain
    ActivationCompletes
