CONSTANTS
    ChannelCount = 2
    MaxInput = 1
    ClientConfigs <- MCClientConfigs
SPECIFICATION ClientOpenSpec
INVARIANTS
    ActiveAfterFinalization
    InfoAfterJoin
    CapabilitiesAfterLicense
