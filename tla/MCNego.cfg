CONSTANTS
    ServerKinds = {"freerdp", "none", "certless", "direct"}
    Flags = {"admin", "rcg"}
SPECIFICATION Spec
INVARIANTS
    NegoInv
    SelectedPermitted
    FallbackFindsCommon
PROPERTY Returns
