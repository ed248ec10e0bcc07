CONSTANTS
    a1 = a1
    a2 = a2
    f1 = f1
    f2 = f2
    App <- MCApp
    Fn <- MCFn
    BridgeFuncs <- MCBridgeFuncs
    MaxToken = 2
    MaxCalls = 2
    MaxStarts = 3
SPECIFICATION BridgeSpec
INVARIANTS OnlyBridged TokenRegistered
PROPERTY RevokedStaysOut
CHECK_DEADLOCK FALSE
