CONSTANTS
    Caller = {c1, c2}
    OtherNode = {p1}
    MaxKey = 2
    MaxUpdates = 3
    MaxFaults = 1
SPECIFICATION AgentSpec
SYMMETRY CallerSymmetry
INVARIANTS IdentityAgrees KeysFollow BlockedAreReplaced
CHECK_DEADLOCK FALSE
