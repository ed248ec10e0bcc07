CONSTANTS
    SourceDir <- MCSourceDir
    MaxCommands = 5
    MaxFailures = 1
    MaxCrashes = 1
SPECIFICATION Spec
INVARIANTS MadeLoads 
PROPERTY StartedStays
CHECK_DEADLOCK FALSE
