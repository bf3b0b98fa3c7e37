SPECIFICATION PairSpec
CONSTANTS
    MaxCommands = 5
    Home <- HomeSsid
    Scans <- SomeScans
    MaxItems = 3
    MaxSessions = 2
INVARIANTS
    ConfiguredOnce
    ConfiguredAsScanned
CHECK_DEADLOCK FALSE
