SPECIFICATION Spec
CONSTANTS
    Client = {c1, c2}
    Configured <- SomeConfigured
    MaxLives = 2
    MaxDepartures = 1
INVARIANTS
    OneSession
    ListsAreOfLastSession
PROPERTIES
    SessionsKeepLife
    ViewersServed
    CameraComesBack
CHECK_DEADLOCK FALSE
