SPECIFICATION Spec
CONSTANTS
    IdSpace = 5
    MaxCommands = 2
    LoginCommands <- PairLogin
    Lossy = TRUE
PROPERTY DeliversCommands
CHECK_DEADLOCK FALSE
