SPECIFICATION SafetySpec
CONSTANTS
    IdSpace = 6
    MaxCommands = 4
    LoginCommands <- StreamLogin
    Lossy = FALSE
INVARIANTS
    NoCommandLost
    ResendFindsFreeIds
    CommandsCarryTicket
PROPERTY KeepsCommands
CHECK_DEADLOCK FALSE
