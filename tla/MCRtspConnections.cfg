SPECIFICATION Spec
CONSTANTS
    Connection = {c1}
    MaxRequests = 4
INVARIANTS
    AnsweredInOrder
    NothingLeftUnread
    SendsThroughOpenSocket
    NothingLeftBehind
PROPERTIES
    RequestsAnswered
    SessionsStream
CHECK_DEADLOCK FALSE
