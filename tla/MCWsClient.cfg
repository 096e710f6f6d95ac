\* One caller, a batch of two requests and then a single one, two attempts each.
CONSTANTS
    c1 = c1  c2 = c2
    Callers = {c1}
    MaxAttempts = 2
    Width <- BatchThenOne
    MaxCalls = 2
SPECIFICATION WsFairSpec
INVARIANTS
    WsTypeOK
    AnswersMatch
    OneSocket
PROPERTIES
    CallsEnd
CHECK_DEADLOCK FALSE
