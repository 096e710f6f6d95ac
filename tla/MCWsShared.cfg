\* Two threads of the API on one client.
CONSTANTS
    c1 = c1  c2 = c2
    Callers = {c1, c2}
    MaxAttempts = 2
    Width <- OneByOne
    MaxCalls = 2
SPECIFICATION WsSpec
INVARIANTS
    SocketWhenSending
CHECK_DEADLOCK FALSE
