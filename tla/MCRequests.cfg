\* A range of six blocks, three attempts at each request.
CONSTANTS
    Size = 6
    MaxAttempts = 3
SPECIFICATION RequestsFairSpec
INVARIANTS
    RequestsBounded
    RefusedIsNotRetried
    ReturnsComplete
PROPERTIES
    FetchEnds
CHECK_DEADLOCK FALSE
