SPECIFICATION Spec
CONSTANTS
    Requests = {r1, r2}
    Sockets = {k1}
    Tokens <- MCTokens
INVARIANTS TypeOK StopsInOrder AnswersAreTrue
PROPERTIES ShutdownEnds GoneIsReleased
CHECK_DEADLOCK FALSE
