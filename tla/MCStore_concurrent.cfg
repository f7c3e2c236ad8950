SPECIFICATION WatchedSpec
CONSTANTS
    rest1 = rest1
    rest2 = rest2
    ship1 = ship1
    Writers = {rest1, rest2, ship1}
    HttpWriters = {rest1, rest2}
    MaxSubs = 1
    MaxUpdates = 4
INVARIANTS TypeOK BurstBounded
PROPERTIES UpdateReturns ImplementsWatch
CHECK_DEADLOCK FALSE
