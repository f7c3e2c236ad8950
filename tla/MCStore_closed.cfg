SPECIFICATION WatchedSpec
CONSTANTS
    rest1 = rest1
    rest2 = rest2
    ship1 = ship1
    Writers = {rest1, ship1}
    HttpWriters = {rest1}
    MaxSubs = 1
    MaxUpdates = 1
INVARIANTS UpdateNeverPanics
CHECK_DEADLOCK FALSE
