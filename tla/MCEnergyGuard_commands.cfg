SPECIFICATION Spec
CONSTANTS
    Handlers = {h1, h2}
    Callbacks = {c1}
    Entities = {inverter}
    NoEntity = NoEntity
    Production = TRUE
    Watts <- MCWatts
    MaxRequests = 2
    MaxOwnChanges = 1
INVARIANTS TypeOK LoneRequestFulfilled UnaskedNeverActive SignsSeparated
CHECK_DEADLOCK FALSE
