SPECIFICATION Spec
CONSTANTS
    Handlers = {h1, h2}
    Callbacks = {c1}
    Entities = {inverter}
    NoEntity = NoEntity
    Production = FALSE
    Watts <- MCOneWatt
    MaxRequests = 3
    MaxOwnChanges = 0
INVARIANTS RemovedStaysRemoved
CHECK_DEADLOCK FALSE
