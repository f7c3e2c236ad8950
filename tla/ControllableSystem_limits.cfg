SPECIFICATION FairSpec
CONSTANTS
    Callbacks = {g1, g2}
    Handlers = {g2}
    MaxChanges = 2
INVARIANTS TypeOK StaleOnlyIfOvertaken LimitInForceIsRecent NoWriteStranded
PROPERTIES WritesAnswered HeartbeatsHeal
CHECK_DEADLOCK FALSE
