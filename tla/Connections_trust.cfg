SPECIFICATION Spec
CONSTANTS
    Skis = {gridbox, inverter}
    Configured = {gridbox}
    Operators = {op1}
    Callbacks = {cb1}
    MaxEvents = 4
INVARIANTS TypeOK OnlyGrantedAllowed NoGhostConnection StaleOnlyIfOvertaken
CHECK_DEADLOCK FALSE
