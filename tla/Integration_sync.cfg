SPECIFICATION FairSpec
CONSTANTS
    MaxChanges = 3
    MaxGlitches = 1
INVARIANTS TypeOK ListensWhileLoaded
PROPERTIES EventuallyCurrent EventuallyUnavailable EventuallyOpen
CHECK_DEADLOCK FALSE
