SPECIFICATION Spec
CONSTANTS
    Enabled <- MCEnabled
    Watched <- MCWatched
    Devices = {inverter, meter}
    NoDevice = NoDevice
    Callbacks = {c1,c2}
    NoOne = NoOne
    MaxChanges = 3
INVARIANTS TypeOK SettledIsCurrent
PROPERTIES NeverOlder
SYMMETRY Symmetry
