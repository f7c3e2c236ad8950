SPECIFICATION Spec
CONSTANT MaxCerts = 4
INVARIANTS LoadsOrCreates
