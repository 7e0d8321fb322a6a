SPECIFICATION Spec
CONSTANTS
    Keys = {"k1", "k2"}
    MaxFiles = 2
INVARIANTS
    EverySourceTried
