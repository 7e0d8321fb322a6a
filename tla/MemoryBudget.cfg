SPECIFICATION LiveSpec
CONSTANTS
    Procs = {p1, p2, p3}
    MaxInt = 7
    Limit = 7
    Sizes = {3, 7}
INVARIANTS
    CounterExact
PROPERTIES
    RefusedWhenFull
    ReserveReturns
