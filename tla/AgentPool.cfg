SPECIFICATION LiveSpec
CONSTANTS
    Callers = {w1, w2, w3}
    Conns = {a1, a2, a3}
    None = None
    MaxAgentConns = 2
INVARIANTS
    SlotsExact
    ExclusiveUse
PROPERTIES
    RequestServed
