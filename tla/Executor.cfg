SPECIFICATION LiveSpec
CONSTANTS
    NumTargets = 2
    SessionCodes = {0}
    Configs <- SmallConfigs
INVARIANTS
    WaitGroupExact
    NothingLeftBehind
    ConcurrencyBounded
    ResultsAccounted
    SortedOrder
    DeliverNeverBlocks
    ZeroMeansComplete
PROPERTIES
    FailureSticks
    KeepsPromise
    InterruptReturns
    RunTerminates
    ResultsFlow
