SPECIFICATION LiveSpec
CONSTANTS
    ExitStatuses = {1, 3}
INVARIANTS
    ResultUnlessCanceled
    SingleOwner
    NothingSurvives
    ResultTruthful
    WatcherDisarmed
PROPERTIES
    CancelEnds
    BrokenOutputEnds
