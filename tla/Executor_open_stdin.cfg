SPECIFICATION OpenStdinSpec
CONSTANTS
    NumTargets = 2
    SessionCodes = {0}
    Configs <- OneSlot
PROPERTIES
    InterruptReturns
