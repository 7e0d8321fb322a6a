SPECIFICATION Spec
CONSTANTS
    NumTargets = 2
    Codes = {0, 1, 255}
    Policies = {"first", "any", "always-zero"}
    Orders = {TRUE, FALSE}
INVARIANTS
    OnlyJSON
