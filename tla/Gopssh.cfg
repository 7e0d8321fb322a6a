SPECIFICATION GopsshSpec
CONSTANTS
    Off = Off
    NumTargets = 2
    Codes = {0, 1, 255}
    Policies = {"first", "always-zero"}
    Orders = {FALSE}
    MaxLen = 4
    MaxArgs = 3
    MaxLines = 2
    MaxWords = 2
    MaxLimit = 2
    Keys = {"k1", "k2"}
    MaxFiles = 2
    MaxSize = 1
    MaxInt = 255
    Kilo = 4
INVARIANTS
    FieldFaithful
    AnticipatesParser
    FormTruthful
    ReadersAgree
    DoctorTruthful
    OffersAsDocumented
    FilesTruthful
    SizesExact
    RunLines
    RunExit
