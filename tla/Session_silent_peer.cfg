SPECIFICATION SilentPeerSpec
CONSTANTS
    ExitStatuses = {1, 3}
PROPERTIES
    CancelEnds
