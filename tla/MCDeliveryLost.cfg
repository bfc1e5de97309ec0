SPECIFICATION CalmSpec
CONSTANTS
    MaxId = 2
    PageSize = 2
    Ephemeral = {2}
    MaxDrops = 1
CHECK_DEADLOCK FALSE
INVARIANT NeverSilentlyLoses
