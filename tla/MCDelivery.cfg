\* Two envelopes, the second one disappearing, in pages of one; one lost socket.
CONSTANTS
    MaxId = 2
    PageSize = 1
    Ephemeral = {2}
    MaxDrops = 1
SPECIFICATION Spec
CHECK_DEADLOCK FALSE
INVARIANTS TypeOK SeenWhenShown
PROPERTY PullLeavesNoGap
