CONSTANTS
    Members = {1, 2}
    Blocked = {}
    SendKinds = {"queued", "recount"}
    FanoutModes = {"single"}
    PageSize = 2
    MaxTasks = 1
    MaxMessages = 2
    MaxReads = 0
    MaxDeletes = 0
    MaxAbandons = 0
    MaxClock = 1
    MaxInAll = 1
SPECIFICATION Spec
CHECK_DEADLOCK FALSE
INVARIANT Materialized
