CONSTANTS
    Guests = {g1, g2}
    Host = host
    Calls = {c1, c2}
    Kinds = {"join", "leave"}
    Starts = {"outside", "joined"}
    Capacities = {2}
    MaxCalls = 3
SPECIFICATION Spec
CHECK_DEADLOCK FALSE
INVARIANT JoinsKeepCapacity
