CONSTANTS
    Guests = {g1}
    Host = host
    Calls = {c1, c2}
    Kinds = {"request", "approve"}
    Starts = {"asked"}
    Capacities = {2}
    MaxCalls = 2
SPECIFICATION Spec
CHECK_DEADLOCK FALSE
PROPERTY ReviewStands
