SPECIFICATION Spec
CONSTANTS
    Ids = {1, 2, 3}
    Keys = {1, 2}
    Limit = 1
    Window = 2
    MaxChanges = 0
    MaxPages = 4
INVARIANT ImportRunsPaged
CHECK_DEADLOCK FALSE
