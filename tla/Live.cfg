SPECIFICATION Spec
CONSTANT
    none = none
PROPERTIES
    EventuallySettled
    EventuallyCounted
CHECK_DEADLOCK FALSE
