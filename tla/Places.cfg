SPECIFICATION Spec
CONSTANTS
    k1 = k1
    k2 = k2
    m1 = m1
    m2 = m2
SYMMETRY Symmetry
INVARIANTS
    PagesHold
    RoutesHold
    JobsHold
CHECK_DEADLOCK FALSE
