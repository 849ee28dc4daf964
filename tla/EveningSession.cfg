CONSTANTS
    g1 = g1
    g2 = g2
    host = host
    c1 = c1
    c2 = c2
    w1 = w1
    Guests <- TwoGuests
    Host <- host
    Steps = 3
    DueAt <- ThreeStepsDue
    FinishAt = 2
    Modes <- AllModes
    Privacies <- AllPrivacies
    Capacity = 2
    Calls <- TwoCalls
    Workers <- OneWorker
    MaxHostCalls = 3
    MaxGuestCalls = 2
    MaxClock = 2
SPECIFICATION LiveSpec
CHECK_DEADLOCK FALSE
INVARIANTS IInv ChatMirrorsSession CurrentStepIsMarked SeatsFit ReviewDecidesSeat CheckInsAreReached
PROPERTIES AutoOnlyAdvances AutoFinishes
