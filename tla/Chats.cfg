SPECIFICATION Spec
CONSTANTS
    k1 = k1
    k2 = k2
    m1 = m1
    m2 = m2
    AnyCalls = {k1, k2}
    LogClients = {c1}
    LogMessages = {"m"}
    LogPage = 1
    MaxLogEvents = 3
    MaxLogFaults = 1
    Residents = {o, p}
    Founder = o
    MaxGroupCalls = 5
    MaxOfferAttempts = 3
    MaxOfferCalls = 6
    MaxOfferWindows = 1
    MaxPortalCalls = 9
    MostPartners = 2
    BotUpdates = 4
    BotPoison = {4}
    MaxBotFaults = 2
    DraftRoles <- TwoOfFood
    DraftOffers <- FiveOffers
    DraftKeys = {"x"}
    MaxDrafts = 2
    MaxWeekly = 1
    MaxDraftCalls = 5
    MeetupKeys = {"none", "key"}
    WeeklyMeetups = 2
    DraftsMade = 1
    MeetupBounds <- CreationBounds
SYMMETRY Symmetry
INVARIANTS
    LogHolds
    CommunityHolds
    RelayHolds
    Accounted
    DriftExplained
    NoneForgotten
    SeatsAgree
    DecidedOnce
    OffersHold
    MeetupsHold
PROPERTIES
    CheckedSeatFits
CHECK_DEADLOCK FALSE
