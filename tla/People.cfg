SPECIFICATION Spec
CONSTANTS
    k1 = k1
    k2 = k2
    m1 = m1
    m2 = m2
    AnyCalls = {k1, k2}
    Daters = {m1, m2}
    Swipers = {m1, m2}
    SwipeLimit = 2
    FreeSupers = 1
    FreeRewinds = 1
    SuperCost = 1
    RewindCost = 1
    Purse = 1
    MaxSwipeCalls = 4
    MaxBlocks = 1
    PhotoKeys = {m1, m2, m}
    MaxPhotoCalls = 4
    Selfies = {m1, m2}
    Documents = {doc}
    MaxReviewCalls = 6
    MaxNoticeExpiries = 1
    MediaKeys = {m1, m2, x}
    MaxMediaAttempts = 2
    MediaBatch = 1
    MaxMediaCalls = 4
    MaxScans = 2
    MaxAuthCalls = 6
    MaxAuthTimers = 2
    LoginTelegrams = {m1, m2}
    LoginPhones = {"p", "q"}
    MaxLoginAttempts = 3
    MaxLoginCodes = 2
    LoginBounds <- OneOrTwoLogins
    SocialIdentities <- ThreeIdentities
    GivenEmails = {"e", "f"}
    GivenPhones = {"p"}
    MaxSocialCalls = 5
    DropRewards = {"a", "b", "c"}
    EarlierRewards = {"a"}
    TicketsFor <- RewardTickets
    TaskFor <- RewardTasks
    TaskLimitOf <- TaskLimits
    TicketRank <- DrawRank
    MonthTickets = 4
    UserTickets = 3
    Prizes = 2
    ReservePlaces = 1
    MaxDropCalls = 5
    MaxDropCancels = 1
    CacheProcesses = {m1, m2}
    MemoryLife = 1
    RedisLife = 1
    CopyLife = 1
    MaxAsks = 3
    MaxWrites = 1
    MaxCacheTicks = 3
    MaxCacheFaults = 1
    ListedItems <- AfficheItems
    ListedVenues = {"hall", "club"}
    ListingGrace = 0
    ListingBounds <- AfficheBounds
    NoticeMeetups = {"e", "f"}
    NoticeSubscriptions = {"s"}
    NoticeWorkers = {m1, m2}
    NoticeProcesses = {"a", "b"}
    NoticeBatch = 1
    AnnouncedBounds <- NoticeBounds
SYMMETRY Symmetry
INVARIANTS
    DropsHold
    SwipesMeet
    PhotosInOrder
    ReviewHolds
    ImagesAccounted
    CachesHold
    SignInHolds
    NewsHolds
CHECK_DEADLOCK FALSE
