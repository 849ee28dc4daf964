CONSTANTS
    w1 = w1
    w2 = w2
    chatKey = chatKey
    NoKey = NoKey
    None = None
    Events <- TwoEvents
    Workers <- TwoWorkers
    MaxAttempts = 2
    StaleAfter = 2
    RetryStep = 1
    RetryCap = 2
    ClaimLag = 1
    MaxEventsPerRun = 2
    BatchWorkers <- FirstInBatches
    BatchKey <- SameKey
    MaxCrashes = 1
    MaxOverruns = 1
    MaxDbErrors = 1
SPECIFICATION Spec
INVARIANT IInv
INVARIANT ClaimsDistinct
INVARIANT SettledAsRun
PROPERTY SettledIsFinal
PROPERTY ImplementsQueue
CONSTRAINT TwoFaults
