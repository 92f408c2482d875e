CONSTANTS
    h1 = h1
    h2 = h2
    c1 = c1
    c2 = c2
    Clients <- MCClients
    Callers <- MCCallers
    Schedules = {"nightly", "weekly"}
    NoSchedule = NoSchedule
    Nothing = Nothing
    Loads <- MCLoads
    QueueCap = 2
    OutCap = 1
    SseMax = 1
    MaxProgress = 1
SPECIFICATION FairSpec
INVARIANT TypeOK
INVARIANT CloseWaitsForCrawl
INVARIANT CronFollowsConfig
INVARIANT StreamsWithinLimit
INVARIANT OnlySeedsPanic
INVARIANT PushesInOrder
PROPERTY StreamsAreAPool
PROPERTY ViewGoesForward
PROPERTY ViewCatchesUp
PROPERTY ShutdownEnds
