SPECIFICATION FairSpec
CONSTANTS
    MaxAttempts = 5
    MaxRequests = 2
    LatestStart = 17
INVARIANTS TypeOK SlowRedisFound NoUseAfterClose
PROPERTIES ShutdownEnds
