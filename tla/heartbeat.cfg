SPECIFICATION FairSpec
CONSTANTS
    a1 = a1
    Agents = {a1}
    MaxTokens = 2
    Limit = 2
    Fetchers = {"helper", "key"}
    Opaque = {2}
    MaxFaults = 1
    MaxMoves = 1
    Duration <- Durations
INVARIANT TypeOK
INVARIANT RenewalInTime
PROPERTY TokenRecovers
PROPERTY PresenceRecovers
CHECK_DEADLOCK FALSE
