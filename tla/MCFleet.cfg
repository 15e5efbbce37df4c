SPECIFICATION FairSpec
CONSTANTS
    Instance = {i1, i2}
    Settings <- MCSettings
    MaxCrashes = 1
    MaxInFlight = 1
    None = None
INVARIANT TypeOK
PROPERTIES LeaseKept LeadershipReturns FollowersAligned
