SPECIFICATION FairSpec
CONSTANTS
    Instance = {i1, i2}
    Settings <- MCSettings
    MaxCrashes = 0
    MaxInFlight = 1
    None = None
PROPERTY LeaderAuthoritative
