\* Plain http: requests are encrypted.
SPECIFICATION Spec
CONSTANTS
    Https = FALSE
    MaxKeys = 5
    MaxRuns = 2
    MaxLosses = 3
    MaxPairs = 2
INVARIANT TypeOK
INVARIANT NoStraySessions
INVARIANT OkMeansLive
INVARIANT SharedSecret
PROPERTY ImplementsSession
