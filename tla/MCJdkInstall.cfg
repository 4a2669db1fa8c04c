SPECIFICATION FairSpec
CONSTANTS
    MaxRelease = 3
    Size <- MCSize
    MaxStalled = 2
    MaxAttempts = 3
    NoLink = NoLink
INVARIANTS
    AttemptsBounded
    InstalledIsVerified
PROPERTIES
    GivenUpForAnother
    DownloadEnds
    Recovers
