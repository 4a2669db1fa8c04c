SPECIFICATION Spec
CONSTANTS
    MaxRelease = 2
    Size <- MCSize
    MaxStalled = 2
    MaxAttempts = 3
    NoLink = NoLink
INVARIANT InstalledIsWhole
