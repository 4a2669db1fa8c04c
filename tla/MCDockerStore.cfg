SPECIFICATION FairSpec
CONSTANTS
    p1 = p1
    p2 = p2
    p3 = p3
    h1 = h1
    h2 = h2
    Helpers = {p1, p3}
    Hosts = {h1, h2}
    HostOf <- MCHostOf
    MaxCred = 1
    Nobody = Nobody
    Careful = TRUE
    MaxEdits = 1
    MaxLosses = 1
INVARIANTS
    TempsAccounted
PROPERTIES
    NeverTorn
    ImplementsStore
    HelpersEnd
