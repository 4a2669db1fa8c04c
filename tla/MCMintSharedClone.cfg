SPECIFICATION Spec
CONSTANTS
    Clones = {c1}
    Runs = {r1, r2}
    Prefixes = {1, 2}
    Modules = {1, 3}
    PrefixOf <- MCPrefixOf
    HasImage = {3}
    Immutable = {"artifact"}
    Versions <- MCCalver
    Overrides <- MCNone
    Includes <- MCAllTracks
    Schema = "calver"
    Component = "patch"
    MaxCommit = 2
    MaxDay = 2
SYMMETRY MCSymmetry
VIEW MCView
INVARIANTS
    OwnTagsHeld
    LocalTagsAccounted
PROPERTY
    ImplementsLedger
