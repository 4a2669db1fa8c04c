SPECIFICATION MCApartSpec
CONSTANTS
    Clones = {3, 4}
    Runs = {1, 2}
    Prefixes = {1}
    Modules = {2}
    PrefixOf <- MCPrefixOf
    HasImage = {2}
    Immutable = {}
    Versions <- MCSemver
    Overrides <- MCNone
    Includes <- MCAllTracks
    Schema = "semver"
    Component = "patch"
    MaxCommit = 2
    MaxDay = 1
INVARIANTS
    TaggedReleasesAreComplete
    DoneIsReleased
PROPERTY
    WorktreesRemoved
