SPECIFICATION Spec
CONSTANTS
    Clones = {c1}
    Runs = {r1, r2}
    Prefixes = {1, 2}
    Modules = {2, 3}
    PrefixOf <- MCPrefixOf
    HasImage = {2}
    Immutable = {"artifact"}
    Versions <- MCSemver
    Overrides <- MCSemverOverrides
    Includes <- IncludeChoices
    Schema = "semver"
    Component = "patch"
    MaxCommit = 2
    MaxDay = 1
SYMMETRY MCSymmetry
INVARIANT
    FailedRunLeavesNoTags
