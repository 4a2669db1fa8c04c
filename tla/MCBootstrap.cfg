SPECIFICATION Spec
CONSTANTS
    cpp = cpp
    java = java
    lint = lint
    toolsCpp = toolsCpp
    toolsLint = toolsLint
    deps = deps
    lock = lock
    segment = segment
    generator = generator
    pmd = pmd
    mine = mine
    Core = Core
    Root = Root
    None = None
    Gone = Gone
    Unverified = Unverified
    Owners = {cpp, java, lint}
    Features = {lint}
    Dirs = {toolsCpp, toolsLint}
    Paths = {deps, lock, segment, generator, pmd, mine}
    DirOwner <- MCDirOwner
    Entry <- MCEntry
    ShippedIn <- MCShippedIn
    Selections <- MCSelections
    Releases = 2
    Careful = TRUE
    MaxRuns = 2
    MaxEdits = 1
CHECK_DEADLOCK FALSE
INVARIANTS
    TypeOK
    EditsSurvive
    NothingForgotten
    ChangesAreSeen
    TargetsDoNotDangle
    BaselineIsComplete
    RefusalsHold
