SPECIFICATION Spec
CONSTANTS
    base = base
    opt = opt
    own = own
    Modules = {base, opt, own}
    Semvers <- MCSemvers
    Govers <- MCGovers
    Paths <- MCPaths
    Selections = {"all", "some"}
    Edited <- MCEdited
    Everything = "all"
    Careful = TRUE
    MaxRelease = 2
    Starter <- MCStarter
    StarterNames <- MCStarterNames
    StarterSums <- MCStarterSums
VIEW MCView
INVARIANTS
    YoursStay
    SumsCover
    InStep
PROPERTY
    NoDowngrade
