SPECIFICATION Spec
CHECK_DEADLOCK FALSE
CONSTANTS
    rs = rs
    go = go
    cc = cc
    jv = jv
    py = py
    goMem = goMem
    ccMem = ccMem
    jvMem = jvMem
    pyMem = pyMem
    b1 = b1
    b2 = b2
    Labels <- MCLabels
    Workspaces <- MCWorkspaces
    Tags <- MCTags
    Language <- MCLanguage
    Out <- MCOut
    Benches <- MCBenches
    Id <- MCId
    MaxRuns = 3
INVARIANTS
    SuccessIsComplete
    SummaryIsTrue
    ExitIsTrue
    ViewShowsLatest
