SPECIFICATION SetupSpec
CONSTANTS
    Handle = {h1, h2}
    NoHandle = none
    NoPath = noPath
    NoFeature = noFeature
    root = root
    sub = sub
    leaf = leaf
    other = other
    packed = packed
    dir = dir
    Path <- MCPath
    PackedPath <- MCPackedPath
    Feature <- MCFeature
    Parent <- MCParent
    Size <- MCSize
    SourcePath = packed
INVARIANT
    TotalOfChecked
    OneCallAtATime
    ThreadsEndFirst
    InstallsWhatIsChecked
    ReportIsTrue
PROPERTY
    LeavingEnds
