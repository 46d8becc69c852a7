SPECIFICATION CliSpec
CONSTANTS
    Handle = {h1, h2}
    NoHandle = none
    NoPath = noPath
    packed = packed
    dir = dir
    Path <- MCPath
    PackedPath <- MCPackedPath
    Source <- MCPath
    Target <- MCPath
SYMMETRY MCSymmetry
INVARIANT
    TypeOK
    
    
    ExitOkMeansDone
PROPERTY
    SpoiledStaysSpoiled
    OnlyTargetsWritten
