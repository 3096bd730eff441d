CONSTANTS
    Tracks = {v, a}
    PcrTrack = v
    M = 16
    PcrInterval = 4
    PsiInterval = 6
    Sizes = {5, 20}
    Unbounded = {v}
    MaxBounded = 8
    MaxRun = 3
    Posts = {0, 2}
    Steps = {0, 3, 6}
    Late = 2
    Bases = {0, 7}
    StepBack = FALSE
    MaxTime = 12
    MaxFrames = 3
    MaxSplices = 2
    MaxRebases = 1
    v = v
    a = a
SPECIFICATION Spec
INVARIANTS
    PcrCadence
CHECK_DEADLOCK FALSE
