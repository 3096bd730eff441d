SPECIFICATION AllSpec
CONSTANTS
    Tracks = {v, a}
    PcrTrack = v
    M = 16
    PcrInterval = 4
    PsiInterval = 6
    Sizes = {5, 20}
    Unbounded = {v}
    MaxBounded = 8
    MaxRun = 3
    Posts = {0, 2}
    Steps = {0, 3, 6}
    Late = 0
    Bases = {0, 7}
    StepBack = FALSE
    MaxTime = 9
    MaxFrames = 3
    MaxSplices = 2
    MaxRebases = 1
    v = v
    a = a
    PacedTracks <- MCTracks
    Video <- MCVideo
    Programs <- MCPrograms
    ProgramOf <- MCProgramOf
    PacedPcrTrack <- MCPcrTrack
    Paced <- MCPaced
    VideoLead = 20
    AudioLead = 6
    PacedPcrInterval = 6
    Load = 6
    Bucket = 13
    Pool = 49
    Drain <- MCDrain
    PoolDrain = 1
    Tables = 3
    PacedPsiInterval = 30
    PacedSizes = {1, 4}
    Gap <- MCGap
    Skew = 2
    Untimed = {1}
    PacedBases = {0, 7}
    PacedFrames <- MCFrames
    PacedRebases = 1
INVARIANTS PcrCadence FirstOfBaseMarked TablesRepeated TransportBuffers PacedCadence
PROPERTIES CountdownKept FramesOnTime ClockLinear CallsReturn
CHECK_DEADLOCK FALSE
