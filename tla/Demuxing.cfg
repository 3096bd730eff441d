SPECIFICATION AllSpec
CONSTANTS
    M = 5
    Packets = 6
    TailWindow = 2
    PSize = 4
    SyncOffset = 1
    FilePackets = 6
    ResyncLimit = 2
    Coincidences = 1
    CorruptHeader = FALSE
    Lengths = {4, 7, 12}
    Sections = 4
    Payload = 6
    MaxLen = 12
    CCMod = 4
    Losses = 2
    Repeats = 1
    CutHeaders = FALSE
    Turn = 16
    Units = 6
    Steps = {3, 4}
    Delays = {0, 3}
    PcrLead = 2
    Reorder = FALSE
    Straddle = FALSE
INVARIANTS LongCorruptionIsReported SectionsSurvive PtsExact AxesAgree
           DurationIsExact LandingIsExact
PROPERTIES ReaderDelivers SeekReturns
CHECK_DEADLOCK FALSE
