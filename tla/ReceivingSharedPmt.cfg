SPECIFICATION AllSpec
CONSTANTS
    Machines = {"open"}
    CCMod = 4
    MaxBurst = 1
    MaxCopies = 2
    MaxRun = 2
    Starts = {2}
    Posts = {1}
    Stale = 1
    Pairs = {"a"}
    Rate = 3
    Modulus = 40
    MaxSpacing = 3
    MaxPackets = 6
    Bases = {0, 30}
    Branches = {"main", "video", "system"}
    ByteTicks = 4
    TbTicks = 6
    LeakTicks = 8
    TbSize = 4
    MainSize = 6
    MbSize = 2
    BsysSize = 8
    SysDrain = 3
    Second = 30
    EbSizes = {2, 12}
    TsHeader = 1
    Payloads = {3}
    PesHeader = 2
    Stuffings = {0, 2}
    Tail2s = 60
    Delays = {6, 20, 40}
    TsPackets = 4
    M = 32
    Ratio = 2
    Phases = {0, 50}
    Gaps = {2, 3}
    Paces = {1, 4}
    Leads <- MCLeads
    MaxSamples = 5
    RingSize = 64
    BytePace = 3
    Wobble = 1
    MaxGap = 3
    MaxJitter = 4
    Jumps = {12, 52}
    Origins = {0, 52}
    MaxSent = 6
    Configs <- MCShared
    Rounds = 3
    TableRoom = 1
    ProbeLimit = 24
    VideoLimit = 1
    Drops = 2
    CounterValues = 16
    Pids = {1, 2}
    MaxPes <- MCMaxPes
    MaxFrags = 2
    Fates = {0, 1, 2}
    Faults = 1
    Malformed = 0
    Seeks = 1
INVARIANT ProgramFound
CHECK_DEADLOCK FALSE
