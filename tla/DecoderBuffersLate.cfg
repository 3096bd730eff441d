SPECIFICATION BufSpec
CONSTANTS
    Branches = {"main", "video", "system"}
    ByteTicks = 4
    TbTicks = 6
    LeakTicks = 8
    TbSize = 4
    MainSize = 6
    MbSize = 2
    BsysSize = 8
    SysDrain = 3
    Second = 30
    EbSizes = {2, 12}
    TsHeader = 1
    Payloads = {3}
    PesHeader = 2
    Stuffings = {0, 2}
    Tail2s = 60
    Delays = {6, 20, 40}
    MaxPackets = 4
INVARIANT LateIsCharged
CHECK_DEADLOCK FALSE
