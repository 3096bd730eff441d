CONSTANTS
    Packets = 4
    MaxPcrs = 3
    MaxAudio = 1
    Targets = {4, 10}
    Grace = 1
    Back = 2
    Direct = {FALSE}
SPECIFICATION Spec
INVARIANTS
    SameAsIndex
    DeliversTheLanding
PROPERTY
    SeekReturns
