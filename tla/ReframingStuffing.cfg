SPECIFICATION Spec
CONSTANTS
    Kinds <- MCStuffed
    Units = 3
    Cuts = {0, 6}
    Reads = {7, 32}
    DiscoveryBytes = 30
    Class <- MCClass
    Reframed = {"video"}
    Unlisted = {"lpcm"}
    Shapes <- MCShapes
    Pictures = 3
    PesSizes = {1, 4, 9}
    ZeroBelongs = TRUE
    Lengths <- MCLengths
    HeaderLen = 2
    Lookalikes <- MCLookalikes
    PayloadSizes = {2, 3, 5}
    MaxLost = 1
    Recovery = 3
    FirstStamped = TRUE
INVARIANT PosWithinBuffer
CHECK_DEADLOCK FALSE
