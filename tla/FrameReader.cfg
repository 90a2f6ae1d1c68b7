SPECIFICATION Spec
CONSTANTS
    Texts <- MCTexts
    PlainSize <- MCPlainSize
    ZipSize <- MCZipSize
    MaxPayload = 1
    Threshold = 1
    TargetWidth = 2
    Keys = {k1, k2}
    NoKey = nokey
    SenderKeys = {nokey, k1}
    ReaderKeys = {nokey, k1, k2}
    Requests <- MCRequests
    Target <- MCTarget
    HeadCells = 2
    MaxFrames = 2
INVARIANTS TypeOK RoundTrip
PROPERTIES TimeoutIsClean ImplementsChannel EveryReadEnds
CHECK_DEADLOCK FALSE
