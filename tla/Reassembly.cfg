SPECIFICATION Spec
CONSTANTS
    Messages = {m1, m2}
    IdSpace = 3
    StrayIds = {1, 7}
    MaxStreams = 2
    MaxPayload = 3
    HeaderSize = 1
    MaxTotal = 3
    Timeout = 1
    LinkCap = 1
    StrayHeaders <- MCStrayHeaders
    MaxTime = 1
    MaxStrays = 2
    MaxConnects = 1
INVARIANTS TypeOK Bounded Integrity ArrivedIsDelivered
SYMMETRY Symmetry
CHECK_DEADLOCK FALSE
