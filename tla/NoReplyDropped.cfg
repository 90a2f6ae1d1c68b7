SPECIFICATION Spec
CONSTANTS
    Actions = {a1}
    BigReplies = {}
    Events = {}
    PipeCap = 2
    MaxOut = 1
    MaxSends = 2
INVARIANT NoReplyDropped
