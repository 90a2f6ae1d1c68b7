SPECIFICATION FairSpec
CONSTANTS
    Actions = {a1, a2}
    BigReplies = {a2}
    Events = {e1}
    PipeCap = 1
    MaxOut = 2
    MaxSends = 3
INVARIANTS TypeOK NoLostWakeup InOrderOnce ChannelOutlivesWorkers
PROPERTIES ImplementsReplies QueueServed ShutdownEndsLoop
