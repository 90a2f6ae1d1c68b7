SPECIFICATION Spec
CONSTANTS
    Events = {e1, e2}
    InboxCap = 2
    MaxPings = 1
    MaxActions = 2
INVARIANT OnShutdownCalled
