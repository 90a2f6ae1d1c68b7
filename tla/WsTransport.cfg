SPECIFICATION Spec
CONSTANTS
    Scripts <- MCScripts
    Addresses = 2
    ShortLen = 2
    MaxMessage = 3
    MaxHead = 1
    Chunk = 2
    MaxSends = 1
INVARIANTS TypeOK MessageWhole OrphanExplained
PROPERTIES ImplementsChannel WaitsEnd
CHECK_DEADLOCK FALSE
