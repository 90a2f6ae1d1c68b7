SPECIFICATION Spec
CONSTANTS
    HasSecret = TRUE
    Timeout = 1
    LinkCap = 2
    MaxConns = 2
    MaxRequests = 3
INVARIANT RegistrationCrcOnly
