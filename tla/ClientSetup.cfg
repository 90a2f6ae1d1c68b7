SPECIFICATION Spec
CONSTANTS
    Objects = {a, b}
    Devices = {d1, d2}
    NoDevice = nodevice
    Environments <- MCEnvironments
    Urls <- MCUrls
    PortSpace = 4
    Elides = TRUE
    MaxConns = 2
INVARIANTS TypeOK OneOwner DeviceIdentity
SYMMETRY Symmetry
