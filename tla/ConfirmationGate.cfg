SPECIFICATION Spec
CONSTANTS
    c1 = c1
    c2 = c2
    c3 = c3
    c4 = c4
    Calls <- MCCalls
    Callers <- MCCallers
    ConfirmCallers <- MCConfirmCallers
    Params = {p, q}
    Guesses = {1, 2}
    TTL = 1
    MaxTime = 2
INVARIANTS TypeOK ExecutedAtMostOnce ExecutedAsApproved OnlyListed NothingVanishes
PROPERTIES DeniedLearnsNothing ImplementsOperation
SYMMETRY Symmetry
