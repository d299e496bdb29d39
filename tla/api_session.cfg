SPECIFICATION Spec
CONSTANTS
    a = a
    b = b
    Clones = {a, b}
    TokenTtl = 2
    MaxTime = 3
    MaxTokens = 3
    MaxRestarts = 1
SYMMETRY CloneSymmetry
INVARIANTS TypeOK AtMostOnce
PROPERTIES RefreshSuffices AuthorisedOnly
