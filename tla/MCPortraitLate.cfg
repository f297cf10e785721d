CONSTANTS
    r1 = r1
    r2 = r2
    a = a
    b = b
    Requests = {r1, r2}
    Keys = {a, b}
    NoKey = NoKey
    Nobody = Nobody
    MaxLate = 1
SPECIFICATION Spec
SYMMETRY Interchangeable
INVARIANT NoCitedImageMissing
