CONSTANTS
    p1 = p1
    p2 = p2
    p3 = p3
    a = a
    b = b
    c = c
    d = d
    Requests = {p1, p2}
    Keys = {a, b}
    NoKey = NoKey
    Gone = Gone
SPECIFICATION Spec
SYMMETRY Interchangeable
INVARIANT NoCoverMissing
