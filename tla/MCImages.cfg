CONSTANTS
    p1 = p1
    p2 = p2
    p3 = p3
    a = a
    b = b
    c = c
    d = d
    r1 = r1
    r2 = r2
    Requests = {p1, p2, p3}
    Keys = {a, b}
    NoKey = NoKey
    Gone = Gone
    Removals = {r1, r2}
    Posts = {p1, p2, p3}
    Pictures = {r1, r2}
    NoPost = NoPost
SPECIFICATION ImagesSpec
SYMMETRY Interchangeable
INVARIANTS TypesOK CoverStored CoversAccounted CitedImagesStored ImagesAccounted
