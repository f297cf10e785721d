CONSTANTS
    u1 = u1
    u2 = u2
    x = x
    d = d
    o1 = o1
    o2 = o2
    i1 = i1
    i2 = i2
    i3 = i3
    i4 = i4
    Uploaders = {u1, u2}
    Removers = {x}
    Reorderers = {o1, o2}
    Deleters = {d}
    Images = {i1, i2, i3, i4}
    GalleryMax = 2
    Nobody = Nobody
    MaxLate = 2
    MaxRank = 2
    RoomyMax = 3
SPECIFICATION GallerySpec
SYMMETRY Interchangeable
INVARIANTS IInv ObjectsAccounted BoundedOvershoot RanksDistinct
