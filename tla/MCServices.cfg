CONSTANTS
    a1 = a1
    a2 = a2
    v = v
    f1 = f1
    f2 = f2
    i1 = i1
    i2 = i2
    i3 = i3
    Admins = {a1, a2}
    Visitors = {v}
    Files = {f1, f2}
    Ids = {i1, i2, i3}
    Nothing = Nothing
    MaxLate = 1
    r1 = r1
    r2 = r2
    w1 = w1
    w2 = w2
    c1 = c1
    c2 = c2
    Readers = {r1, r2}
    Writers = {w1, w2}
    Contents = {c1, c2}
    NoObject = NoObject
    e1 = e1
    e2 = e2
    p1 = p1
    p2 = p2
    s1 = s1
    s2 = s2
    Editors = {e1, e2}
    Posts = {p1, p2}
    Slugs = {s1, s2}
    Same = Same
    NoPost = NoPost
    b1 = b1
    b2 = b2
    home = home
    about = about
    site = site
    search = search
    phone = phone
    Beacons = {b1, b2}
    Devices = {phone}
    Pages = {home, about}
    Hosts = {site, search}
    Site = site
    Rows = {1, 2}
    Days = {0, 1}
    Limit = 1
    Threshold = 2
    MaxDuration = 2
SPECIFICATION AllSpec
SYMMETRY Interchangeable
INVARIANTS TypesOK CvIsWhole StaleOnlyByOverlap LinksHold CountsAgree
PROPERTIES EngagementKept
CHECK_DEADLOCK FALSE
