CONSTANTS
    r1 = r1
    a = a
    e1 = e1
    e2 = e2
    t1 = t1
    t2 = t2
    Requests = {r1}
    Keys = {a}
    NoKey = NoKey
    Nobody = Nobody
    MaxLate = 0
    Editors = {e1, e2}
    Contents = {t1, t2}
    MaxVersion = 3
SPECIFICATION FairProfileSpec
INVARIANTS ProfileInv
PROPERTIES KeepsDocument EveryoneAnswered
