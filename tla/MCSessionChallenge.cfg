CONSTANTS
    c1 = c1
    c2 = c2
    p1 = p1
    p2 = p2
    s1 = s1
    s2 = s2
    k1 = k1
    k2 = k2
    k3 = k3
    Clients = {c1, c2}
    Passwords = {p1, p2}
    Secrets = {s1, s2}
    NoSecret = NoSecret
    NoUser = NoUser
    Codes <- AllCodes
    Batches <- TwoBatches
    MaxVersion = 2
SPECIFICATION SessionSpec
SYMMETRY Interchangeable
INVARIANT PasswordInForce
CHECK_DEADLOCK FALSE
