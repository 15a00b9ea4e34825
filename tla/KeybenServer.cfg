CONSTANTS
    c1 = c1
    c2 = c2
    s1 = s1
    s2 = s2
    old = old
    new = new
    v = v
    dev = dev
    n = n
    blank = blank
    p = p
    padded = padded
    None = None
    Blank = Blank
    Client = {c1, c2}
    Random = {s1, s2}
    Password = {old, new}
    Value = {v}
    Project = {p, padded}
    Env = {dev}
    Name = {n, blank}
    Token = {"good", "wrong"}
    AuthToken = "good"
    Trim <- MCTrim
    Requests <- MCRequests

SPECIFICATION ServerSpec
INVARIANT ServerInv
PROPERTY ServiceImplemented
