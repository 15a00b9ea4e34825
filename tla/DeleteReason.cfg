CONSTANTS
    old = old
    new = new
    v = v
    dev = dev
    n = n
    padded_n = padded_n
    p = p
    padded_p = padded_p
    None = None
    Blank = Blank
    Client = {c1, c2, c3, c4}
    Random = {c1, c2, c3, c4}
    Password = {old, new}
    Value = {v}
    Project = {p, padded_p}
    Env = {dev}
    Name = {n, padded_n}
    Token = {"good"}
    AuthToken = "good"
    Trim <- MCTrim
    Requests = {}
    Commands <- DeleteCommands
    Faults = {}

SPECIFICATION Spec
SYMMETRY Clients
PROPERTY NotFoundMeansMissingRow
