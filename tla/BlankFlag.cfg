CONSTANTS
    c1 = c1
    c2 = c2
    c3 = c3
    earlier = earlier
    p = p
    q = q
    old = old
    new = new
    here = here
    elsewhere = elsewhere
    None = None
    Blank = Blank
    Garbled = Garbled
    Spliced = Spliced
    Client = {c1, c2}
    Random = {c1, c2, earlier}
    Password = {old, new}
    Project = {p, q}
    Value = {}
    Env = {}
    Name = {}
    Token = {"good", "wrong"}
    AuthToken = "good"
    Url = {"home"}
    Home = "home"
    Device = {here, elsewhere}
    ThisDevice = here
    Trim <- MCTrim
    Rank <- MCRank
    FirstPassword <- MCFirst
    EarlierFiles <- Earlier
    Jobs <- BlankJobs
    Faults = {}

SPECIFICATION Spec
PROPERTIES
    SuppliedNotAsked
