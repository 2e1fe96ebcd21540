CONSTANTS
    d1 = d1  d2 = d2  c1 = c1  c2 = c2  b1 = b1  n1 = n1  a1 = a1  u1 = u1  u2 = u2  good = good  bad = bad
    None = None  NoTable = NoTable  Loop = Loop
    Savers = {d1}
    Callers = {c1}
    Background = {b1}
    GrantAgents = {a1}
    Resources = {n1}
    Args = {good, bad}
    DefaultTTLs = {1}
    Linger = 0
    MaxGrants = 1
    MaxObjects = 2
    MaxEvents = 3
    RefreshAfter = 2
    Configs <- MCConfigs
    Allowed <- MCAllowed
    Backoffs <- MCBackoffs
    Tables <- MCTables
SPECIFICATION FairSpec
INVARIANTS TypeOK FileIsWhole FileFollows OfferedAreOwn
PROPERTIES LoopReconnects
CHECK_DEADLOCK FALSE
