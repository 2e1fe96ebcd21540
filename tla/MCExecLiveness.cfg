SPECIFICATION FairSpec
CONSTANTS
    alice = alice
    bob = bob
    h1 = h1
    h2 = h2
    r1 = r1
    good = good
    bad = bad
    None = None
    Agents = {alice}
    Targets = {h1}
    Roles = {r1}
    Commands = {good, bad}
    Access <- MCAccess
    Policies <- TwoPolicies
    Envelopes <- WideOrEmpty
    Workers = {w1, w2}
    Cleaner = cleaner
    Toggled = {h1}
    MaySilence = {h1}
    MaxPerAgent = 1
    MaxIdle = 1
    MaxTime = 2
    MaxConns = 1
PROPERTIES
    IdleSessionsClose
    CallsAnswered
