SPECIFICATION Spec
CONSTANTS
    alice = alice
    bob = bob
    h1 = h1
    h2 = h2
    r1 = r1
    good = good
    bad = bad
    None = None
    Agents = {alice, bob}
    Targets = {h1}
    Roles = {r1}
    Commands = {good}
    Access <- MCAccess
    Policies <- OnePolicy
    Envelopes <- Legacy
    Workers = {w1, w2}
    Cleaner = cleaner
    Toggled = {}
    MaySilence = {}
    MaxPerAgent = 1
    MaxIdle = 1
    MaxTime = 2
    MaxConns = 2
SYMMETRY Symmetric
INVARIANTS
    OverrunBounded
    NothingLeaks
    OwnConnections
PROPERTIES
    ClosedIsFinal
