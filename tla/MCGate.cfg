CONSTANTS
    a1 = a1  a2 = a2  k1 = k1  k2 = k2  t1 = t1  t2 = t2  r1 = r1  r2 = r2  T1 = T1  T2 = T2
    h1 = h1  h2 = h2  login1 = login1  u1 = u1  u2 = u2
    Star = Star  NoKey = NoKey  BadHash = BadHash  NoHost = NoHost  None = None  NoFile = NoFile
    Uids = {u1, u2}
    Keys = {k1, k2}
    CacheTTL = 1
    PerSecond = 2
    MaxEvents = 2
    Files <- MCFiles
    Candidates <- MCCandidates
    Defaults <- MCDefaults
    Updates <- MCUpdates
SYMMETRY Symmetry
SPECIFICATION Spec
INVARIANTS TypeOK CheckersAgree PermsAsConfigured ExecAsConfigured RetrySuffices
PROPERTIES LoginsSurvive LimiterKeepsPromise
