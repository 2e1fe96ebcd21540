CONSTANTS
    s1 = s1  s2 = s2  a1 = a1  short = short  long = long  u1 = u1  get = get
    i1 = i1  i2 = i2  d1 = d1  d2 = d2  c1 = c1  c2 = c2
    None = None  NoTable = NoTable
    Savers = {d1}
    Callers = {c1, c2}
    GrantAgents = {a1}
    Resources = {s1, s2}
    Urls = {u1}
    Methods = {get}
    Prefixes = {short, long}
    Addresses = {i1, i2}
    DefaultTTLs = {1}
    Linger = 1
    MaxGrants = 2
    MaxEvents = 3
    Configs <- MCConfigs
    PrefixLength <- MCLength
    Matching <- MCMatching
    Allowed <- MCAllowed
    Envelope <- MCEnvelope
    Answers <- MCAnswers
    Network <- MCNetwork
    Tables <- MCTables
SPECIFICATION Spec
INVARIANTS PinnedToPolicy SentAsConfigured OneValidGrant
CHECK_DEADLOCK FALSE
