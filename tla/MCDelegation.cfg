CONSTANTS
    r1 = r1  r2 = r2  None = None
    TTL = 3
    RefreshAt = 2
    TokenTTLs = {2}
    MaxDelay = 1
    Window = 1
    MaxPerWindow = 2
    Roots = {r1, r2}
    MaxCerts = 3
    MaxTokens = 1
SPECIFICATION FairSpec
INVARIANTS ReadyCanSign RotationKeepsTokens
PROPERTIES ReadyAgain
CHECK_DEADLOCK FALSE
