SPECIFICATION FairSpec
CONSTANTS
    Dims = {d1}
    Items = {x}
    Wild = x
    alice = alice
    bob = bob
    Agents = {alice}
    NoAgent = none
    UnitsPerSecond = 1
    MaxTasks = 2
    MaxTime = 3
    MaxChildDepth = 2
    BindWindow = 1
    HolderKeys = {}
    NoKey = nokey
    Workers = {w1, w2}
    Policy <- MCOpenPolicy
    RequestEnvs <- MCNoEnvs
    TTLs = {1}
    MaxTaskTTL = 2
    WatermarkTTL = 1
    DelegateFlags = {TRUE}
    Calls = {"create", "delegate", "revoke", "dashboard"}
    MayRestart = FALSE
    MayOverflow = {FALSE, TRUE}
    HolderEnvs <- MCNoEnvs
    MaxExtended = 0
INVARIANTS RevokedStaysBlocked KeyOutlivesTokens
PROPERTIES AcceptedMeansUnrevoked RevokedSubtreeDies
