SPECIFICATION Spec
CONSTANTS
    Dims = {d1}
    Items = {x}
    Wild = x
    alice = alice
    bob = bob
    Agents = {alice}
    NoAgent = none
    UnitsPerSecond = 1
    MaxTasks = 2
    MaxTime = 4
    MaxChildDepth = 2
    BindWindow = 1
    HolderKeys = {}
    NoKey = nokey
    Workers = {w1}
    Policy <- MCOpenPolicy
    RequestEnvs <- MCNoEnvs
    TTLs = {2}
    MaxTaskTTL = 2
    WatermarkTTL = 2
    DelegateFlags = {TRUE}
    Calls = {"create", "delegate", "revoke", "dashboard"}
    MayRestart = FALSE
    MayOverflow = {FALSE}
    HolderEnvs <- MCNoEnvs
    MaxExtended = 0
PROPERTY RevokedTokensRejected
