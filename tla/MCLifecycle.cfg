SPECIFICATION Spec
CONSTANTS
    Dims = {d1}
    Items = {x, star}
    Wild = star
    alice = alice
    bob = bob
    Agents = {alice}
    NoAgent = none
    UnitsPerSecond = 1
    MaxTasks = 3
    MaxTime = 3
    MaxChildDepth = 2
    BindWindow = 1
    HolderKeys = {k1, k2}
    NoKey = nokey
    Workers = {w1}
    Policy <- MCMixedPolicy
    RequestEnvs <- MCSomeEnvs
    TTLs = {1}
    DelegateFlags = {TRUE}
    Calls = {"create", "delegate", "bind", "resource"}
    MayRestart = TRUE
    MaxTaskTTL = 2
    WatermarkTTL = 2
    MayOverflow = {FALSE}
    HolderEnvs <- MCHolderEnvs
    MaxExtended = 1
SYMMETRY KeySymmetry
INVARIANTS RestartInvalidates DelegationAttenuates TokensWithinRoot
PROPERTIES MintAttenuates TasksFormTree
