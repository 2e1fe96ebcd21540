SPECIFICATION FairSpec
CONSTANTS
    a1 = a1
    web = web
    db = db
    op = op
    None = None
    Agents <- MCAgents
    Targets <- MCTargets
    Roles <- MCRoles
    Policies <- OnePolicy
    Durations = {0, 1}
    Workers = {w1}
    Toggled = {web, db}
    MaxSignTTL = 2
    Grace = 1
    MaxTime = 5
    MaxCerts = 2
    MaxPending = 1
PROPERTY ExpiredCertsLeave
