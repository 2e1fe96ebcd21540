SPECIFICATION Spec
CONSTANTS
    a1 = a1
    web = web
    db = db
    op = op
    None = None
    Agents <- MCAgents
    Targets <- MCTargets
    Roles <- MCRoles
    Policies <- TwoPolicies
    Durations = {0}
    Workers = {w1, w2}
    Toggled = {web}
    MaxSignTTL = 2
    Grace = 1
    MaxTime = 4
    MaxCerts = 2
    MaxPending = 1
SYMMETRY SymmetricWorkers
INVARIANT CountsMatch
INVARIANT OverrunBounded
INVARIANT IssuedAsEvaluated
INVARIANT ApprovalsBounded
PROPERTY DenialJustified
