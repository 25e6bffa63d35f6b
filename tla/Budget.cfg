SPECIFICATION Spec
CONSTANTS
    w1 = w1
    w2 = w2
    s1 = s1
    s2 = s2
    s3 = s3
    l1 = l1
    l2 = l2
    u1 = u1
    u2 = u2
    u3 = u3
    None = None
    Worker = {w1}
    Snapshot = {s1, s3}
    Label = {l1, l2}
    Owner = {u1, u2, u3}
    LabelOf <- MCLabelOf
    Notional <- MCNotional
    Supervision = {FALSE}
    ShadowModes = {TRUE, FALSE}
    TTL = 1
    Retention = 2
    MaxAge = 1
    MaxActive = 2
    MaxRoutes = 2
    MaxNotional = 5
    Cooldown = 1
    LabelCooldown <- NoCooldown
    Window = 2
    MaxLaunches = 2
    MaxLabelLaunches = 1
    MaxStall = 0
    MaxTime = 3
    MaxRecords = 3
SYMMETRY Symmetry
INVARIANTS
    ActiveWithinLimit
    NotionalWithinBudget
    LaunchRateWithinCap
CHECK_DEADLOCK FALSE
