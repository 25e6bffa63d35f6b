SPECIFICATION Spec
CONSTANTS
    w1 = w1
    w2 = w2
    s1 = s1
    s2 = s2
    s3 = s3
    l1 = l1
    l2 = l2
    u1 = u1
    u2 = u2
    u3 = u3
    None = None
    Worker = {w1, w2}
    Snapshot = {s1}
    Label = {l1}
    Owner = {u1, u2, u3}
    LabelOf <- MCLabelOf
    Notional <- MCNotional
    Supervision = {TRUE, FALSE}
    ShadowModes = {FALSE}
    TTL = 1
    Retention = 2
    MaxAge = 1
    MaxActive = 1
    MaxRoutes = 1
    MaxNotional = 9
    Cooldown <- NoCooldown
    LabelCooldown <- NoCooldown
    Window = 1
    MaxLaunches = 9
    MaxLabelLaunches = 9
    MaxStall = 1
    MaxTime = 3
    MaxRecords = 4
SYMMETRY Symmetry
INVARIANTS
    TypeOK
    LeasesApart
    SupervisedLaunchesOnce
CHECK_DEADLOCK FALSE
