SPECIFICATION Spec
CONSTANTS
    r1 = r1
    r2 = r2
    r3 = r3
    r4 = r4
    o1 = o1
    x1 = x1
    k1 = k1
    k2 = k2
    k3 = k3
    Request = {r1, r2}
    Hash = {o1, k1}
    Endpoints = {"pair", "partial_fill_cleanup"}
    KindOf <- MCKindOf
    VenueOf <- MCVenueOf
    MaxConfirmations = 1
PROPERTIES
    ReleaseOnlyWhenNotSubmitted
CHECK_DEADLOCK FALSE
