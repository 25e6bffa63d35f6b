SPECIFICATION Spec
CONSTANTS
    r1 = r1
    r2 = r2
    r3 = r3
    r4 = r4
    o1 = o1
    x1 = x1
    k1 = k1
    k2 = k2
    k3 = k3
    Request = {r1, r2, r3}
    Hash = {o1, x1, k1}
    Endpoints = {"guarded_pair", "pair", "auto_close", "cleanup", "partial_fill_cleanup"}
    KindOf <- MCKindOf
    VenueOf <- MCVenueOf
    MaxConfirmations = 2
SYMMETRY Symmetry
INVARIANTS
    TypeOK
    OneSubmissionPerPreview
    OneSubmissionPerConfirmation
    CompletedPointsToOwnExecution
    SubmittedStaysReserved
    ReservationsReleaseTogether
    OneExecutionPerClosePreview
    NoAnsweredRequestLeavesReservation
PROPERTIES
    CompletedReservationIsFinal
CHECK_DEADLOCK FALSE
