SPECIFICATION FairSpec
CONSTANTS
    Trade = {t1}
    None = None
    Mode = "enabled"
    Limit = 1
    MaxAge = 0
    MaxHold = 1
    MaxTime = 2
    MaxEntries = 2
INVARIANTS
    TypeOK
PROPERTIES
    RepeatedAlertMeansChange
    ReplacedExecutionStaysOlder
    CheckpointsAdvance
    TroubleIsSeen
    ExpiredHedgeIsClosed
CHECK_DEADLOCK FALSE
