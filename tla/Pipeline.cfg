SPECIFICATION Spec
CONSTANTS
    None = None
    Routes = {"r1"}
    Caps = {1, 2}
    Sizes = {2}
    Launchers = {"supervisor", "loop"}
    MaxAge = 1
    MinCount = 2
    MinStable = 1
    Keep = 2
    MaxCycle = 1
    Overlaps = {{"cache", "launch"}, {"promo", "launch"}}
INVARIANTS
    TypeOK
    LaunchIsFresh
    LaunchIsStable
CHECK_DEADLOCK FALSE
