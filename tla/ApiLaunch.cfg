SPECIFICATION Spec
CONSTANTS
    None = None
    Routes = {"r1"}
    Caps = {1, 2}
    Sizes = {2}
    Launchers = {"api"}
    MaxAge = 1
    MinCount = 2
    MinStable = 1
    Keep = 2
    MaxCycle = 1
    Overlaps = {{"cache", "launch"}, {"promo", "launch"}, {"promo", "cache"}}
INVARIANTS
    ApiLaunchIsStable
CHECK_DEADLOCK FALSE
