SPECIFICATION FairSpec
CONSTANTS
    Modes = {"production", "universe", "approved", "executions", "launch_ready", "launch", "system_state", "supervise", "no_flag"}
    None = None
    Caps = {None, 3}
    Interval = 1
    MaxBackoff = 3
    MaxStreak = 3
INVARIANTS
    TypeOK
    DelayFollowsFailures
    AlertsFollowProbes
PROPERTIES
    StopIsHonoured
    ExecutionsAreObserved
