SPECIFICATION Spec
CONSTANTS
    Routes = {"r1", "r2", "r3"}
    None = None
    Caps = {1, 3}
    Sizes = {1, 3}
    Target = 4
    Unresolved = {"r3"}
INVARIANTS
    SentBasketIsStored
CHECK_DEADLOCK FALSE
