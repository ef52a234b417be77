SPECIFICATION Spec
CONSTANTS
    Providers = {small, large}
    MAX_EDS = 2
    FirstPid = 30
    Gaps = {1, 16}
    MaxTime = 3
SYMMETRY ProviderSymmetry
INVARIANTS
    BalancerUsable
    RegisteredServes
    DeadNeedsEarlyRead
    SameSeedNeedsGap
CHECK_DEADLOCK FALSE
