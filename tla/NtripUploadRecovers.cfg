CONSTANTS
    Chains = {c1, c2, c3}
    NumEndpoints = 2
    Https = FALSE
    MaxSends = 2
SPECIFICATION Spec
INVARIANT RecoversFromSocketErrors
CHECK_DEADLOCK FALSE
