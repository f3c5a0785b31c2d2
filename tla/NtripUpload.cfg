CONSTANTS
    Chains = {c1, c2, c3}
    NumEndpoints = 2
    Https = TRUE
    MaxSends = 2
SPECIFICATION FairSpec
INVARIANTS TypeOK MutexHandedOver NeverStranded
PROPERTIES ImplementsChannel SendReturns Reconnects
CHECK_DEADLOCK FALSE
