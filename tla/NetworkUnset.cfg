CONSTANTS
    Keys = {1, 2, 3, 4, 5}
    Uninitialised = {1, 2, 3}
    Noisy = {3, 4}
    RateOf <- MCRateOf
    Signals <- MCSignals
    StationOf <- MCStationOf
    SatelliteOf <- MCSatelliteOf
    Pivot = "a"
    CodeKeys <- MCCodeKeys
    AmbiguityOf <- MCAmbiguityOf
    OutageLimit = 1
    RejectLimit = 2
    MaxRejects = 1
    Lags <- MCLags
    MaxTime = 3
    MaxRuns = 1
SPECIFICATION Spec
INVARIANT UnsetAreSolved
CHECK_DEADLOCK FALSE
