CONSTANTS
    Keys = {1, 2, 3, 4, 5}
    Uninitialised = {1, 2, 3}
    Noisy = {3, 4}
    RateOf <- MCRateOf
    Signals <- MCSignals
    StationOf <- MCStationOf
    SatelliteOf <- MCSatelliteOf
    Pivot = "a"
    CodeKeys <- MCCodeKeys
    AmbiguityOf <- MCAmbiguityOf
    OutageLimit = 1
    RejectLimit = 2
    MaxRejects = 1
    Lags <- MCLags
    MaxTime = 4
    MaxRuns = 2
SPECIFICATION Spec
INVARIANTS TypeOK LsqSeesNew MeasurementsHaveStates BadAmbiguitiesGo
    SmoothsStepByStep SmoothedIsLagged EveryStepSmoothed ArchiveBounded
PROPERTY NamesKept
CHECK_DEADLOCK FALSE
