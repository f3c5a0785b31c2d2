CONSTANTS
    NetworkInputs = 6
    NetworkMax = 5
    UserInputs = 2
    UserMax = 4
    Offset = 1
    Unobserved <- SecondUnobserved
    MaxExcess = 1
    MaxStarts = 2
SPECIFICATION FairSpec
INVARIANTS TypeOK UserFollowsNetwork UserMissesNothing
PROPERTY UserFinishes
CHECK_DEADLOCK FALSE
