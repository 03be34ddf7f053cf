SPECIFICATION FairSpec
CONSTANTS
    Names <- MCNames
    FirstWant <- MCFirstWant
    Asks <- MCAsks
    MaxGen = 2
    MaxDisturbance = 2
INVARIANTS
    SettledMeansServed
PROPERTY
    ComesToRest
CHECK_DEADLOCK FALSE
