SPECIFICATION Spec
CONSTANTS
    Names <- MCNames
    FirstWant <- MCFirstWant
    Asks <- MCAsks
    MaxGen = 1
    MaxDisturbance = 1
PROPERTY
    OthersAnnotationsSurvive
CHECK_DEADLOCK FALSE
