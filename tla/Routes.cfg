SPECIFICATION Spec
CONSTANTS
    RouteSpecs <- MCRouteSpecs
    Rejections = TRUE
    MaxGen = 2
    MaxLag = 1
INVARIANTS
    TypeOK
    WorstReasonIsReported
    SettledMeansDone
PROPERTY
    OthersLeftAlone
