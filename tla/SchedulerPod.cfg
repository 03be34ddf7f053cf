SPECIFICATION Spec
CONSTANTS
    t1 = t1
    t2 = t2
    Templates <- MCTemplates
    Uids <- MCUids
    Rejections = TRUE
    PodFailures = TRUE
    MaxGen = 3
    MaxLag = 2
INVARIANTS
    TypeOK
    SettledMeansDone
PROPERTY
    DeletesOnlyWhatItSaw
