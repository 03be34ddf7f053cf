SPECIFICATION FairSpec
CONSTANTS
    t1 = t1
    t2 = t2
    Templates <- MCTemplates
    Uids <- MCUids
    Rejections = FALSE
    PodFailures = FALSE
    MaxGen = 2
    MaxLag = 1
PROPERTIES
    AlwaysRecovers
    ReadinessIsReported
