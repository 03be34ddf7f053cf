SPECIFICATION FairSpec
CONSTANTS
    Specs <- MCLiveSpecs
    Flapping = {"routes"}
    Rejectable = {}
    Conflicting = TRUE
    MaxUid = 2
    MaxGen = 2
    MaxLag = 2
PROPERTIES
    EveryEditIsObserved
    VerdictIsPublished
    PublishesStatus
