SPECIFICATION Spec
CONSTANTS
    FirstSpecs <- MCFirstSpecs
    FieldValues <- MCFieldValues
    MaxDiffering = 2
INVARIANTS
    PodsFollowSpec
    RunsSupportedRelease
    PathsAreBacked
    TrafficReachesScheduler
    UserPartsSurvive
    OnlyCollisionsAreRejected
PROPERTY
    WorkerEditsSpareScheduler
