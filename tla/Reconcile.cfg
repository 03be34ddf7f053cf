SPECIFICATION Spec
CONSTANTS
    Specs <- MCSpecs
    Flapping = {"scheduler", "workers", "routes"}
    Rejectable = {"workers"}
    Conflicting = FALSE
    MaxUid = 2
    MaxGen = 2
    MaxLag = 1
INVARIANTS
    TypeOK
    ReadyIsEarned
    NotReadyIsExplained
    QuiescentIsCurrent
    EventsFollowReadiness
PROPERTY
    StatusIsNeverStale
