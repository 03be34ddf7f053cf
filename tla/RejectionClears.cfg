SPECIFICATION Spec
CONSTANTS
    Specs <- MCIncarnationSpecs
    Flapping = {"scheduler"}
    Rejectable = {"services"}
    Conflicting = FALSE
    MaxUid = 1
    MaxGen = 1
    MaxLag = 1
INVARIANT
    RejectionClearingRetriggers
