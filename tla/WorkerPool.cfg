SPECIFICATION Spec
CONSTANTS
    p1 = p1
    p2 = p2
    p3 = p3
    t1 = t1
    t2 = t2
    Pods <- MCPods
    Templates <- MCTemplates
    MaxReplicas = 2
    MaxGen = 2
    MaxLag = 1
SYMMETRY MCSymmetry
INVARIANTS
    TypeOK
    UndisturbedPassIsExact
    SettledMeansDone
    ReportIsConsistent
