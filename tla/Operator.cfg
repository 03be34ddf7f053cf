SPECIFICATION FairSpec
CONSTANTS
    Quota = 3
    MaxReplicas = 2
    MaxGen = 2
    MaxDisturbance = 1
INVARIANTS
    SettledMeansDone
    AccountsComeFirst
PROPERTY
    Converges
CHECK_DEADLOCK FALSE
