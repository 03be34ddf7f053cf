SPECIFICATION Spec
CONSTANTS
    Quota = 3
    MaxReplicas = 3
    MaxGen = 3
    MaxDisturbance = 0
INVARIANT
    PoolIsNeverTooLarge
CHECK_DEADLOCK FALSE
