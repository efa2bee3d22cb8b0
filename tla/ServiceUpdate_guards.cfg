\* Two processes on two managers, one service with two local tasks each.
SPECIFICATION Spec
CONSTANTS
    Instances = {i1, i2}
    NoOne = NoOne
    Services = {s1}
    Replicas = 2
    MinForceUpdateInterval = 2
    MaxRolloutWait = 2
    StartDelay = 1
    RolloutTime = 1
    MaxPushes = 2
    MaxFaults = 2
SYMMETRY Symmetric
INVARIANT TypeOK
PROPERTIES BackoffRespected NoSupersede OwnRolloutUndisturbed
