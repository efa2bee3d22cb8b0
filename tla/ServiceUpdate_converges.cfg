\* Liveness; no symmetry.
SPECIFICATION FairSpec
CONSTANTS
    Instances = {i1, i2}
    NoOne = NoOne
    Services = {s1}
    Replicas = 1
    MinForceUpdateInterval = 1
    MaxRolloutWait = 3
    StartDelay = 1
    RolloutTime = 2
    MaxPushes = 2
    MaxFaults = 2
PROPERTY Converges
