SPECIFICATION FairSpec
CONSTANTS
    t1 = t1
    t2 = t2
    c1 = c1
    c2 = c2
    c3 = c3
    c4 = c4
    Containers = {c1, c2}
    Tags = {t1}
    Images = {x, y}
    NoImage = NoImage
    Ref <- OneTag
    Foreign = {}
    Managed = {}
    Pinned = {}
    PinStripped = FALSE
    CriteriaTag = NoTag
    NoTag = NoTag
    MultiPlatform = {}
    DryRun = FALSE
    CleanupOldImages = TRUE
    MaxPushes = 1
    MaxFaults = 1
    MaxUserActions = 1
PROPERTY FailedRecreateKeepsImage
