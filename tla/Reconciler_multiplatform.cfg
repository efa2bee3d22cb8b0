SPECIFICATION FairSpec
CONSTANTS
    t1 = t1
    t2 = t2
    c1 = c1
    c2 = c2
    c3 = c3
    c4 = c4
    Containers = {c2}
    Tags = {t1}
    Images = {x, y}
    NoImage = NoImage
    Ref <- OneTag
    Foreign = {}
    Managed = {}
    Pinned = {c2}
    PinStripped = FALSE
    CriteriaTag = NoTag
    NoTag = NoTag
    MultiPlatform = {y}
    DryRun = FALSE
    CleanupOldImages = TRUE
    MaxPushes = 0
    MaxFaults = 0
    MaxUserActions = 0
PROPERTY PinnedNeverUpdated
