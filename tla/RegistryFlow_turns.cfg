SPECIFICATION FairSpec
CONSTANTS
    Names <- AllNames
    Dotted <- DottedNames
    EcrHosts <- EcrHostNames
    GcrHosts <- GcrHostNames
    Account <- EcrHost
    Images <- AllImages
    TagOrder <- VersionTags
    Routers <- AllRouters
    Criteria <- AllCriteria
    Anonymous = {"hub"}
    MaxPushes = 3
    None = None
INVARIANTS TypeOK AsksForTheImage PullHasOwnCredentials FirstLoginAtOwnHost RetryHasNewToken NotOlder
PROPERTIES SkipsForeignOnly TurnEnds
