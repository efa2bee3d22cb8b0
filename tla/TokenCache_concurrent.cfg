SPECIFICATION FairSpec
CONSTANTS
    p1 = p1
    p2 = p2
    r1 = r1
    r2 = r2
    Callers = {p1, p2}
    Repositories = {r1, r2}
    Account = r1
    Kinds = {"bearer", "ecr", "gcr"}
    NoToken = NoToken
    NoCaller = NoCaller
    NoKey = NoKey
    Margin = 1
    Timeout = 1
    Lifetimes = {1, 3}
    MaxTime = 3
    MaxIssued = 2
INVARIANT TypeOK
PROPERTIES HandedOutAlive NoNeedlessFetch InvalidatedStaysSo CallsReturn ImplementsService
