SPECIFICATION FairSpec
CONSTANTS
    d1 = d1
    d2 = d2
    n1 = n1
    s1 = s1
    s2 = s2
    Docs <- MCDocs
    Skus <- MCSkus
    SkuOf <- MCSkuOf
    Enabled <- MCSkus
    Noise = {n1}
    Blank = {}
    Runners = {worker}
    Limit = 2
    MaxMentions = 2
    UpsertBatch = 1
    MaxFaults = 2
INVARIANTS
    TypeOK
    StatusIsTrue
    MentionsInsertedOnce
PROPERTIES
    EverySettles
    ImplementsLifecycle
