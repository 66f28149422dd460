SPECIFICATION Spec
CONSTANTS
    d1 = d1
    d2 = d2
    n1 = n1
    s1 = s1
    s2 = s2
    Docs <- MCDocs
    Skus <- MCSkus
    SkuOf <- MCSkuOf
    Enabled <- MCSkus
    Noise = {n1}
    Blank = {}
    Runners = {worker, script}
    Limit = 2
    MaxMentions = 1
    UpsertBatch = 1
    MaxFaults = 0
INVARIANT MentionsInsertedOnce
