SPECIFICATION FairSpec
CONSTANTS
    d1 = d1
    d2 = d2
    n1 = n1
    s1 = s1
    s2 = s2
    Docs <- MCDocs
    Skus <- MCSkus
    SkuOf <- MCSkuOf
    Enabled <- MCSkus
    Noise = {n1}
    Blank = {d1}
    Runners = {worker}
    Limit = 3
    MaxMentions = 1
    UpsertBatch = 1
    MaxFaults = 0
PROPERTY PeersNotBlocked
