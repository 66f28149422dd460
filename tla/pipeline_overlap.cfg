SPECIFICATION RetrievalSpec
CONSTANTS
    d1 = d1
    d2 = d2
    s1 = s1
    s2 = s2
    Docs <- MCDocs
    Skus <- MCSkus
    SkuOf <- MCSkuOf
    Enabled <- MCSkus
    Noise = {}
    Blank = {}
    worker = worker
    script = script
    Runners <- MCRunners
    Limit = 1
    MaxMentions = 1
    UpsertBatch = 1
    MaxFaults = 1
    MaxTopK = 1
INVARIANTS
    SearchesAgree
    StoresMatch
    IndexedUpToAnInsert
PROPERTIES
    SetbacksAreBounded
SYMMETRY MCSymmetry
