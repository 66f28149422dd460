SPECIFICATION AnalyticsSpec
CONSTANTS
    a = a
    b = b
    none = none
    l1 = l1
    l2 = l2
    Skus <- MCSkus
    Seeded = {a}
    NoSku = none
    File <- MCFile
    Loaders <- MCLoaders
    BatchSize = 3
    Limits = {0, 2}
    MaxStops = 1
    Mentions <- MCMentions
    Tier <- MCTier
    NoTier = "unknown"
    Scopes <- MCScopes
    Readers = {1}
INVARIANTS
    AnalyticsTypeOK
    ResponsesAgree
    RacesBounded
    LoadIsComplete
    InsertedAddsUp
CONSTRAINT ReadersOrTwoLoaders
SYMMETRY MCSymmetry
