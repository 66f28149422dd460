SPECIFICATION Spec
CONSTANTS
    b1 = b1
    b2 = b2
    d1 = d1
    d2 = d2
    d3 = d3
    d4 = d4
    Batches <- MCBatches
    Docs <- MCDocs
    BatchOf <- MCBatchOf
    Poison <- MCPoison
    Nothing = Nothing
    MaxRetries = 2
    SdkRetries = 1
    Concurrency = 1
    MaxKept = 1
INVARIANTS
    TypeOK
    ResultsAreSound
    RequestsBounded
