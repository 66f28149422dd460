SPECIFICATION FairSpec
CONSTANTS
    c1 = c1
    e1 = e1
    e2 = e2
    e3 = e3
    Calls <- MCCalls
    Kind <- MCKind
    Cap <- MCCap
    Nobody = Nobody
INVARIANTS
    AcceptanceTypeOK
    RecordIsTrue
PROPERTIES
    StopsAtFailure
    RunEnds
CHECK_DEADLOCK FALSE
