SPECIFICATION MCPageSpec
CONSTANTS
    Requests = {r1, r2}
    Bodies = {b1, b2}
    Summaries = {s1}
    NoReport = NoReport
    Nobody = Nobody
INVARIANTS
    PageTypeOK
    PageIsTruthful
PROPERTIES
    ReportsMoveOn
    EverythingEnds
CHECK_DEADLOCK FALSE
