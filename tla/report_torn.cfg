SPECIFICATION Spec
CONSTANTS
    Requests = {r1, r2}
    Bodies = {b1, b2}
    Summaries = {s1, s2}
    NoReport = NoReport
    Nobody = Nobody
INVARIANT ReportIsACandidate
CHECK_DEADLOCK FALSE
