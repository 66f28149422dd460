SPECIFICATION PageSpec
CONSTANTS
    Requests = {r0, r1, r2}
    Nobody = Nobody
    Earlier = r0
    Limit = 3
    MaxEvents = 1
    Clocks = {1, 4}
    MaxConversations = 2
INVARIANTS
    PageTypeOK
    TurnsDoNotInterleave
    HistoryIsThePast
    EndsCleanly
    FollowUpsStayVisible
    PageIsTrue
PROPERTIES
    ImplementsTurnLog
    EverythingEnds
CHECK_DEADLOCK FALSE
