SPECIFICATION FairSpec
CONSTANTS
    Calls <- MCCalls
    Tool <- MCTool
    Malformed <- MCMalformed
    Mentions = {m1, m2}
    Unknown = nobody
    MaxToolCalls = 3
    MaxCallsPerReply = 2
    Budgets = {3, 8}
    Codes = {k1, k2}
INVARIANTS
    TypeOK
    BudgetsHold
    AnswersAreEarned
    ReportMissReconsidered
    ChecksFitTheRouter
PROPERTIES
    CorrectionNeverSkipped
    EveryRequestAnswered
CHECK_DEADLOCK FALSE
