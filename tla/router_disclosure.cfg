SPECIFICATION Spec
CONSTANTS
    Calls <- MCTwoCalls
    Tool <- MCTwoTools
    Malformed = {}
    Mentions = {m1}
    Unknown = nobody
    MaxToolCalls = 3
    MaxCallsPerReply = 2
    Budgets = {8}
    Codes = {k1, k2}
INVARIANT FailuresDisclosed
CHECK_DEADLOCK FALSE
