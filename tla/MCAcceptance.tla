------------------------------ MODULE MCAcceptance ------------------------------
(* Acceptance for TLC: an allowance of one chat request and two embeddings,  *)
(* with a call more than that.                                               *)
EXTENDS Acceptance

CONSTANTS c1, e1, e2, e3

MCCalls == {c1, e1, e2, e3}
MCKind == [c \in MCCalls |-> IF c = c1 THEN "chat" ELSE "embedding"]
MCCap == [chat |-> 1, embedding |-> 2]

\* Every number of documents the planner accepts fits into the allowances that
\* run_business_acceptance insists on, with the eight rounds and three tool calls of
\* the router; thirty documents use them up.
ASSUME PlanFits ==
    /\ \A n \in 1..30 : /\ PlannedRequests(n, 8, 3).chat <= 72
                       /\ PlannedRequests(n, 8, 3).embedding <= 24
    /\ PlannedRequests(30, 8, 3) = [chat |-> 72, embedding |-> 24]
=============================================================================
