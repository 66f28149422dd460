---------------------------- MODULE EvaluationProofs ----------------------------
(***************************************************************************)
(* Proofs about SemanticEvaluation, for golden datasets of any size and for *)
(* any run of the router.  That a sum is computed rightly is not needed:    *)
(* nothing proved here depends on the value of a mean.                      *)
(***************************************************************************)
EXTENDS SemanticEvaluation, AgentRouterProofs

-----------------------------------------------------------------------------
(* Gates. *)

\* Of the cases a check applies to, those that fail it are the rest of those that pass.
LEMMA FailingAreTheRest ==
    ASSUME NEW Ids, IsFiniteSet(Ids), NEW ev \in [Ids -> CaseEvaluation],
           NEW d \in Dimensions
    PROVE  /\ IsFiniteSet(Failing(ev, d))
           /\ Cardinality(Failing(ev, d))
                 = Cardinality(Applicable(ev, d)) - Cardinality(Passing(ev, d))
           /\ Cardinality(Applicable(ev, d)) <= Cardinality(Ids)
           /\ Cardinality(Applicable(ev, d)) \in Nat
           /\ Cardinality(Passing(ev, d)) \in Nat
           /\ Cardinality(Failing(ev, d)) \in Nat
           /\ Cardinality(Ids) \in Nat
<1> DEFINE F == Failing(ev, d)
           A == Applicable(ev, d)
           P == Passing(ev, d)
<1>1. DOMAIN ev = Ids
  OBVIOUS
<1>2. \A c \in Ids : ev[c].checks[d] \in Verdicts
  BY DEF CaseEvaluation
<1>3. A \subseteq Ids /\ F \cap P = {} /\ A = F \cup P
  BY <1>1, <1>2 DEF Applicable, Passing, Failing, Verdicts
<1> HIDE DEF F, A, P
<1>4. /\ IsFiniteSet(A) /\ Cardinality(A) <= Cardinality(Ids)
      /\ Cardinality(Ids) \in Nat
  BY <1>3, FS_Subset, FS_CardinalityType
<1>5. IsFiniteSet(P) /\ IsFiniteSet(F)
  BY <1>3, <1>4, FS_Subset
<1>6. Cardinality(F \cup P)
         = Cardinality(F) + Cardinality(P) - Cardinality(F \cap P)
  BY <1>5, FS_Union
<1>7. /\ Cardinality(A) \in Nat /\ Cardinality(P) \in Nat /\ Cardinality(F) \in Nat
      /\ Cardinality(F \cap P) = 0
  BY <1>3, <1>4, <1>5, FS_CardinalityType, FS_EmptySet
<1>8. Cardinality(F) = Cardinality(A) - Cardinality(P)
  BY <1>3, <1>6, <1>7
<1> QED
  BY <1>4, <1>5, <1>7, <1>8 DEF F, A, P

\* Where as many cases pass as the check applies to, none fails.
LEMMA NoneFails ==
    ASSUME NEW Ids, IsFiniteSet(Ids), NEW ev \in [Ids -> CaseEvaluation],
           NEW d \in Dimensions,
           Cardinality(Applicable(ev, d)) - Cardinality(Passing(ev, d)) <= 0
    PROVE  Failing(ev, d) = {}
<1>1. IsFiniteSet(Failing(ev, d)) /\ Cardinality(Failing(ev, d)) \in Nat
      /\ Cardinality(Failing(ev, d)) <= 0
  BY FailingAreTheRest
<1> QED
  BY <1>1, FS_EmptySet

\* A release passes only on a complete evaluation without a violation, with at most one
\* case in ten routed wrongly, whatever the number of cases and the judge's scores.
THEOREM PassIsSound ==
    ASSUME NEW Ids, IsFiniteSet(Ids), NEW ev \in [Ids -> CaseEvaluation]
    PROVE  PassIsEarned(ev)
<1> SUFFICES ASSUME OverallPassed(ev) PROVE PassIsEarned(ev)
  BY DEF PassIsEarned
<1>0. DOMAIN ev = Ids
  OBVIOUS
<1>1. Gates(ev) /\ \A c \in Ids : "infrastructure" \notin FailureCategories(ev[c])
  BY <1>0 DEF OverallPassed
<1>2. \A c \in Ids : ~ev[c].error
  BY <1>1 DEF FailureCategories
<1>3. \A d \in {"routing", "abstention", "follow_up", "numeric"} : Applicable(ev, d) # {}
  BY <1>1 DEF Gates, ShareGate
<1>4. \A d \in {"cross_tier", "provenance"} : Applicable(ev, d) # {} /\ Violations(ev, d) = 0
  BY <1>1 DEF Gates, ViolationGate
<1>5. \A c \in Ids : ~(ev[c].judge.given /\ ev[c].judge.unsupported)
  BY <1>0, <1>1 DEF Gates, UnsupportedGate, Judged
<1>6. \E c \in Ids : ev[c].judge.given /\ ev[c].required
  BY <1>0, <1>1 DEF Gates, MeanGate, Scored, Judged
<1>7. Failing(ev, "numeric") = {}
  <2>1. "numeric" \in Dimensions
    BY DEF Dimensions
  <2>2. 100 * Cardinality(Passing(ev, "numeric")) >= 100 * Cardinality(Applicable(ev, "numeric"))
    BY <1>1 DEF Gates, ShareGate
  <2>3. /\ Cardinality(Passing(ev, "numeric")) \in Nat
        /\ Cardinality(Applicable(ev, "numeric")) \in Nat
    BY <2>1, FailingAreTheRest
  <2>4. Cardinality(Applicable(ev, "numeric")) - Cardinality(Passing(ev, "numeric")) <= 0
    BY <2>2, <2>3
  <2> QED
    BY <2>1, <2>4, NoneFails
<1>8. \A d \in {"cross_tier", "provenance"} : Failing(ev, d) = {}
  <2> TAKE d \in {"cross_tier", "provenance"}
  <2>1. d \in Dimensions
    BY DEF Dimensions
  <2>2. Cardinality(Applicable(ev, d)) - Cardinality(Passing(ev, d)) <= 0
    BY <1>4 DEF Violations
  <2> QED
    BY <2>1, <2>2, NoneFails
<1>9. 10 * Cardinality(Failing(ev, "routing")) <= Cardinality(Ids)
  <2> DEFINE F == Cardinality(Failing(ev, "routing"))
             A == Cardinality(Applicable(ev, "routing"))
             P == Cardinality(Passing(ev, "routing"))
  <2>1. "routing" \in Dimensions
    BY DEF Dimensions
  <2>2. 100 * P >= 90 * A
    BY <1>1 DEF Gates, ShareGate
  <2>3. /\ F = A - P /\ A <= Cardinality(Ids)
        /\ F \in Nat /\ A \in Nat /\ P \in Nat /\ Cardinality(Ids) \in Nat
    BY <2>1, FailingAreTheRest
  <2> HIDE DEF F, A, P
  <2>4. 10 * F <= Cardinality(Ids)
    BY <2>2, <2>3
  <2> QED
    BY <2>4 DEF F
<1>10. \A d \in Dimensions \ {"citation"} : Applicable(ev, d) # {}
  BY <1>3, <1>4 DEF Dimensions
<1> QED
  BY <1>0, <1>2, <1>5, <1>6, <1>7, <1>8, <1>9, <1>10 DEF PassIsEarned

-----------------------------------------------------------------------------
(* Golden cases. *)

\* A well-formed golden case can be passed by some traced result exactly if it allows
\* the retrieval that its citations require: validate_expectations lets through cases
\* that no result can pass, and these are all of them.
THEOREM CasesPassable ==
    ASSUME NEW g \in GoldenCase, WellFormed(g), Mentions # {}
    PROVE  (\E r \in RunResult : Traced(r) /\ CanPass(g, r))
              <=> (g.citations = "required" => "tool_rag" \in g.allowed)
<1>1. ASSUME NEW r \in RunResult, Traced(r), CanPass(g, r), g.citations = "required"
      PROVE  "tool_rag" \in g.allowed
  <2>1. Checks(g, r)["citation"] # "failed" /\ Checks(g, r)["routing"] # "failed"
    BY <1>1 DEF CanPass, Dimensions
  <2>2. r.ragReturned
    BY <1>1, <2>1 DEF Checks, CheckCitations, Verdict
  <2>3. r.used \subseteq g.allowed
    BY <2>1 DEF Checks, CheckRouting, Verdict
  <2> QED
    BY <1>1, <2>2, <2>3 DEF Traced
<1>2. ASSUME g.citations = "required" => "tool_rag" \in g.allowed
      PROVE  \E r \in RunResult : Traced(r) /\ CanPass(g, r)
  <2> DEFINE r == [status |-> IF g.abstain THEN "abstained" ELSE "success",
                   used |-> g.allowed, executed |-> 0, maximum |-> 0,
                   ragReturned |-> "tool_rag" \in g.allowed,
                   cites |-> IF g.citations = "required" THEN Mentions ELSE {},
                   sound |-> TRUE, numbers |-> g.numbers, skus |-> g.skus,
                   tierNoted |-> TRUE, winner |-> FALSE]
  <2>1. r \in RunResult
    BY DEF RunResult, GoldenCase
  <2>2. Traced(r)
    BY DEF Traced
  <2>3. CheckRouting(g, r) # "failed"
    BY DEF CheckRouting, Verdict, WithinLimit, WellFormed
  <2>4. CheckNumeric(g, r) # "failed" /\ CheckProvenance(r) # "failed"
        /\ CheckFollowUp(g, r) # "failed" /\ CheckCrossTier(g, r) # "failed"
    BY DEF CheckNumeric, CheckProvenance, CheckFollowUp, CheckCrossTier, Verdict
  <2>5. CheckCitations(g, r) # "failed"
    <3>1. g.citations \in {"required", "forbidden", "optional"}
      BY DEF GoldenCase, Sources
    <3> QED
      BY <1>2, <3>1 DEF CheckCitations, Verdict
  <2>6. CheckAbstention(g, r) # "failed"
    BY DEF CheckAbstention, Verdict
  <2> HIDE DEF r
  <2>7. CanPass(g, r)
    BY <2>3, <2>4, <2>5, <2>6 DEF CanPass, Checks, Dimensions
  <2> QED
    BY <2>1, <2>2, <2>7
<1> QED
  BY <1>1, <1>2

-----------------------------------------------------------------------------
(* The results of the router. *)

RagReturned == \E x \in results : x.tool = "tool_rag" /\ x.status \in {"success", "partial"}

\* There is evidence only if retrieval returned some, and no answer repeats a citation.
ResultInv ==
    /\ evidence # {} => RagReturned
    /\ outcome \in {"success", "partial"} => ~answer.repeats

LEMMA ResultInitially == Init => ResultInv
  BY DEF Init, ResultInv

LEMMA ResultPreserved == Base /\ ResultInv /\ [Next]_vars => ResultInv'
<1> SUFFICES ASSUME Base, ResultInv, [Next]_vars PROVE ResultInv'
  OBVIOUS
<1>1. CASE TalkOnly
  <2>1. results' = results /\ evidence' = evidence
    BY <1>1, TalkLeavesTally DEF tally
  <2>2. CASE \E a \in Replies : Finalize(a)
    BY <2>1, <2>2 DEF Finalize, Ended, CitationsHold, ResultInv, RagReturned
  <2>3. CASE ~\E a \in Replies : Finalize(a)
    <3>1. outcome' \notin {"success", "partial"}
      BY <1>1, <2>3 DEF TalkOnly, ModelFails, RepromptModel, NothingReplied,
            AskForCorrection, AnswerGiven, CorrectionGiven, TooManyRounds, Asking,
            ControlledError, Ended, verdict, Base, RoundsAccounted
    <3> QED
      BY <2>1, <3>1 DEF ResultInv, RagReturned
  <2> QED
    BY <2>2, <2>3
<1>2. ASSUME NEW x \in Results, ToolReturns(x) PROVE ResultInv'
  BY <1>2 DEF ToolReturns, Retrieved, ResultInv, RagReturned, verdict
<1>3. ASSUME NEW cs \in Requests, RequestTools(cs) PROVE ResultInv'
  BY <1>3 DEF RequestTools, ControlledError, Ended, verdict, ResultInv, RagReturned
<1>4. CASE RefuseCall
  BY <1>4 DEF RefuseCall, verdict, ResultInv, RagReturned
<1>5. CASE StartTool
  BY <1>5 DEF StartTool, verdict, ResultInv, RagReturned
<1>6. CASE ToolRaises
  BY <1>6 DEF ToolRaises, verdict, ResultInv, RagReturned
<1>7. CASE EndOfRound
  BY <1>7 DEF EndOfRound, ControlledError, Ended, tally, verdict, ResultInv, RagReturned
<1>8. CASE UNCHANGED vars
  BY <1>8 DEF vars, tally, verdict, ResultInv, RagReturned
<1> QED
  BY <1>1, <1>2, <1>3, <1>4, <1>5, <1>6, <1>7, <1>8 DEF Next, TalkOnly

\* What the invariants of the router say of a result.
LEMMA ResultsPassChecks == Base /\ AnswersInv /\ ResultInv => ChecksFitTheRouter
<1> SUFFICES ASSUME Base, AnswersInv, ResultInv PROVE ChecksFitTheRouter
  OBVIOUS
<1> DEFINE r == RouterResult
<1>1. WithinLimit(r)
  BY DEF WithinLimit, RouterResult, Base, ExecutionsInv, ExecutionsBounded
<1>2. r.cites # {} => /\ outcome \in {"success", "partial"}
                      /\ r.cites \subseteq evidence
  BY DEF RouterResult, AnswersInv, AnswerIsGrounded
<1>3. r.cites # {} => r.ragReturned /\ r.sound
  <2>1. r.sound = ~answer.repeats /\ r.ragReturned = RagReturned
    BY DEF RouterResult, RagReturned
  <2> QED
    BY <1>2, <2>1 DEF ResultInv
<1>4. CheckProvenance(r) # "failed"
  BY <1>3 DEF CheckProvenance, Verdict
<1>5. r.status = "abstained" => r.cites = {}
  BY DEF RouterResult
<1> HIDE DEF r
<1>6. ASSUME NEW s \in Sources
      PROVE  LET g == [citations |-> s, abstain |-> s = "forbidden"]
                 cited == CheckCitations(g, r)
             IN  /\ s = "required" => (cited = "passed" <=> r.cites # {})
                 /\ CheckAbstention(g, r) = "passed" => cited = "passed"
  BY <1>3, <1>5 DEF Sources, CheckCitations, CheckAbstention, Verdict
<1> QED
  BY <1>1, <1>4, <1>6 DEF ChecksFitTheRouter, r

\* No result of the router fails the evaluation for its number of calls or for the
\* provenance of a citation, and citations are always found to follow a retrieval.
THEOREM ChecksAgree == Spec => []ChecksFitTheRouter
  BY BaseInitially, BasePreserved, AnswersInitially, AnswersPreserved, ResultInitially,
     ResultPreserved, ResultsPassChecks, PTL DEF Spec
=============================================================================
