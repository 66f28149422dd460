--------------------------- MODULE SemanticEvaluation ---------------------------
(***************************************************************************)
(* The release evaluation of shared/eval: the golden cases of               *)
(* semantic_golden.py, the deterministic checks and the release gates of    *)
(* rag_eval.py, over the results of the router.                             *)
(*                                                                          *)
(* These are pure functions.  An evaluation ev maps the case ids of a       *)
(* dataset to what was found out about each; scores are compared as         *)
(* fractions of whole numbers, a judge's score is a percentage.  What an    *)
(* answer says is reduced to what a check looks for in it: the numbers it   *)
(* contains, whether it mentions the capacity tier, whether it names a      *)
(* winner.                                                                  *)
(***************************************************************************)
EXTENDS AgentRouter, FiniteSetsExt

CONSTANT Codes    \* SKU codes

Sources == {"required", "forbidden", "optional"}

GoldenCase == [required : SUBSET Approved, allowed : SUBSET Approved,
               forbidden : SUBSET Approved, numbers : SUBSET Nat, citations : Sources,
               abstain : BOOLEAN, followUp : BOOLEAN, skus : SUBSET Codes,
               sameTier : BOOLEAN, compares : BOOLEAN]

\* validate_expectations: a case that contradicts itself is rejected.
WellFormed(g) ==
    /\ g.required \subseteq g.allowed
    /\ g.forbidden \cap (g.required \cup g.allowed) = {}
    /\ g.abstain => g.citations = "forbidden" /\ g.numbers = {}

\* AgentRunResult and the text of the answer, as the checks read them.
RunResult == [status : {"success", "partial", "abstained", "error"},
              used : SUBSET Approved, executed : Nat, maximum : Nat,
              ragReturned : BOOLEAN, cites : SUBSET Mentions, sound : BOOLEAN,
              numbers : SUBSET Nat, skus : SUBSET Codes, tierNoted : BOOLEAN,
              winner : BOOLEAN]

\* A tool that returned has left a trace.
Traced(r) == r.ragReturned => "tool_rag" \in r.used

-----------------------------------------------------------------------------
(* The deterministic checks. *)

Verdicts == {"n/a", "passed", "failed"}
Verdict(applicable, passed) ==
    IF ~applicable THEN "n/a" ELSE IF passed THEN "passed" ELSE "failed"

WithinLimit(r) == r.executed <= r.maximum

\* Every traced call counts as use of its tool, also one that was refused or raised.
CheckRouting(g, r) ==
    Verdict(TRUE, /\ g.required \subseteq r.used
                  /\ r.used \subseteq g.allowed
                  /\ r.used \cap g.forbidden = {}
                  /\ WithinLimit(r))

CheckNumeric(g, r) == Verdict(g.numbers # {}, g.numbers \subseteq r.numbers)

\* Mutant: citations are asked of a case in which evidence was retrieved.
CheckCitationsOnRetrieval(g, r) ==
    CASE g.citations = "optional" -> "n/a"
      [] g.citations = "required" -> Verdict(TRUE, r.ragReturned)
      [] OTHER -> Verdict(TRUE, r.cites = {})

CheckCitations(g, r) ==
    CASE g.citations = "optional" -> "n/a"
      [] g.citations = "required" -> Verdict(TRUE, r.cites # {} /\ r.ragReturned)
      [] OTHER -> Verdict(TRUE, r.cites = {})

CheckProvenance(r) == Verdict(r.cites # {}, r.sound)

CheckAbstention(g, r) == Verdict(g.abstain, r.status = "abstained")

CheckFollowUp(g, r) == Verdict(g.followUp, g.skus \subseteq r.skus)

\* Two SKUs that need not be of one tier, in a question that says "compare".
CheckCrossTier(g, r) ==
    Verdict(Cardinality(g.skus) >= 2 /\ ~g.sameTier /\ g.compares,
            r.tierNoted /\ ~r.winner)

Dimensions == {"routing", "numeric", "citation", "provenance", "abstention",
               "follow_up", "cross_tier"}

Checks(g, r) ==
    [routing |-> CheckRouting(g, r), numeric |-> CheckNumeric(g, r),
     citation |-> CheckCitations(g, r), provenance |-> CheckProvenance(r),
     abstention |-> CheckAbstention(g, r), follow_up |-> CheckFollowUp(g, r),
     cross_tier |-> CheckCrossTier(g, r)]

-----------------------------------------------------------------------------
(* The evaluation of one case and of a dataset. *)

Percent == 0..100
Null == -1          \* a score the judge leaves out

\* JudgeAssessment, or none (given is FALSE).
Assessment == [given : BOOLEAN, answer : Percent, retrieval : Percent \cup {Null},
               grounded : Percent \cup {Null}, unsupported : BOOLEAN]
NoAssessment == [given |-> FALSE, answer |-> 0, retrieval |-> Null, grounded |-> Null,
                 unsupported |-> FALSE]

CaseEvaluation == [checks : [Dimensions -> Verdicts], required : BOOLEAN,
                   judge : Assessment, error : BOOLEAN]

\* required: the check says "Required citations ...".
EvaluateCase(g, r, assessment, judgeFails) ==
    [checks |-> Checks(g, r), required |-> g.citations = "required",
     judge |-> IF judgeFails THEN NoAssessment ELSE assessment, error |-> judgeFails]

\* The executor raised, or no result was observed.
Unevaluated == [checks |-> [d \in Dimensions |-> "n/a"], required |-> FALSE,
                judge |-> NoAssessment, error |-> TRUE]

\* The cases in observed have a result; the judge fails for those of raising.
RunDataset(golden, observed, assessments, raising) ==
    [c \in DOMAIN golden |->
        IF c \in DOMAIN observed
        THEN EvaluateCase(golden[c], observed[c], assessments[c], c \in raising)
        ELSE Unevaluated]

\* A persisted run: results of unknown cases are rejected, and a case without an
\* assessment counts as one that was not judged, not as an error.
Accepted(golden, observed) == DOMAIN observed \subseteq DOMAIN golden
EvaluateObservations(golden, observed, assessments) ==
    RunDataset(golden, observed,
               [c \in DOMAIN golden |-> IF c \in DOMAIN assessments THEN assessments[c]
                                                                   ELSE NoAssessment], {})

CategoryOf == [routing |-> "routing", numeric |-> "analytics_data",
               citation |-> "grounding_citation", provenance |-> "grounding_citation",
               abstention |-> "abstention", follow_up |-> "conversation",
               cross_tier |-> "routing"]

FailureCategories(e) ==
    {CategoryOf[d] : d \in {d \in Dimensions : e.checks[d] = "failed"}}
    \cup (IF e.judge.given /\ e.judge.retrieval \in 0..84 THEN {"retrieval"} ELSE {})
    \cup (IF e.judge.given /\ (e.judge.answer < 85 \/ e.judge.unsupported)
          THEN {"grounding_citation"} ELSE {})
    \cup (IF e.error THEN {"infrastructure"} ELSE {})

-----------------------------------------------------------------------------
(* Scores and release gates. *)

Applicable(ev, d) == {c \in DOMAIN ev : ev[c].checks[d] # "n/a"}
Passing(ev, d) == {c \in DOMAIN ev : ev[c].checks[d] = "passed"}
Failing(ev, d) == {c \in DOMAIN ev : ev[c].checks[d] = "failed"}
Judged(ev) == {c \in DOMAIN ev : ev[c].judge.given}

\* Only the answer is scored in every case; the other two where citations are required.
Scored(ev, field) ==
    {c \in Judged(ev) : /\ ev[c].judge[field] # Null
                        /\ field # "answer" => ev[c].required}

\* A gate that nothing was measured for does not pass.
ShareGate(ev, d, percent) ==
    /\ Applicable(ev, d) # {}
    /\ 100 * Cardinality(Passing(ev, d)) >= percent * Cardinality(Applicable(ev, d))

MeanGate(ev, field, percent) ==
    /\ Scored(ev, field) # {}
    /\ MapThenSumSet(LAMBDA c : ev[c].judge[field], Scored(ev, field))
          >= percent * Cardinality(Scored(ev, field))

Violations(ev, d) == Cardinality(Applicable(ev, d)) - Cardinality(Passing(ev, d))
ViolationGate(ev, d) == Applicable(ev, d) # {} /\ Violations(ev, d) = 0

UnsupportedGate(ev) ==
    Judged(ev) # {} /\ \A c \in Judged(ev) : ~ev[c].judge.unsupported

Gates(ev) ==
    /\ ShareGate(ev, "routing", 90)
    /\ MeanGate(ev, "answer", 85)
    /\ MeanGate(ev, "retrieval", 85)
    /\ MeanGate(ev, "grounded", 95)
    /\ ShareGate(ev, "abstention", 90)
    /\ ShareGate(ev, "follow_up", 90)
    /\ ShareGate(ev, "numeric", 100)
    /\ ViolationGate(ev, "cross_tier")
    /\ ViolationGate(ev, "provenance")
    /\ UnsupportedGate(ev)

OverallPassed(ev) ==
    Gates(ev) /\ \A c \in DOMAIN ev : "infrastructure" \notin FailureCategories(ev[c])

-----------------------------------------------------------------------------
(* Properties. *)

\* A release that passes was evaluated completely: every case has a result, at most
\* one case in ten was routed wrongly, no expected number is missing, no citation has
\* a wrong source, no comparison across tiers was decided, and no judged answer makes
\* a critical unsupported claim; and there were cases to measure all this on.
PassIsEarned(ev) ==
    OverallPassed(ev) =>
        /\ \A c \in DOMAIN ev :
              /\ ~ev[c].error
              /\ ~(ev[c].judge.given /\ ev[c].judge.unsupported)
        /\ \A d \in {"numeric", "provenance", "cross_tier"} : Failing(ev, d) = {}
        /\ 10 * Cardinality(Failing(ev, "routing")) <= Cardinality(DOMAIN ev)
        /\ \A d \in Dimensions \ {"citation"} : Applicable(ev, d) # {}
        /\ \E c \in DOMAIN ev : ev[c].judge.given /\ ev[c].required

\* A well-formed case can be passed by some result, provided that one with required
\* citations allows retrieval, which validate_expectations does not ask for.
CanPass(g, r) == \A d \in Dimensions : Checks(g, r)[d] # "failed"

\* The result the router has produced, without the text of its answer.
RouterResult ==
    [status |-> IF outcome = "too_many_rounds" THEN "error" ELSE outcome,
     executed |-> executed,
     maximum |-> MaxToolCalls,
     ragReturned |-> \E x \in results : x.tool = "tool_rag" /\ x.status \in {"success", "partial"},
     cites |-> IF outcome \in {"success", "partial"} THEN answer.cites ELSE {},
     sound |-> ~answer.repeats]

\* What the evaluation checks of a result, whatever the case expects, agrees with what
\* the router guarantees: no case fails for the number of calls or for the provenance
\* of a citation, an answer with citations meets the requirement of citations, and one
\* that abstains as it should has none.
ChecksFitTheRouter ==
    phase = "done" =>
        /\ WithinLimit(RouterResult)
        /\ CheckProvenance(RouterResult) # "failed"
        /\ \A s \in Sources :
              LET g == [citations |-> s, abstain |-> s = "forbidden"]
                  cited == CheckCitations(g, RouterResult)
              IN  /\ s = "required" => (cited = "passed" <=> RouterResult.cites # {})
                  /\ CheckAbstention(g, RouterResult) = "passed" => cited = "passed"
=============================================================================
