------------------------------ MODULE AgentRouter ------------------------------
(***************************************************************************)
(* FunctionCallingRouter.run of backend/app/agent/router.py: one request,   *)
(* from the first model call to the AgentRunResult.                         *)
(*                                                                          *)
(* A step is one reply of the model, one tool call of a reply handled up to *)
(* its first await, the answer of one tool, or the end of a round.  A call  *)
(* stands for a tool name with its normalized arguments, so that two calls  *)
(* have the same fingerprint exactly if they are the same element of Calls. *)
(* Of a reply the model keeps what the code inspects: the retrieved texts   *)
(* it quotes and the evidence ids it cites.                                 *)
(***************************************************************************)
EXTENDS Integers, Sequences, FiniteSets

CONSTANTS
    Calls,            \* tool calls the model may request
    Tool,             \* the tool a call names
    Malformed,        \* calls whose arguments fail validation
    Mentions,         \* mentions tool_rag may retrieve
    Unknown,          \* a cited id that is no mention's
    MaxToolCalls,     \* MAX_TOOL_CALLS
    MaxCallsPerReply, \* bound on the tool calls of one reply
    Budgets           \* values of max_model_rounds

Approved == {"tool_report", "tool_sql", "tool_rag"}

ASSUME RouterAssumption ==
    /\ Tool \in [Calls -> Approved \cup {"other"}]
    /\ Malformed \subseteq Calls
    /\ Unknown \notin Mentions
    /\ MaxToolCalls \in Nat \ {0}
    /\ MaxCallsPerReply \in Nat \ {0}
    /\ Budgets \subseteq {b \in Nat : b >= 2}

VARIABLES
    budget,       \* max_model_rounds
    phase,        \* where run is
    rounds,       \* model_rounds
    queue,        \* tool calls of this reply, the next one first
    attempted,    \* tool calls requested
    executed,     \* tool calls that reached an executor
    fingerprints, \* calls that reached an executor
    results,      \* what the tools returned
    failures,     \* error codes of the traces without a result
    evidence,     \* mentions retrieved
    forceFinal,   \* no tool is offered any more
    reportMiss,   \* report_miss_needs_reassessment
    reprompted,   \* reprompts sent, each at most once
    answer,       \* the reply that was finalized
    notes,        \* error codes the answer's data notes disclose
    outcome       \* the status of the AgentRunResult

tally == <<attempted, executed, fingerprints, results, failures, evidence>>
modes == <<forceFinal, reportMiss, reprompted>>
verdict == <<answer, notes, outcome>>
vars == <<budget, phase, rounds, queue, tally, modes, verdict>>

Phases == {"ask", "calls", "running", "correct", "done"}
Refusals == {"tool_call_limit_exceeded", "unapproved_tool", "invalid_tool_arguments",
             "duplicate_tool_call"}
Failures == Refusals \cup {"tool_execution_failed"}
Outcomes == {"none", "success", "partial", "abstained", "error", "too_many_rounds"}

\* What a tool returns when it does not raise; not_found is a report that is not stored.
ReportResults == [tool : {"tool_report"}, status : {"success", "not_found", "error"}]

\* capacity_tier_mismatch and capacity_tier_unavailable are the error "capacity_tier".
SqlResults == [tool : {"tool_sql"},
               status : {"success", "partial", "empty", "error", "capacity_tier"}]

RagResults == [tool : {"tool_rag"}, status : {"success", "partial", "empty", "error"}]

Results == ReportResults \cup SqlResults \cup RagResults

Replies == [quotes : SUBSET Mentions, cites : SUBSET (Mentions \cup {Unknown}),
            repeats : BOOLEAN]
NoReply == [quotes |-> {}, cites |-> {}, repeats |-> FALSE]

\* What the answer's data notes may name: failed calls and error results.
Notable == Failures \cup {"error", "capacity_tier"}

TypeOK ==
    /\ budget \in Budgets
    /\ phase \in Phases
    /\ rounds \in Nat
    /\ queue \in Seq(Calls)
    /\ attempted \in Nat
    /\ executed \in Nat
    /\ fingerprints \subseteq Calls
    /\ results \subseteq Results
    /\ failures \subseteq Failures
    /\ evidence \subseteq Mentions
    /\ forceFinal \in BOOLEAN
    /\ reportMiss \in BOOLEAN
    /\ reprompted \subseteq {"report", "unsupported"}
    /\ answer \in Replies
    /\ notes \subseteq Notable
    /\ outcome \in Outcomes

Init ==
    /\ budget \in Budgets
    /\ phase = "ask"
    /\ rounds = 0
    /\ queue = << >>
    /\ attempted = 0
    /\ executed = 0
    /\ fingerprints = {}
    /\ results = {}
    /\ failures = {}
    /\ evidence = {}
    /\ forceFinal = FALSE
    /\ reportMiss = FALSE
    /\ reprompted = {}
    /\ answer = NoReply
    /\ notes = {}
    /\ outcome = "none"

-----------------------------------------------------------------------------
(* Ends of a run. *)

Ended(o) ==
    /\ phase' = "done"
    /\ outcome' = o

ControlledError ==
    /\ Ended("error")
    /\ UNCHANGED <<answer, notes>>

\* A result with a payload, or a constraint the answer can explain.
Supports(x) == x.status \in {"success", "partial", "capacity_tier"}
MaterialSupport == \E x \in results : Supports(x)

NoData == results # {} /\ \A x \in results : x.status \in {"empty", "not_found"}

LimitEvent == "tool_call_limit_exceeded" \in failures

Incomplete ==
    \/ failures \ {"duplicate_tool_call"} # {}
    \/ \E x \in results : x.status \in {"error", "partial"}

\* Mutant: a partial result is noted as an error.
ErrorResultsAndPartial == {x.status : x \in results} \cap {"error", "capacity_tier", "partial"}

ErrorResults == {x.status : x \in results} \cap {"error", "capacity_tier"}

DataNotes == ErrorResults \cup
             (failures \ {"duplicate_tool_call", "tool_call_limit_exceeded"})

\* Mutant: only the cited ids are checked, not the quoted texts.
CitationsKnown(a) ==
    /\ ~a.repeats
    /\ a.cites \subseteq evidence

\* The reply's citations name retrieved evidence only, each once, and cover every
\* retrieved text the reply quotes.
CitationsHold(a) ==
    /\ ~a.repeats
    /\ a.cites \subseteq evidence
    /\ a.quotes \cap evidence \subseteq a.cites

Finalize(a) ==
    /\ answer' = a
    /\ IF NoData
       THEN Ended("abstained") /\ UNCHANGED notes
       ELSE IF MaterialSupport /\ CitationsHold(a)
       THEN /\ Ended(IF Incomplete THEN "partial" ELSE "success")
            /\ notes' = DataNotes
       ELSE Ended("error") /\ UNCHANGED notes

-----------------------------------------------------------------------------
(* The model replies with tool calls. *)

Replied == rounds' = rounds + 1

Asking == phase = "ask" /\ rounds < budget

\* The model call raises: timeout or request error.
ModelFails ==
    /\ Asking \/ phase = "correct"
    /\ Replied
    /\ ControlledError
    /\ UNCHANGED <<budget, queue, tally, modes>>

Requests == UNION {[1..n -> Calls] : n \in 1..MaxCallsPerReply}

RequestTools(cs) ==
    /\ Asking
    /\ Replied
    /\ IF forceFinal
       THEN /\ ControlledError
            /\ attempted' = attempted + Len(cs)
            /\ UNCHANGED <<queue, reportMiss>>
       ELSE /\ phase' = "calls"
            /\ queue' = cs
            /\ reportMiss' = (reportMiss /\ \A i \in 1..Len(cs) : Tool[cs[i]] = "tool_report")
            /\ UNCHANGED <<attempted, verdict>>
    /\ UNCHANGED <<budget, executed, fingerprints, results, failures, evidence,
                   forceFinal, reprompted>>

-----------------------------------------------------------------------------
(* The calls of a reply are handled in order. *)

\* Why a call is not executed: the first check it fails.
Refusal(c) ==
    IF attempted >= MaxToolCalls THEN "tool_call_limit_exceeded"
    ELSE IF Tool[c] \notin Approved THEN "unapproved_tool"
    ELSE IF c \in Malformed THEN "invalid_tool_arguments"
    ELSE IF c \in fingerprints THEN "duplicate_tool_call"
    ELSE "none"

NextCall == phase = "calls" /\ queue # << >>

RefuseCall ==
    /\ NextCall
    /\ Refusal(Head(queue)) # "none"
    /\ failures' = failures \cup {Refusal(Head(queue))}
    /\ attempted' = attempted + 1
    /\ queue' = Tail(queue)
    /\ UNCHANGED <<budget, phase, rounds, executed, fingerprints, results, evidence,
                   modes, verdict>>

StartTool ==
    /\ NextCall
    /\ Refusal(Head(queue)) = "none"
    /\ attempted' = attempted + 1
    /\ executed' = executed + 1
    /\ fingerprints' = fingerprints \cup {Head(queue)}
    /\ phase' = "running"
    /\ UNCHANGED <<budget, rounds, queue, results, failures, evidence, modes, verdict>>

\* tool_rag returns evidence exactly if it succeeds, wholly or in part.
Retrieved(x) ==
    IF x.tool = "tool_rag" /\ x.status \in {"success", "partial"}
    THEN SUBSET Mentions \ {{}} ELSE {{}}

ToolReturns(x) ==
    /\ phase = "running"
    /\ x.tool = Tool[Head(queue)]
    /\ results' = results \cup {x}
    /\ \E E \in Retrieved(x) : evidence' = evidence \cup E
    /\ reportMiss' = (reportMiss \/ x.status = "not_found")
    /\ queue' = Tail(queue)
    /\ phase' = "calls"
    /\ UNCHANGED <<budget, rounds, attempted, executed, fingerprints, failures,
                   forceFinal, reprompted, verdict>>

\* Mutant: the exception of an executor is not caught and ends run without a result.
ToolRaisesUncaught ==
    /\ phase = "running"
    /\ phase' = "done"
    /\ UNCHANGED <<budget, rounds, queue, tally, modes, verdict>>

ToolRaises ==
    /\ phase = "running"
    /\ failures' = failures \cup {"tool_execution_failed"}
    /\ queue' = Tail(queue)
    /\ phase' = "calls"
    /\ UNCHANGED <<budget, rounds, attempted, executed, fingerprints, results, evidence,
                   modes, verdict>>

\* The limit was passed in this round exactly if it is passed now: once it is, the
\* run ends or requests no more tools.
EndOfRound ==
    /\ phase = "calls"
    /\ queue = << >>
    /\ IF attempted > MaxToolCalls /\ ~MaterialSupport
       THEN ControlledError /\ UNCHANGED forceFinal
       ELSE /\ phase' = "ask"
            /\ forceFinal' = (attempted > MaxToolCalls)
            /\ UNCHANGED verdict
    /\ UNCHANGED <<budget, rounds, queue, tally, reportMiss, reprompted>>

-----------------------------------------------------------------------------
(* The model replies with text. *)

\* Mutant: off by one, no reprompt before the last tool call.
RepromptLate ==
    IF reportMiss /\ "report" \notin reprompted /\ attempted + 1 < MaxToolCalls
    THEN {"report"}
    ELSE IF attempted = 0 /\ "unsupported" \notin reprompted
    THEN {"unsupported"}
    ELSE {}

\* The reprompt this reply calls for, if any.
Reprompt ==
    IF reportMiss /\ "report" \notin reprompted /\ attempted < MaxToolCalls
    THEN {"report"}
    ELSE IF attempted = 0 /\ "unsupported" \notin reprompted
    THEN {"unsupported"}
    ELSE {}

\* Mutant: that a reprompt was sent is not remembered.
RepromptForgotten ==
    /\ Asking
    /\ Reprompt # {}
    /\ Replied
    /\ UNCHANGED <<budget, phase, queue, tally, modes, verdict>>

RepromptModel ==
    /\ Asking
    /\ Reprompt # {}
    /\ Replied
    /\ reprompted' = reprompted \cup Reprompt
    /\ UNCHANGED <<budget, phase, queue, tally, forceFinal, reportMiss, verdict>>

\* The reply is blank.
NothingReplied ==
    /\ Asking
    /\ Reprompt = {}
    /\ Replied
    /\ ControlledError
    /\ UNCHANGED <<budget, queue, tally, modes>>

\* An exact retrieved text is used without a valid citation.
RequiresCorrection(a) ==
    /\ \E x \in results : x.tool = "tool_rag" /\ x.status \in {"success", "partial"}
    /\ a.quotes \cap evidence # {}
    /\ a.cites = {} \/ ~(a.cites \subseteq evidence)

AskForCorrection ==
    /\ Asking
    /\ Reprompt = {}
    /\ Replied
    /\ \E a \in Replies : RequiresCorrection(a) /\ rounds + 1 < budget
    /\ phase' = "correct"
    /\ UNCHANGED <<budget, queue, tally, modes, verdict>>

\* Mutant: off by one, the last round is not used for the correction.
AnswerGivenEarly ==
    /\ Asking
    /\ Reprompt = {}
    /\ Replied
    /\ \E a \in Replies :
          /\ ~RequiresCorrection(a) \/ rounds + 2 >= budget
          /\ Finalize(a)
    /\ UNCHANGED <<budget, queue, tally, modes>>

AnswerGiven ==
    /\ Asking
    /\ Reprompt = {}
    /\ Replied
    /\ \E a \in Replies :
          /\ ~RequiresCorrection(a) \/ rounds + 1 >= budget
          /\ Finalize(a)
    /\ UNCHANGED <<budget, queue, tally, modes>>

\* The corrected reply is finalized, or is no answer at all.
CorrectionGiven ==
    /\ phase = "correct"
    /\ Replied
    /\ ControlledError \/ \E a \in Replies : Finalize(a)
    /\ UNCHANGED <<budget, queue, tally, modes>>

TooManyRounds ==
    /\ phase = "ask"
    /\ rounds >= budget
    /\ Ended("too_many_rounds")
    /\ UNCHANGED <<budget, rounds, queue, tally, modes, answer, notes>>

-----------------------------------------------------------------------------
Next ==
    \/ ModelFails
    \/ \E cs \in Requests : RequestTools(cs)
    \/ RefuseCall
    \/ StartTool
    \/ \E x \in Results : ToolReturns(x)
    \/ ToolRaises
    \/ EndOfRound
    \/ RepromptModel
    \/ NothingReplied
    \/ AskForCorrection
    \/ AnswerGiven
    \/ CorrectionGiven
    \/ TooManyRounds

Spec == Init /\ [][Next]_vars

\* Every await of run ends: the model client has a timeout, tools return or raise.
FairSpec == Spec /\ WF_vars(Next)

-----------------------------------------------------------------------------
(* Properties. *)

\* The round budget is never what ends a request, whatever the model does: the
\* default of 8 rounds is just enough for both reprompts, each tool call in a round
\* of its own, a refused call, the answer and its correction.
EnoughRounds == budget >= MaxToolCalls + 5
RoundBudgetSuffices == EnoughRounds => outcome # "too_many_rounds"

\* With those rounds, an answer that quotes retrieved text without a valid citation is
\* always sent back to the model once before it is judged.
CorrectionNeverSkipped ==
    [][EnoughRounds /\ phase = "ask" /\ phase' = "done"
          => ~RequiresCorrection(answer')]_vars

\* Over all rounds of a request, no call runs twice and no more than MAX_TOOL_CALLS
\* run; what is counted as executed is what ran.
ExecutionsBounded ==
    /\ executed = Cardinality(fingerprints)
    /\ executed <= MaxToolCalls
    /\ \A c \in fingerprints : Tool[c] \in Approved /\ c \notin Malformed

\* Both together: neither budget of a request is ever the reason it goes wrong.
BudgetsHold == RoundBudgetSuffices /\ ExecutionsBounded

\* An answer handed to the user rests on a tool that returned: its citations are
\* retrieved mentions, no retrieved text is used uncited, and there is evidence only
\* if an execution of tool_rag delivered it.
AnswerIsGrounded ==
    outcome \in {"success", "partial"} =>
        /\ \E x \in results : Supports(x) /\ \E c \in fingerprints : Tool[c] = x.tool
        /\ answer.cites \subseteq evidence
        /\ answer.quotes \cap evidence \subseteq answer.cites
        /\ answer.cites # {} => \E c \in fingerprints : Tool[c] = "tool_rag"

\* "success" is reported only if every call that ran returned a complete result and
\* none was refused except as a duplicate: nothing failed on the way to it.
SuccessIsComplete ==
    outcome = "success" =>
        /\ attempted <= MaxToolCalls
        /\ \A x \in results : x.status \notin {"error", "partial"}
        /\ \A c \in fingerprints : \E x \in results : x.tool = Tool[c]

\* Both together: an answer rests on what ran, and its status says what failed.
AnswersAreEarned == AnswerIsGrounded /\ SuccessIsComplete

\* A request is not given up because the stored report is missing before the model
\* was told to look at the other tools, while it could still call one.
ReportMissReconsidered ==
    /\ outcome = "abstained"
    /\ \A x \in results : x.tool = "tool_report"
    /\ failures \subseteq {"duplicate_tool_call"}
    /\ attempted < MaxToolCalls
    => "report" \in reprompted

\* Every request gets an AgentRunResult, whatever the model and the tools do.
EveryRequestAnswered == <>(outcome # "none")

\* "clearly disclose the unavailable component; never pretend the failed data source
\* succeeded" (docs/week3_codex_todo.md:785): an answer, or the statement that there
\* is no data, names a tool that raised.
FailuresDisclosed ==
    /\ outcome \in {"success", "partial", "abstained"}
    /\ "tool_execution_failed" \in failures
    => "tool_execution_failed" \in notes

-----------------------------------------------------------------------------
(* What the properties rest on: invariants that every step preserves.       *)

Sent(k) == IF k \in reprompted THEN 1 ELSE 0

\* Each round before the last was a reprompt or attempted a call, and no tool is
\* offered once a call was refused for the limit.
RoundsAccounted ==
    LET limit == MaxToolCalls + Sent("report") + Sent("unsupported")
        used  == attempted + Sent("report") + Sent("unsupported")
    IN  /\ phase \in {"ask", "calls", "running"} => rounds <= limit + 1
        /\ phase = "calls" /\ queue # << >> => rounds <= used + 1
        /\ phase \in {"ask", "running"} \/ (phase = "calls" /\ queue = << >>) => rounds <= used
        /\ phase \in {"calls", "running"} => ~forceFinal
        /\ phase = "ask" => (forceFinal <=> attempted > MaxToolCalls)
        /\ outcome = "too_many_rounds" => ~EnoughRounds
        /\ phase # "done" => outcome = "none" /\ answer = NoReply

\* What ran is counted, approved and well formed, and was below the limit.
ExecutionsAccounted ==
    /\ executed <= attempted
    /\ IsFiniteSet(fingerprints)
    /\ phase = "running" => Head(queue) \in fingerprints

\* Every call that ran has a result or a failure, every result and every piece of
\* evidence a call that ran.
ResultsAccounted ==
    /\ \A x \in results : \E c \in fingerprints : Tool[c] = x.tool
    /\ evidence # {} => \E c \in fingerprints : Tool[c] = "tool_rag"
    /\ \A c \in fingerprints :
          \/ "tool_execution_failed" \in failures
          \/ phase = "running" /\ c = Head(queue)
          \/ \E x \in results : x.tool = Tool[c]
    /\ attempted > MaxToolCalls => LimitEvent

\* While only reports were looked up, all in vain, the miss is remembered or a call of
\* another tool is due.
MissRemembered ==
    /\ phase # "done"
    /\ NoData
    /\ \A x \in results : x.tool = "tool_report"
    /\ failures \subseteq {"duplicate_tool_call"}
    => reportMiss \/ \E i \in 1..Len(queue) : Tool[queue[i]] # "tool_report"

\* Only an answer over evidence is corrected.
CorrectionHasEvidence == phase = "correct" => MaterialSupport /\ ~NoData
=============================================================================
