---------------------------- MODULE MCAgentRouter ----------------------------
(* AgentRouter for TLC: one call of each tool, one of a tool that is not     *)
(* approved and one with malformed arguments.  The evaluation is checked on   *)
(* the results of the runs and, as a function, on the inputs below.          *)
EXTENDS SemanticEvaluation

MCCalls == {"report", "sql", "rag", "shell", "bad_sql"}
MCTool == [c \in MCCalls |-> CASE c = "report" -> "tool_report"
                               [] c \in {"sql", "bad_sql"} -> "tool_sql"
                               [] c = "rag" -> "tool_rag"
                               [] c = "shell" -> "other"]
MCMalformed == {"bad_sql"}

MCTwoCalls == {"report", "sql"}
MCTwoTools == [c \in MCTwoCalls |-> MCTool[c]]

-----------------------------------------------------------------------------
(* Evaluations of ten cases of which two deviate from a perfect one. *)

Perfect == [checks |-> [d \in Dimensions |-> "passed"], required |-> TRUE, error |-> FALSE,
            judge |-> [given |-> TRUE, answer |-> 100, retrieval |-> 100, grounded |-> 100,
                       unsupported |-> FALSE]]

Deviations ==
    {[Perfect EXCEPT !.checks[d] = v] : d \in Dimensions, v \in Verdicts}
    \cup {[Perfect EXCEPT !.judge[f] = v] :
              f \in {"answer", "retrieval", "grounded"}, v \in {0, 84}}
    \cup {[Perfect EXCEPT !.judge.retrieval = Null],
          [Perfect EXCEPT !.judge.unsupported = TRUE],
          [Perfect EXCEPT !.judge = NoAssessment],
          [Perfect EXCEPT !.judge = NoAssessment, !.error = TRUE], Unevaluated}

Ten(x, y) == [c \in 1..10 |-> CASE c = 1 -> x [] c = 2 -> y [] OTHER -> Perfect]

Failed(d) == [Perfect EXCEPT !.checks[d] = "failed"]

\* The theorem PassIsSound on these, and that both answers are possible: one wrong
\* route in ten is accepted, two are not, and one missing result is not.
ASSUME EvaluationsOfTen ==
    /\ \A x, y \in Deviations : PassIsEarned(Ten(x, y))
    /\ OverallPassed(Ten(Failed("routing"), Perfect))
    /\ ~OverallPassed(Ten(Failed("routing"), Failed("routing")))
    /\ ~OverallPassed(Ten(Unevaluated, Perfect))
    /\ \E x, y \in Deviations : {x, y} \cap {Perfect} = {} /\ OverallPassed(Ten(x, y))

\* Golden cases over two tools, one number and two SKUs, and all results for them.
Cases == {g \in [required : SUBSET {"tool_rag", "tool_sql"},
                 allowed : SUBSET {"tool_rag", "tool_sql"},
                 forbidden : SUBSET {"tool_rag"}, numbers : {{}, {7}}, citations : Sources,
                 abstain : BOOLEAN, followUp : BOOLEAN, skus : {Codes},
                 sameTier : {FALSE}, compares : BOOLEAN] : WellFormed(g)}
Observable == {r \in [status : {"success", "abstained"},
                      used : SUBSET {"tool_rag", "tool_sql"}, executed : {1}, maximum : {3},
                      ragReturned : BOOLEAN, cites : {{}, Mentions}, sound : {TRUE},
                      numbers : {{}, {7}}, skus : {{}, Codes}, tierNoted : BOOLEAN,
                      winner : {FALSE}] : Traced(r)}

\* A case can be passed exactly if it allows the retrieval its citations require.
ASSUME CasesCanPass ==
    \A g \in Cases :
        (\E r \in Observable : CanPass(g, r))
            <=> (g.citations = "required" => "tool_rag" \in g.allowed)
=============================================================================
