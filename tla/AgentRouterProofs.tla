---------------------------- MODULE AgentRouterProofs ----------------------------
(***************************************************************************)
(* Proofs about AgentRouter for any calls, tools, limits and round budgets. *)
(***************************************************************************)
EXTENDS AgentRouter, FiniteSetTheorems, SequenceTheorems, TLAPS

-----------------------------------------------------------------------------
(* Lemmas about the operators. *)

\* A nonempty queue splits into a call and a queue.
LEMMA QueueSplits ==
    ASSUME NEW q \in Seq(Calls), q # << >>
    PROVE  /\ Head(q) \in Calls
           /\ Tail(q) \in Seq(Calls)
           /\ Len(Tail(q)) = Len(q) - 1
           /\ \A i \in 1..Len(Tail(q)) : Tail(q)[i] = q[i + 1]
  BY HeadTailProperties

\* The calls of one reply are a nonempty sequence.
LEMMA ReplyIsSequence ==
    ASSUME NEW cs \in Requests
    PROVE  cs \in Seq(Calls) /\ Len(cs) \in Nat /\ cs # << >>
<1>1. PICK n \in 1..MaxCallsPerReply : cs \in [1..n -> Calls]
  BY DEF Requests
<1>2. n \in Nat /\ n > 0
  BY RouterAssumption DEF RouterAssumption
<1>3. cs \in Seq(Calls)
  BY <1>1, <1>2, SeqDef
<1>4. Len(cs) = n
  BY <1>1, <1>2, <1>3, LenProperties
<1> QED
  BY <1>2, <1>3, <1>4, EmptySeq

\* A refused call has a refusal's code; a call that is not refused is an approved,
\* well-formed call that has not run, and the limit is not reached.
LEMMA RefusalCases ==
    ASSUME NEW c \in Calls, TypeOK
    PROVE  /\ Refusal(c) # "none" => Refusal(c) \in Refusals
           /\ Refusal(c) = "none" => /\ attempted < MaxToolCalls
                                     /\ Tool[c] \in Approved
                                     /\ c \notin Malformed
                                     /\ c \notin fingerprints
           /\ Refusal(c) = "duplicate_tool_call" => c \in fingerprints
           /\ (Refusal(c) = "tool_call_limit_exceeded") <=> (attempted >= MaxToolCalls)
<1>1. attempted \in Nat /\ MaxToolCalls \in Nat
  BY RouterAssumption DEF RouterAssumption, TypeOK
<1>2. CASE attempted >= MaxToolCalls
  BY <1>1, <1>2 DEF Refusal, Refusals
<1>3. CASE attempted < MaxToolCalls
  <2>1. ~(attempted >= MaxToolCalls)
    BY <1>1, <1>3
  <2> QED
    BY <1>3, <2>1 DEF Refusal, Refusals
<1> QED
  BY <1>1, <1>2, <1>3

\* Finalizing touches the answer, the notes and the outcome only, and ends the run.
LEMMA FinalizeTypes ==
    ASSUME NEW a \in Replies, TypeOK, Finalize(a)
    PROVE  /\ answer' \in Replies
           /\ notes' \subseteq Notable
           /\ outcome' \in {"success", "partial", "abstained", "error"}
           /\ phase' = "done"
  BY DEF Finalize, Ended, DataNotes, ErrorResults, Notable, Failures, TypeOK

-----------------------------------------------------------------------------
(* Type correctness. *)

\* A tool runs for a call that is still in the queue.
RunningHasCall == phase = "running" => queue # << >>

TypeInv == TypeOK /\ RunningHasCall

LEMMA TypeInvInitially == Init => TypeInv
<1>1. NoReply \in Replies
  BY DEF NoReply, Replies
<1>2. << >> \in Seq(Calls)
  BY EmptySeq
<1>3. Init => RunningHasCall
  BY DEF Init, RunningHasCall
<1>4. Init => /\ queue \in Seq(Calls) /\ answer \in Replies
              /\ forceFinal \in BOOLEAN /\ reportMiss \in BOOLEAN
  BY <1>1, <1>2, Zenon DEF Init
<1>5. Init => TypeOK
  BY <1>4 DEF Init, TypeOK, Phases, Outcomes
<1> QED
  BY <1>3, <1>5 DEF TypeInv

LEMMA TypeInvPreserved == TypeInv /\ [Next]_vars => TypeInv'
<1> SUFFICES ASSUME TypeOK, RunningHasCall, [Next]_vars PROVE TypeOK' /\ RunningHasCall'
  BY DEF TypeInv
<1> USE DEF Phases, Outcomes, RunningHasCall
<1>1. CASE ModelFails
  BY <1>1 DEF TypeOK, ModelFails, Asking, Replied, ControlledError, Ended, tally, modes
<1>2. ASSUME NEW cs \in Requests, RequestTools(cs) PROVE TypeOK' /\ RunningHasCall'
  <2>1. cs \in Seq(Calls) /\ Len(cs) \in Nat
    BY ReplyIsSequence
  <2>2. reportMiss' \in BOOLEAN
    BY <1>2, Zenon DEF TypeOK, RequestTools
  <2>3. phase' \in Phases \ {"running"} /\ outcome' \in Outcomes /\ answer' \in Replies
        /\ notes' \subseteq Notable
    BY <1>2 DEF TypeOK, RequestTools, ControlledError, Ended, verdict
  <2>4. queue' \in Seq(Calls) /\ attempted' \in Nat /\ rounds' \in Nat
    BY <1>2, <2>1 DEF TypeOK, RequestTools, ControlledError, Replied
  <2> QED
    BY <1>2, <2>2, <2>3, <2>4 DEF TypeOK, RequestTools
<1>3. CASE RefuseCall
  <2>1. Head(queue) \in Calls /\ queue' \in Seq(Calls)
    BY <1>3, QueueSplits DEF TypeOK, RefuseCall, NextCall
  <2>2. failures' \subseteq Failures
    BY <1>3, <2>1, RefusalCases DEF TypeOK, RefuseCall, Failures
  <2> QED
    BY <1>3, <2>1, <2>2 DEF TypeOK, RefuseCall, NextCall, modes, verdict
<1>4. CASE StartTool
  <2>1. Head(queue) \in Calls
    BY <1>4, QueueSplits DEF TypeOK, StartTool, NextCall
  <2> QED
    BY <1>4, <2>1 DEF TypeOK, StartTool, NextCall, modes, verdict
<1>5. ASSUME NEW x \in Results, ToolReturns(x) PROVE TypeOK' /\ RunningHasCall'
  <2>1. queue' \in Seq(Calls)
    BY <1>5, QueueSplits DEF TypeOK, ToolReturns
  <2>2. evidence' \subseteq Mentions
    BY <1>5 DEF TypeOK, ToolReturns, Retrieved
  <2>3. reportMiss' \in BOOLEAN
    BY <1>5, Zenon DEF TypeOK, ToolReturns
  <2> QED
    BY <1>5, <2>1, <2>2, <2>3 DEF TypeOK, ToolReturns, verdict
<1>6. CASE ToolRaises
  <2>1. queue' \in Seq(Calls)
    BY <1>6, QueueSplits DEF TypeOK, ToolRaises
  <2> QED
    BY <1>6, <2>1 DEF TypeOK, ToolRaises, modes, verdict, Failures
<1>7. CASE EndOfRound
  <2>1. forceFinal' \in BOOLEAN
    <3>1. (attempted > MaxToolCalls) \in BOOLEAN
      OBVIOUS
    <3> QED
      BY <1>7, <3>1, Zenon DEF TypeOK, EndOfRound
  <2> QED
    BY <1>7, <2>1 DEF TypeOK, EndOfRound, ControlledError, Ended, tally, verdict
<1>8. CASE RepromptModel
  BY <1>8 DEF TypeOK, RepromptModel, Asking, Replied, Reprompt, tally, verdict
<1>9. CASE NothingReplied
  BY <1>9 DEF TypeOK, NothingReplied, Asking, Replied, ControlledError, Ended, tally, modes
<1>10. CASE AskForCorrection
  BY <1>10 DEF TypeOK, AskForCorrection, Asking, Replied, tally, modes, verdict
<1>11. CASE AnswerGiven
  BY <1>11, FinalizeTypes DEF TypeOK, AnswerGiven, Asking, Replied, tally, modes
<1>12. CASE CorrectionGiven
  BY <1>12, FinalizeTypes
     DEF TypeOK, CorrectionGiven, Replied, ControlledError, Ended, tally, modes
<1>13. CASE TooManyRounds
  BY <1>13 DEF TypeOK, TooManyRounds, Ended, tally, modes
<1>14. CASE UNCHANGED vars
  BY <1>14 DEF TypeOK, vars, tally, modes, verdict
<1> QED
  BY <1>1, <1>2, <1>3, <1>4, <1>5, <1>6, <1>7, <1>8, <1>9, <1>10, <1>11, <1>12, <1>13,
     <1>14 DEF Next

LEMMA TypeInvAlways == Spec => []TypeInv
  BY TypeInvInitially, TypeInvPreserved, PTL DEF Spec

\* Every variable keeps its type, for any calls, limits and budgets.
THEOREM TypeCorrect == Spec => []TypeOK
<1>1. TypeInv => TypeOK
  BY DEF TypeInv
<1> QED
  BY <1>1, TypeInvAlways, PTL

-----------------------------------------------------------------------------
(* The round budget. *)

\* Reprompts are sent once each.
LEMMA RepromptCounted ==
    ASSUME TypeOK, RepromptModel
    PROVE  Sent("report")' + Sent("unsupported")' = Sent("report") + Sent("unsupported") + 1
  BY DEF TypeOK, RepromptModel, Reprompt, Sent

LEMMA RoundsInitially == Init => RoundsAccounted
<1> SUFFICES ASSUME Init PROVE RoundsAccounted
  OBVIOUS
<1>1. ~forceFinal /\ ~(attempted > MaxToolCalls)
  BY RouterAssumption DEF RouterAssumption, Init
<1> QED
  BY <1>1, RouterAssumption DEF RouterAssumption, Init, RoundsAccounted, Sent

LEMMA RoundsPreserved == TypeInv /\ RoundsAccounted /\ [Next]_vars => RoundsAccounted'
<1> SUFFICES ASSUME TypeOK, RunningHasCall, RoundsAccounted, [Next]_vars
             PROVE  RoundsAccounted'
  BY DEF TypeInv
<1> DEFINE sent == Sent("report") + Sent("unsupported")
<1>0. /\ rounds \in Nat /\ attempted \in Nat /\ budget \in Nat
      /\ MaxToolCalls \in Nat \ {0} /\ sent \in 0..2
      /\ Sent("report") \in 0..1 /\ Sent("unsupported") \in 0..1
  BY RouterAssumption DEF RouterAssumption, TypeOK, Sent
<1> USE <1>0 DEF RoundsAccounted
\* A step that ends the run, with any outcome but the last.
<1>1. ASSUME phase' = "done", outcome' # "too_many_rounds" PROVE RoundsAccounted'
  BY <1>1
<1>2. CASE ModelFails
  BY <1>2, <1>1 DEF ModelFails, ControlledError, Ended
<1>3. ASSUME NEW cs \in Requests, RequestTools(cs) PROVE RoundsAccounted'
  <2>1. CASE forceFinal
    BY <1>3, <2>1, <1>1 DEF RequestTools, ControlledError, Ended
  <2>2. CASE ~forceFinal
    <3>1. attempted <= MaxToolCalls /\ rounds <= attempted + sent
      BY <1>3, <2>2 DEF RequestTools, Asking
    <3>2. queue' = cs /\ cs # << >> /\ phase' = "calls"
      BY <1>3, <2>2, ReplyIsSequence DEF RequestTools
    <3>3. rounds' = rounds + 1 /\ attempted' = attempted /\ forceFinal' = forceFinal
          /\ outcome' = outcome /\ answer' = answer /\ sent' = sent /\ reprompted' = reprompted
      BY <1>3, <2>2 DEF RequestTools, Replied, verdict, Sent
    <3>4. outcome = "none" /\ answer = NoReply
      BY <1>3 DEF RequestTools, Asking
    <3> QED
      BY <2>2, <3>1, <3>2, <3>3, <3>4 DEF Sent
  <2> QED
    BY <2>1, <2>2
<1>4. CASE RefuseCall
  <2>1. /\ phase = "calls" /\ phase' = "calls" /\ attempted' = attempted + 1
        /\ rounds' = rounds /\ reprompted' = reprompted /\ forceFinal' = forceFinal
        /\ outcome' = outcome /\ queue # << >> /\ answer' = answer
    BY <1>4 DEF RefuseCall, NextCall, modes, verdict
  <2> QED
    BY <2>1 DEF Sent
<1>5. CASE StartTool
  <2>1. /\ phase = "calls" /\ phase' = "running" /\ attempted' = attempted + 1
        /\ rounds' = rounds /\ reprompted' = reprompted /\ forceFinal' = forceFinal
        /\ outcome' = outcome /\ queue # << >> /\ answer' = answer
    BY <1>5 DEF StartTool, NextCall, modes, verdict
  <2> QED
    BY <2>1 DEF Sent
\* The tool's end leaves all that is counted alone.
<1>6. ASSUME (\E x \in Results : ToolReturns(x)) \/ ToolRaises PROVE RoundsAccounted'
  <2>1. /\ phase = "running" /\ phase' = "calls" /\ attempted' = attempted
        /\ rounds' = rounds /\ reprompted' = reprompted /\ forceFinal' = forceFinal
        /\ outcome' = outcome /\ answer' = answer
    BY <1>6 DEF ToolReturns, ToolRaises, modes, verdict
  <2> QED
    BY <2>1 DEF Sent
<1>7. CASE EndOfRound
  <2>1. CASE attempted > MaxToolCalls /\ ~MaterialSupport
    BY <1>7, <2>1, <1>1 DEF EndOfRound, ControlledError, Ended
  <2>2. CASE ~(attempted > MaxToolCalls /\ ~MaterialSupport)
    <3>1. /\ phase = "calls" /\ queue = << >> /\ phase' = "ask" /\ attempted' = attempted
          /\ rounds' = rounds /\ reprompted' = reprompted /\ outcome' = outcome
          /\ answer' = answer /\ (forceFinal' <=> attempted > MaxToolCalls)
      BY <1>7, <2>2 DEF EndOfRound, tally, verdict
    <3> QED
      BY <3>1 DEF Sent
  <2> QED
    BY <2>1, <2>2
<1>8. CASE RepromptModel
  <2>1. /\ phase = "ask" /\ phase' = phase /\ attempted' = attempted /\ forceFinal' = forceFinal
        /\ rounds' = rounds + 1 /\ outcome' = outcome /\ answer' = answer
    BY <1>8 DEF RepromptModel, Asking, Replied, tally, verdict
  <2>2. sent' = sent + 1
    BY <1>8, RepromptCounted
  <2>3. Sent("report")' \in Nat /\ Sent("unsupported")' \in Nat
    BY DEF Sent
  <2>4. rounds <= attempted + sent /\ rounds <= MaxToolCalls + sent + 1 /\ outcome = "none"
    BY <2>1
  <2> QED
    BY <2>1, <2>2, <2>3, <2>4
<1>9. CASE NothingReplied
  BY <1>9, <1>1 DEF NothingReplied, ControlledError, Ended
<1>10. CASE AskForCorrection
  BY <1>10 DEF AskForCorrection, Asking, verdict
<1>11. CASE AnswerGiven
  BY <1>11, <1>1, FinalizeTypes DEF AnswerGiven
<1>12. CASE CorrectionGiven
  BY <1>12, <1>1, FinalizeTypes DEF CorrectionGiven, ControlledError, Ended
\* With enough rounds the budget is not used up while the model is asked.
<1>13. CASE TooManyRounds
  <2>1. rounds <= MaxToolCalls + sent + 1 /\ rounds >= budget
    BY <1>13 DEF TooManyRounds
  <2>2. ~EnoughRounds
    BY <2>1 DEF EnoughRounds
  <2> QED
    BY <1>13, <2>2 DEF TooManyRounds, Ended, EnoughRounds
<1>14. CASE UNCHANGED vars
  BY <1>14 DEF vars, tally, modes, verdict, Sent, EnoughRounds
<1> QED
  BY <1>2, <1>3, <1>4, <1>5, <1>6, <1>7, <1>8, <1>9, <1>10, <1>11, <1>12, <1>13, <1>14
     DEF Next

LEMMA RoundsAlways == Spec => [](TypeInv /\ RoundsAccounted)
  BY TypeInvInitially, TypeInvPreserved, RoundsInitially, RoundsPreserved, PTL DEF Spec

\* With at least MAX_TOOL_CALLS + 5 rounds (the default), a request never ends for
\* want of rounds, whatever the model replies and the tools do.
THEOREM RoundBudget == Spec => []RoundBudgetSuffices
<1>1. RoundsAccounted => RoundBudgetSuffices
  BY DEF RoundsAccounted, RoundBudgetSuffices
<1> QED
  BY <1>1, RoundsAlways, PTL

\* With those rounds, an uncited quotation is always sent back for correction first.
THEOREM CorrectionsAsked == Spec => CorrectionNeverSkipped
<1> DEFINE Asked == EnoughRounds /\ phase = "ask" /\ phase' = "done"
                       => ~RequiresCorrection(answer')
<1>1. TypeInv /\ RoundsAccounted /\ [Next]_vars => [Asked]_vars
  <2> SUFFICES ASSUME TypeInv, RoundsAccounted, Next, EnoughRounds, phase = "ask",
                      phase' = "done"
               PROVE  ~RequiresCorrection(answer')
    BY DEF EnoughRounds
  <2>1. rounds + 1 < budget
    BY RouterAssumption
       DEF RouterAssumption, TypeInv, TypeOK, RoundsAccounted, EnoughRounds, Sent
  <2>2. CASE AnswerGiven
    <3>1. PICK a \in Replies : /\ ~RequiresCorrection(a) \/ rounds + 1 >= budget
                              /\ Finalize(a)
      BY <2>2 DEF AnswerGiven
    <3>2. ~(rounds + 1 >= budget)
      BY <2>1, RouterAssumption DEF RouterAssumption, TypeInv, TypeOK
    <3>3. answer' = a
      BY <3>1 DEF Finalize
    <3> QED
      BY <3>1, <3>2, <3>3
  <2>3. CASE ~AnswerGiven
    <3>1. answer' = answer
      BY <2>3 DEF Next, ModelFails, RequestTools, RefuseCall, NextCall, StartTool,
                  ToolReturns, ToolRaises, EndOfRound, RepromptModel, NothingReplied,
                  AskForCorrection, CorrectionGiven, TooManyRounds, ControlledError, verdict
    <3>2. answer' = NoReply
      BY <3>1 DEF RoundsAccounted
    <3> QED
      BY <3>2 DEF RequiresCorrection, NoReply
  <2> QED
    BY <2>2, <2>3
<1> QED
  BY <1>1, RoundsAlways, PTL DEF Spec, CorrectionNeverSkipped

-----------------------------------------------------------------------------
(* What ran. *)

\* The actions that leave the tally of tool calls, the queue and a running tool alone,
\* and those that end the run.
TalkOnly ==
    \/ ModelFails \/ RepromptModel \/ NothingReplied \/ AskForCorrection
    \/ AnswerGiven \/ CorrectionGiven \/ TooManyRounds

LEMMA TalkLeavesTally ==
    ASSUME TalkOnly
    PROVE  /\ UNCHANGED tally
           /\ phase # "running" /\ phase' # "running"
           /\ queue' = queue
  BY DEF TalkOnly, ModelFails, RepromptModel, NothingReplied, AskForCorrection, AnswerGiven,
         CorrectionGiven, TooManyRounds, Asking, ControlledError, Finalize, Ended

ExecutionsInv == ExecutionsAccounted /\ ExecutionsBounded

LEMMA ExecutionsInitially == Init => ExecutionsInv
  BY FS_EmptySet, RouterAssumption
     DEF RouterAssumption, Init, ExecutionsInv, ExecutionsAccounted, ExecutionsBounded

LEMMA ExecutionsPreserved == TypeInv /\ ExecutionsInv /\ [Next]_vars => ExecutionsInv'
<1> SUFFICES ASSUME TypeOK, RunningHasCall, ExecutionsInv, [Next]_vars
             PROVE  ExecutionsInv'
  BY DEF TypeInv
<1>0. attempted \in Nat /\ executed \in Nat /\ MaxToolCalls \in Nat
  BY RouterAssumption DEF RouterAssumption, TypeOK
<1> USE <1>0 DEF ExecutionsInv, ExecutionsAccounted, ExecutionsBounded
<1>1. CASE TalkOnly
  BY <1>1, TalkLeavesTally DEF tally
<1>2. ASSUME NEW cs \in Requests, RequestTools(cs) PROVE ExecutionsInv'
  <2>1. attempted' >= attempted /\ attempted' \in Nat
    BY <1>2, ReplyIsSequence DEF RequestTools, ControlledError
  <2>2. phase' # "running"
    BY <1>2 DEF RequestTools, ControlledError, Ended
  <2> QED
    BY <1>2, <2>1, <2>2 DEF RequestTools
<1>3. CASE RefuseCall
  BY <1>3 DEF RefuseCall, NextCall
<1>4. CASE StartTool
  <2> DEFINE c == Head(queue)
  <2>1. c \in Calls
    BY <1>4, QueueSplits DEF TypeOK, StartTool, NextCall
  <2>2. /\ attempted < MaxToolCalls /\ Tool[c] \in Approved
        /\ c \notin Malformed /\ c \notin fingerprints
    BY <1>4, <2>1, RefusalCases DEF StartTool
  <2>3. /\ IsFiniteSet(fingerprints \cup {c})
        /\ Cardinality(fingerprints \cup {c}) = Cardinality(fingerprints) + 1
    BY <2>2, FS_AddElement
  <2>4. /\ fingerprints' = fingerprints \cup {c} /\ executed' = executed + 1
        /\ attempted' = attempted + 1 /\ queue' = queue
    BY <1>4 DEF StartTool
  <2>5. c \in fingerprints' /\ c = Head(queue')
    BY <2>4
  <2> HIDE DEF c
  <2> QED
    BY <2>2, <2>3, <2>4, <2>5
<1>5. ASSUME (\E x \in Results : ToolReturns(x)) \/ ToolRaises PROVE ExecutionsInv'
  BY <1>5 DEF ToolReturns, ToolRaises
<1>6. CASE EndOfRound
  BY <1>6 DEF EndOfRound, ControlledError, Ended, tally
<1>7. CASE UNCHANGED vars
  BY <1>7 DEF vars, tally
<1> QED
  BY <1>1, <1>2, <1>3, <1>4, <1>5, <1>6, <1>7 DEF Next, TalkOnly

\* No call runs twice and no more than MAX_TOOL_CALLS run in a request, and only
\* approved calls with valid arguments do.
THEOREM ExecutionsCorrect == Spec => []ExecutionsBounded
<1>1. ExecutionsInv => ExecutionsBounded
  BY DEF ExecutionsInv
<1> QED
  BY <1>1, TypeInvInitially, TypeInvPreserved, ExecutionsInitially, ExecutionsPreserved,
     PTL DEF Spec

\* Neither the rounds nor the executions of a request get out of hand, for any model.
THEOREM BudgetsSuffice == Spec => []BudgetsHold
<1>1. RoundBudgetSuffices /\ ExecutionsBounded => BudgetsHold
  BY DEF BudgetsHold
<1> QED
  BY <1>1, RoundBudget, ExecutionsCorrect, PTL

-----------------------------------------------------------------------------
(* What an answer rests on. *)

AnswersInv == ResultsAccounted /\ AnswerIsGrounded /\ SuccessIsComplete

\* All that the invariants below need of the ones above.
Base == TypeInv /\ RoundsAccounted /\ ExecutionsInv

LEMMA BaseInitially == Init => Base
  BY TypeInvInitially, RoundsInitially, ExecutionsInitially DEF Base

LEMMA BasePreserved == Base /\ [Next]_vars => Base'
  BY TypeInvPreserved, RoundsPreserved, ExecutionsPreserved DEF Base

LEMMA AnswersInitially == Init => AnswersInv
<1> SUFFICES ASSUME Init PROVE AnswersInv
  OBVIOUS
<1>1. ~(attempted > MaxToolCalls)
  BY RouterAssumption DEF RouterAssumption, Init
<1> QED
  BY <1>1 DEF Init, AnswersInv, ResultsAccounted, AnswerIsGrounded, SuccessIsComplete

\* The step that finalizes an answer makes it a grounded and, if called a success, a
\* complete one.
LEMMA FinalizedIsGrounded ==
    ASSUME Base, ResultsAccounted, phase # "running", UNCHANGED tally,
           NEW a \in Replies, Finalize(a)
    PROVE  AnswerIsGrounded' /\ SuccessIsComplete'
<1>1. /\ results' = results /\ evidence' = evidence /\ fingerprints' = fingerprints
      /\ failures' = failures /\ attempted' = attempted
  BY DEF tally
<1>2. CASE outcome' \in {"success", "partial"}
  <2>1. /\ MaterialSupport /\ CitationsHold(a) /\ answer' = a
        /\ outcome' = "success" => ~Incomplete
    BY <1>2 DEF Finalize, Ended
  <2>2. AnswerIsGrounded'
    BY <1>1, <2>1 DEF AnswerIsGrounded, MaterialSupport, Supports, CitationsHold,
                      ResultsAccounted
  <2>3. outcome' = "success" => attempted <= MaxToolCalls
    <3>1. attempted > MaxToolCalls => Incomplete
      BY DEF ResultsAccounted, LimitEvent, Incomplete
    <3> QED
      BY <2>1, <3>1, RouterAssumption DEF RouterAssumption, Base, TypeInv, TypeOK
  <2>4. outcome' = "success" => /\ "tool_execution_failed" \notin failures
                                /\ \A x \in results : x.status \notin {"error", "partial"}
    BY <2>1 DEF Incomplete
  <2> QED
    BY <1>1, <2>2, <2>3, <2>4 DEF SuccessIsComplete, ResultsAccounted
<1>3. CASE outcome' \notin {"success", "partial"}
  BY <1>3 DEF AnswerIsGrounded, SuccessIsComplete
<1> QED
  BY <1>2, <1>3

LEMMA AnswersPreserved == Base /\ AnswersInv /\ [Next]_vars => AnswersInv'
<1> SUFFICES ASSUME Base, AnswersInv, [Next]_vars PROVE AnswersInv'
  OBVIOUS
<1>0. TypeOK /\ RunningHasCall
  BY DEF Base, TypeInv
\* Before the end of the run there is no answer to speak of.
<1>1. ASSUME outcome' \notin {"success", "partial"} PROVE AnswerIsGrounded' /\ SuccessIsComplete'
  BY <1>1 DEF AnswerIsGrounded, SuccessIsComplete
<1>2. CASE TalkOnly
  <2>1. ResultsAccounted'
    BY <1>2, TalkLeavesTally DEF AnswersInv, ResultsAccounted, tally, LimitEvent
  <2>2. CASE \E a \in Replies : Finalize(a)
    BY <1>2, <2>1, <2>2, TalkLeavesTally, FinalizedIsGrounded DEF AnswersInv
  <2>3. CASE ~\E a \in Replies : Finalize(a)
    <3>1. outcome' \in {"none", "error", "too_many_rounds"}
      BY <1>2, <2>3 DEF TalkOnly, ModelFails, RepromptModel, NothingReplied,
            AskForCorrection, AnswerGiven, CorrectionGiven, TooManyRounds, Asking,
            ControlledError, Ended, verdict, Base, RoundsAccounted
    <3> QED
      BY <2>1, <3>1, <1>1 DEF AnswersInv
  <2> QED
    BY <2>2, <2>3
\* Every other action leaves the outcome at "none" or makes it an error.
<1>3. ASSUME ResultsAccounted', phase # "done", outcome' = outcome \/ outcome' = "error"
      PROVE  AnswersInv'
  BY <1>3, <1>1 DEF AnswersInv, Base, RoundsAccounted
<1>4. ASSUME NEW cs \in Requests, RequestTools(cs) PROVE AnswersInv'
  <2>1. phase' # "running" /\ phase = "ask"
    BY <1>4 DEF RequestTools, ControlledError, Ended, Asking
  <2>2. attempted' > MaxToolCalls => attempted > MaxToolCalls
    BY <1>4 DEF RequestTools, Asking, Base, RoundsAccounted
  <2>3. results' = results /\ evidence' = evidence /\ fingerprints' = fingerprints
        /\ failures' = failures
    BY <1>4 DEF RequestTools
  <2>4. ResultsAccounted'
    BY <2>1, <2>2, <2>3 DEF AnswersInv, ResultsAccounted, LimitEvent
  <2> QED
    BY <1>4, <1>3, <2>1, <2>4 DEF RequestTools, ControlledError, Ended, verdict
<1>5. CASE RefuseCall
  <2>1. Head(queue) \in Calls
    BY <1>0, <1>5, QueueSplits DEF TypeOK, RefuseCall, NextCall
  <2>2. attempted' > MaxToolCalls => "tool_call_limit_exceeded" \in failures'
    <3>1. attempted' = attempted + 1 /\ attempted \in Nat /\ MaxToolCalls \in Nat
      BY <1>0, <1>5, RouterAssumption DEF RouterAssumption, TypeOK, RefuseCall
    <3> QED
      BY <1>0, <1>5, <2>1, <3>1, RefusalCases DEF RefuseCall
  <2>3. ResultsAccounted'
    BY <1>5, <2>2 DEF AnswersInv, ResultsAccounted, LimitEvent, RefuseCall, NextCall
  <2> QED
    BY <1>5, <1>3, <2>3 DEF RefuseCall, NextCall, verdict
<1>6. CASE StartTool
  <2>1. Head(queue) \in Calls
    BY <1>0, <1>6, QueueSplits DEF TypeOK, StartTool, NextCall
  <2>2. ~(attempted' > MaxToolCalls)
    <3>1. attempted' = attempted + 1 /\ attempted \in Nat /\ MaxToolCalls \in Nat
      BY <1>0, <1>6, RouterAssumption DEF RouterAssumption, TypeOK, StartTool
    <3> QED
      BY <1>0, <1>6, <2>1, <3>1, RefusalCases DEF StartTool
  <2>3. ResultsAccounted'
    BY <1>6, <2>2 DEF AnswersInv, ResultsAccounted, LimitEvent, StartTool, NextCall
  <2> QED
    BY <1>6, <1>3, <2>3 DEF StartTool, NextCall, verdict
<1>7. ASSUME NEW x \in Results, ToolReturns(x) PROVE AnswersInv'
  <2> DEFINE c == Head(queue)
  <2>1. c \in fingerprints /\ x.tool = Tool[c] /\ phase = "running" /\ phase' = "calls"
    BY <1>7 DEF ToolReturns, Base, ExecutionsInv, ExecutionsAccounted
  <2>2. /\ results' = results \cup {x} /\ fingerprints' = fingerprints
        /\ failures' = failures /\ attempted' = attempted
    BY <1>7 DEF ToolReturns
  <2>3. evidence' # {} => evidence # {} \/ x.tool = "tool_rag"
    BY <1>7 DEF ToolReturns, Retrieved
  <2> HIDE DEF c
  <2>4. ResultsAccounted'
    <3>1. \A k \in fingerprints : \/ "tool_execution_failed" \in failures
                                  \/ k = c
                                  \/ \E y \in results : y.tool = Tool[k]
      BY DEF AnswersInv, ResultsAccounted, c
    <3> QED
      BY <2>1, <2>2, <2>3, <3>1 DEF AnswersInv, ResultsAccounted, LimitEvent
  <2> QED
    BY <1>7, <1>3, <2>1, <2>4 DEF ToolReturns, verdict
<1>8. CASE ToolRaises
  <2>1. ResultsAccounted'
    BY <1>8 DEF AnswersInv, ResultsAccounted, LimitEvent, ToolRaises
  <2> QED
    BY <1>8, <1>3, <2>1 DEF ToolRaises, verdict
<1>9. CASE EndOfRound
  <2>1. ResultsAccounted'
    BY <1>9 DEF AnswersInv, ResultsAccounted, LimitEvent, EndOfRound, ControlledError,
                Ended, tally
  <2> QED
    BY <1>9, <1>3, <2>1 DEF EndOfRound, ControlledError, Ended, verdict
<1>10. CASE UNCHANGED vars
  BY <1>10 DEF vars, tally, verdict, AnswersInv, ResultsAccounted, AnswerIsGrounded,
               SuccessIsComplete, LimitEvent, Supports
<1> QED
  BY <1>2, <1>4, <1>5, <1>6, <1>7, <1>8, <1>9, <1>10 DEF Next, TalkOnly

\* An answer cites retrieved evidence only, leaves no retrieved quotation uncited and
\* rests on a tool that ran; a success has nothing missing.
THEOREM AnswersGrounded == Spec => []AnswersAreEarned
<1>1. AnswersInv => AnswersAreEarned
  BY DEF AnswersInv, AnswersAreEarned
<1> QED
  BY <1>1, BaseInitially, BasePreserved, AnswersInitially, AnswersPreserved, PTL DEF Spec

-----------------------------------------------------------------------------
(* A missing report. *)

\* While the model is asked, no call of an earlier reply is left.
QueueDone == phase = "ask" => queue = << >>

MissInv == QueueDone /\ MissRemembered /\ CorrectionHasEvidence /\ ReportMissReconsidered

\* All that is inductive, together.
RouterInv == Base /\ AnswersInv /\ MissInv

LEMMA MissInitially == Init => MissInv
  BY DEF Init, MissInv, QueueDone, MissRemembered, CorrectionHasEvidence,
         ReportMissReconsidered, NoData

\* Given up in this step: only if no reprompt is due for the missing report.
LEMMA AbstentionReconsidered ==
    ASSUME RouterInv, AnswerGiven \/ CorrectionGiven, outcome' = "abstained"
    PROVE  ReportMissReconsidered'
<1> SUFFICES ASSUME \A x \in results : x.tool = "tool_report",
                    failures \subseteq {"duplicate_tool_call"}, attempted < MaxToolCalls
             PROVE  "report" \in reprompted
  BY DEF ReportMissReconsidered, AnswerGiven, CorrectionGiven, tally, modes
<1>1. NoData
  BY DEF AnswerGiven, CorrectionGiven, Finalize, Ended, ControlledError
<1>2. phase = "ask" /\ Reprompt = {}
  BY <1>1 DEF AnswerGiven, CorrectionGiven, Asking, RouterInv, MissInv, CorrectionHasEvidence
<1>3. queue = << >> /\ ~(\E i \in 1..Len(queue) : Tool[queue[i]] # "tool_report")
  BY <1>2 DEF RouterInv, MissInv, QueueDone
<1>4. reportMiss
  BY <1>1, <1>2, <1>3 DEF RouterInv, MissInv, MissRemembered
<1> QED
  BY <1>2, <1>4 DEF Reprompt

LEMMA MissPreserved == RouterInv /\ [Next]_vars => MissInv'
<1> SUFFICES ASSUME RouterInv, [Next]_vars PROVE MissInv'
  OBVIOUS
<1>0. /\ TypeOK /\ RunningHasCall /\ MissInv
      /\ phase # "done" => outcome = "none"
  BY DEF RouterInv, Base, TypeInv, RoundsAccounted
\* A step that ends the run without giving it up.
<1>1. ASSUME phase' = "done", outcome' # "abstained" PROVE MissInv'
  BY <1>1 DEF MissInv, QueueDone, MissRemembered, CorrectionHasEvidence, ReportMissReconsidered
\* A step of a run that goes on, and waits for no correction.
<1>2. ASSUME outcome' = "none", phase' # "correct", QueueDone', MissRemembered' PROVE MissInv'
  BY <1>2 DEF MissInv, CorrectionHasEvidence, ReportMissReconsidered
<1>3. CASE ModelFails \/ NothingReplied \/ TooManyRounds
  BY <1>3, <1>1 DEF ModelFails, NothingReplied, TooManyRounds, ControlledError, Ended
<1>4. CASE AnswerGiven \/ CorrectionGiven
  <2>1. phase' = "done"
    BY <1>4 DEF AnswerGiven, CorrectionGiven, Finalize, ControlledError, Ended
  <2>2. CASE outcome' = "abstained"
    BY <1>4, <2>1, <2>2, AbstentionReconsidered
       DEF MissInv, QueueDone, MissRemembered, CorrectionHasEvidence
  <2> QED
    BY <2>1, <2>2, <1>1
<1>5. CASE RepromptModel
  <2>1. /\ phase = "ask" /\ phase' = "ask" /\ outcome' = outcome /\ queue' = queue
        /\ results' = results /\ failures' = failures /\ reportMiss' = reportMiss
    BY <1>5 DEF RepromptModel, Asking, tally, verdict
  <2> QED
    BY <1>0, <1>2, <2>1 DEF MissInv, QueueDone, MissRemembered, NoData
<1>6. CASE AskForCorrection
  <2>1. /\ phase = "ask" /\ phase' = "correct" /\ outcome' = outcome /\ queue' = queue
        /\ results' = results /\ failures' = failures /\ reportMiss' = reportMiss
    BY <1>6 DEF AskForCorrection, Asking, tally, modes, verdict
  <2>2. MaterialSupport /\ ~NoData
    BY <1>6 DEF AskForCorrection, RequiresCorrection, MaterialSupport, Supports, NoData
  <2> QED
    BY <1>0, <2>1, <2>2 DEF MissInv, QueueDone, MissRemembered, NoData, MaterialSupport,
          CorrectionHasEvidence, ReportMissReconsidered
<1>7. ASSUME NEW cs \in Requests, RequestTools(cs) PROVE MissInv'
  <2>1. CASE forceFinal
    BY <1>7, <2>1, <1>1 DEF RequestTools, ControlledError, Ended
  <2>2. CASE ~forceFinal
    <3>1. /\ phase = "ask" /\ phase' = "calls" /\ queue' = cs /\ outcome' = outcome
          /\ results' = results /\ failures' = failures
          /\ reportMiss' <=> reportMiss /\ \A i \in 1..Len(cs) : Tool[cs[i]] = "tool_report"
      BY <1>7, <2>2 DEF RequestTools, Asking, verdict
    <3>2. ~(\E i \in 1..Len(queue) : Tool[queue[i]] # "tool_report")
      BY <1>0, <3>1 DEF MissInv, QueueDone
    <3>3. MissRemembered'
      BY <1>0, <3>1, <3>2 DEF MissInv, MissRemembered, NoData
    <3> QED
      BY <1>0, <1>2, <3>1, <3>3 DEF QueueDone
  <2> QED
    BY <2>1, <2>2
<1>8. CASE RefuseCall
  <2> DEFINE c == Head(queue)
  <2>1. /\ phase = "calls" /\ phase' = "calls" /\ outcome' = outcome /\ queue' = Tail(queue)
        /\ results' = results /\ failures' = failures \cup {Refusal(c)}
        /\ reportMiss' = reportMiss /\ queue # << >>
    BY <1>8 DEF RefuseCall, NextCall, modes, verdict
  <2>2. /\ c \in Calls /\ c = queue[1] /\ Len(queue') = Len(queue) - 1 /\ Len(queue) \in Nat
        /\ \A i \in 1..Len(queue') : queue'[i] = queue[i + 1]
    BY <1>0, <2>1, QueueSplits, HeadTailProperties, LenProperties DEF TypeOK
  <2> HIDE DEF c
  <2>3. ASSUME NoData, \A x \in results : x.tool = "tool_report",
               failures \cup {Refusal(c)} \subseteq {"duplicate_tool_call"}, ~reportMiss
        PROVE  \E i \in 1..Len(queue') : Tool[queue'[i]] # "tool_report"
    <3>1. PICK i \in 1..Len(queue) : Tool[queue[i]] # "tool_report"
      BY <1>0, <2>1, <2>3 DEF MissInv, MissRemembered
    <3>2. c \in fingerprints
      BY <1>0, <2>2, <2>3, RefusalCases
    <3>3. Tool[c] = "tool_report"
      BY <2>1, <2>3, <3>2 DEF RouterInv, AnswersInv, ResultsAccounted
    <3>4. i # 1
      BY <2>2, <3>1, <3>3
    <3>5. i - 1 \in 1..Len(queue') /\ queue'[i - 1] = queue[i]
      BY <2>2, <3>1, <3>4
    <3> QED
      BY <3>1, <3>5
  <2>4. MissRemembered'
    BY <2>1, <2>3 DEF MissRemembered, NoData
  <2> QED
    BY <1>0, <1>2, <2>1, <2>4 DEF QueueDone
<1>9. CASE StartTool
  <2>1. /\ phase = "calls" /\ phase' = "running" /\ outcome' = outcome /\ queue' = queue
        /\ results' = results /\ failures' = failures /\ reportMiss' = reportMiss
    BY <1>9 DEF StartTool, NextCall, modes, verdict
  <2> QED
    BY <1>0, <1>2, <2>1 DEF MissInv, QueueDone, MissRemembered, NoData
<1>10. ASSUME NEW x \in Results, ToolReturns(x) PROVE MissInv'
  <2>1. /\ phase = "running" /\ phase' = "calls" /\ outcome' = outcome
        /\ results' = results \cup {x}
        /\ x.status = "not_found" => reportMiss'
    BY <1>10 DEF ToolReturns, verdict
  <2>2. x.tool = "tool_report" /\ x.status \in {"empty", "not_found"} => x.status = "not_found"
    BY DEF Results, ReportResults, SqlResults, RagResults
  <2>3. MissRemembered'
    BY <2>1, <2>2 DEF MissRemembered, NoData
  <2> QED
    BY <1>0, <1>2, <2>1, <2>3 DEF QueueDone
<1>11. CASE ToolRaises
  <2>1. /\ phase = "running" /\ phase' = "calls" /\ outcome' = outcome
        /\ "tool_execution_failed" \in failures'
    BY <1>11 DEF ToolRaises, verdict
  <2> QED
    BY <1>0, <1>2, <2>1 DEF QueueDone, MissRemembered
<1>12. CASE EndOfRound
  <2>1. CASE attempted > MaxToolCalls /\ ~MaterialSupport
    BY <1>12, <2>1, <1>1 DEF EndOfRound, ControlledError, Ended
  <2>2. CASE ~(attempted > MaxToolCalls /\ ~MaterialSupport)
    <3>1. /\ phase = "calls" /\ phase' = "ask" /\ outcome' = outcome /\ queue' = << >>
          /\ queue' = queue /\ results' = results /\ failures' = failures
          /\ reportMiss' = reportMiss
      BY <1>12, <2>2 DEF EndOfRound, tally, verdict
    <3> QED
      BY <1>0, <1>2, <3>1 DEF MissInv, QueueDone, MissRemembered, NoData
  <2> QED
    BY <2>1, <2>2
<1>13. CASE UNCHANGED vars
  BY <1>0, <1>13 DEF vars, tally, modes, verdict, MissInv, QueueDone, MissRemembered,
        CorrectionHasEvidence, ReportMissReconsidered, NoData, MaterialSupport
<1> QED
  BY <1>3, <1>4, <1>5, <1>6, <1>7, <1>8, <1>9, <1>10, <1>11, <1>12, <1>13 DEF Next

\* No request is given up for a missing report before the model was told to consider
\* the other tools, while it still could.
THEOREM MissesReconsidered == Spec => []ReportMissReconsidered
<1>1. Init => RouterInv
  BY BaseInitially, AnswersInitially, MissInitially DEF RouterInv
<1>2. RouterInv /\ [Next]_vars => RouterInv'
  BY BasePreserved, AnswersPreserved, MissPreserved DEF RouterInv
<1>3. RouterInv => ReportMissReconsidered
  BY DEF RouterInv, MissInv
<1> QED
  BY <1>1, <1>2, <1>3, PTL DEF Spec

\* A tool that raised is named by every answer.  The disclosure that FailuresDisclosed asks
\* for is missing in one case only, when all that the other tools returned is no data.
THEOREM UndisclosedOnlyWithoutData ==
    Spec => [](FailuresDisclosed \/ (outcome = "abstained" /\ NoData))
<1> DEFINE Disclosed == FailuresDisclosed \/ (outcome = "abstained" /\ NoData)
           Open == phase # "done" => outcome = "none"
           Inv == Open /\ Disclosed
<1>1. Init => Inv
  BY DEF Init, FailuresDisclosed
<1>2. ASSUME Inv, [Next]_vars PROVE Inv'
  <2>1. CASE phase = "done"
    <3>1. UNCHANGED vars
      BY <1>2, <2>1 DEF Next, ModelFails, RequestTools, RefuseCall, StartTool, ToolReturns,
         ToolRaises, EndOfRound, RepromptModel, NothingReplied, AskForCorrection, AnswerGiven,
         CorrectionGiven, TooManyRounds, Asking, NextCall
    <3> QED
      BY <1>2, <3>1 DEF vars, tally, verdict, FailuresDisclosed, NoData
  <2>2. ASSUME NEW a \in Replies, Finalize(a), UNCHANGED tally PROVE Inv'
    BY <2>2 DEF Finalize, Ended, DataNotes, FailuresDisclosed, NoData, tally
  <2>3. ASSUME outcome' \in {"none", "error", "too_many_rounds"},
               phase' # "done" => outcome' = "none"
        PROVE  Inv'
    BY <2>3 DEF FailuresDisclosed
  <2>4. CASE AnswerGiven
    BY <2>2, <2>4 DEF AnswerGiven
  <2>5. CASE CorrectionGiven
    BY <2>2, <2>3, <2>5 DEF CorrectionGiven, ControlledError, Ended
  <2>6. CASE phase # "done" /\ ~AnswerGiven /\ ~CorrectionGiven
    <3>1. outcome = "none"
      BY <1>2, <2>6
    <3>2. /\ outcome' \in {"none", "error", "too_many_rounds"}
          /\ phase' # "done" => outcome' = "none"
      BY <1>2, <2>6, <3>1 DEF Next, ModelFails, RequestTools, RefuseCall, StartTool,
         ToolReturns, ToolRaises, EndOfRound, RepromptModel, NothingReplied,
         AskForCorrection, TooManyRounds, ControlledError, Ended, verdict, vars
    <3> QED
      BY <2>3, <3>2
  <2> QED
    BY <2>1, <2>4, <2>5, <2>6
<1> QED
  BY <1>1, <1>2, PTL DEF Spec

-----------------------------------------------------------------------------
(* How long a request may take.  EveryRequestAnswered needs fairness and     *)
(* stays with TLC; that there is no infinite request to begin with does not. *)

\* The steps of a round that has begun: two for each call, and its end.
StepsOfRound ==
    CASE phase = "done"    -> 0
      [] phase = "ask"     -> 1
      [] phase = "correct" -> 1
      [] phase = "running" -> 2 * Len(queue) + 1
      [] phase = "calls"   -> 2 * Len(queue) + 2

RoundLength == 2 * MaxCallsPerReply + 2

\* At most so many steps are left.
StepsLeft == (budget - rounds) * RoundLength + StepsOfRound

WithinBudget ==
    /\ rounds <= budget
    /\ phase = "correct" => rounds < budget
    /\ Len(queue) <= MaxCallsPerReply

\* What a step does to the place of a request.
Progress ==
    \/ /\ rounds' = rounds + 1 /\ rounds < budget
       /\ StepsOfRound >= 1 /\ StepsOfRound' <= RoundLength
    \/ /\ rounds' = rounds
       /\ StepsOfRound' < StepsOfRound

LEMMA StepsOfRoundType == TypeOK => StepsOfRound \in Nat
<1> SUFFICES ASSUME TypeOK PROVE StepsOfRound \in Nat
  OBVIOUS
<1>1. Len(queue) \in Nat /\ phase \in Phases
  BY LenProperties DEF TypeOK
<1> QED
  BY <1>1 DEF StepsOfRound, Phases

LEMMA StepsOfRoundTypeAfter == TypeOK' => StepsOfRound' \in Nat
<1> SUFFICES ASSUME TypeOK' PROVE StepsOfRound' \in Nat
  OBVIOUS
<1>1. Len(queue') \in Nat /\ phase' \in Phases
  BY LenProperties DEF TypeOK
<1> QED
  BY <1>1 DEF StepsOfRound, Phases

LEMMA ReplyIsShort == ASSUME NEW cs \in Requests PROVE Len(cs) <= MaxCallsPerReply
<1>1. PICK n \in 1..MaxCallsPerReply : cs \in [1..n -> Calls]
  BY DEF Requests
<1>2. n \in Nat /\ n <= MaxCallsPerReply
  BY RouterAssumption DEF RouterAssumption
<1>3. cs \in Seq(Calls)
  BY <1>1, <1>2, SeqDef
<1>4. Len(cs) = n
  BY <1>1, <1>2, <1>3, LenProperties
<1> QED
  BY <1>2, <1>4

LEMMA EveryStepIsProgress ==
    ASSUME TypeInv, WithinBudget, Next
    PROVE  Progress /\ WithinBudget' /\ budget' = budget
<1>1. /\ Len(queue) \in Nat /\ queue \in Seq(Calls) /\ phase \in Phases
      /\ rounds \in Nat /\ budget \in Nat /\ MaxCallsPerReply \in Nat \ {0}
  BY RouterAssumption, LenProperties DEF TypeInv, TypeOK, RouterAssumption
<1> USE DEF StepsOfRound, Phases
<1>2. ASSUME rounds' = rounds + 1, budget' = budget, queue' = queue,
             (phase = "ask" /\ rounds < budget) \/ phase = "correct",
             \/ phase' \in {"ask", "done"}
             \/ phase' = "correct" /\ rounds + 1 < budget
      PROVE  Progress /\ WithinBudget' /\ budget' = budget
  BY <1>1, <1>2 DEF Progress, WithinBudget, RoundLength
<1>3. CASE ModelFails \/ NothingReplied
  BY <1>2, <1>3 DEF ModelFails, NothingReplied, Asking, Replied, ControlledError, Ended
<1>4. CASE RepromptModel \/ AskForCorrection
  BY <1>2, <1>4 DEF RepromptModel, AskForCorrection, Asking, Replied
<1>5. CASE AnswerGiven \/ CorrectionGiven
  BY <1>2, <1>5 DEF AnswerGiven, CorrectionGiven, Asking, Replied, ControlledError, Finalize,
     Ended
<1>6. ASSUME NEW cs \in Requests, RequestTools(cs)
      PROVE  Progress /\ WithinBudget' /\ budget' = budget
  <2>1. Len(cs) \in Nat /\ Len(cs) <= MaxCallsPerReply
    BY ReplyIsSequence, ReplyIsShort
  <2>2. /\ phase = "ask" /\ rounds < budget /\ rounds' = rounds + 1 /\ budget' = budget
        /\ \/ phase' = "done" /\ queue' = queue
           \/ phase' = "calls" /\ queue' = cs
    BY <1>6 DEF RequestTools, Asking, Replied, ControlledError, Ended
  <2> QED
    BY <1>1, <2>1, <2>2 DEF Progress, WithinBudget, RoundLength
<1>7. ASSUME queue # << >>, queue' = Tail(queue), rounds' = rounds, budget' = budget,
             phase \in {"calls", "running"}, phase' = "calls"
      PROVE  Progress /\ WithinBudget' /\ budget' = budget
  <2>1. Len(queue') = Len(queue) - 1 /\ Len(queue') \in Nat
    BY <1>1, <1>7, QueueSplits, LenProperties
  <2> QED
    BY <1>1, <1>7, <2>1 DEF Progress, WithinBudget
<1>8. CASE RefuseCall
  BY <1>7, <1>8 DEF RefuseCall, NextCall
<1>9. ASSUME NEW x \in Results, ToolReturns(x) PROVE Progress /\ WithinBudget' /\ budget' = budget
  BY <1>7, <1>9 DEF ToolReturns, TypeInv, RunningHasCall
<1>10. CASE ToolRaises
  BY <1>7, <1>10 DEF ToolRaises, TypeInv, RunningHasCall
<1>11. CASE StartTool
  BY <1>1, <1>11 DEF StartTool, NextCall, Progress, WithinBudget
<1>12. CASE EndOfRound
  <2>1. /\ phase = "calls" /\ phase' \in {"ask", "done"} /\ rounds' = rounds
        /\ budget' = budget /\ queue' = queue
    BY <1>12 DEF EndOfRound, ControlledError, Ended
  <2> QED
    BY <1>1, <2>1 DEF Progress, WithinBudget
<1>13. CASE TooManyRounds
  BY <1>1, <1>13 DEF TooManyRounds, Ended, Progress, WithinBudget
<1> QED
  BY <1>3, <1>4, <1>5, <1>6, <1>8, <1>9, <1>10, <1>11, <1>12, <1>13 DEF Next

LEMMA OneFactorLess ==
    ASSUME NEW m \in Nat, NEW n \in Nat
    PROVE  m * n \in Nat /\ (m - 1) * n = m * n - n
BY SMT

LEMMA ProgressIsFewerSteps ==
    ASSUME TypeOK, TypeOK', WithinBudget, Progress, budget' = budget
    PROVE  StepsLeft \in Nat /\ StepsLeft' \in Nat /\ StepsLeft' < StepsLeft
<1>1. /\ rounds \in Nat /\ rounds' \in Nat /\ budget \in Nat
      /\ RoundLength \in Nat /\ StepsOfRound \in Nat /\ StepsOfRound' \in Nat
  <2>1. rounds \in Nat /\ rounds' \in Nat /\ budget \in Nat /\ RoundLength \in Nat
    BY RouterAssumption DEF RouterAssumption, TypeOK, RoundLength
  <2> QED
    BY <2>1, StepsOfRoundType, StepsOfRoundTypeAfter
<1>0. PICK a \in Nat, b \in Nat : a = StepsOfRound /\ b = StepsOfRound'
  BY <1>1
<1>2. PICK m \in Nat : m = budget - rounds
  BY <1>1 DEF WithinBudget
<1>3. PICK p \in Nat : p = m * RoundLength /\ p - RoundLength = (m - 1) * RoundLength
  BY <1>1, OneFactorLess
<1>4. CASE rounds' = rounds
  <2>1. budget' - rounds' = m
    BY <1>2, <1>4
  <2>2. StepsLeft = p + a
    BY <1>0, <1>2, <1>3 DEF StepsLeft
  <2>3. StepsLeft' = p + b
    BY <1>0, <1>3, <2>1 DEF StepsLeft, RoundLength
  <2>4. b < a
    BY <1>0, <1>1, <1>4 DEF Progress
  <2>5. p + a \in Nat /\ p + b \in Nat /\ p + b < p + a
    BY <2>4
  <2> QED
    BY <2>2, <2>3, <2>5
<1>5. CASE rounds' # rounds
  <2>1. rounds' = rounds + 1 /\ rounds < budget
    BY <1>5 DEF Progress
  <2>2. budget' - rounds' = m - 1 /\ m - 1 \in Nat
    BY <1>1, <1>2, <2>1
  <2>3. p - RoundLength \in Nat
    BY <1>1, <1>3, <2>2, OneFactorLess
  <2>4. StepsLeft = p + a
    BY <1>0, <1>2, <1>3 DEF StepsLeft
  <2>5. StepsLeft' = p - RoundLength + b
    BY <1>0, <1>3, <2>2 DEF StepsLeft, RoundLength
  <2>6. a >= 1 /\ b <= RoundLength
    BY <1>0, <1>5 DEF Progress
  <2>7. p + a \in Nat /\ p - RoundLength + b \in Nat /\ p - RoundLength + b < p + a
    BY <1>1, <2>3, <2>6
  <2> QED
    BY <2>4, <2>5, <2>7
<1> QED
  BY <1>4, <1>5

\* No request is infinite: every step of a request leaves fewer steps to take, so that it
\* has at most max_model_rounds * (2 * MaxCallsPerReply + 2) + 1 of them, whatever the
\* model asks for and the tools answer.
THEOREM RequestsAreFinite == Spec => [][StepsLeft' \in Nat /\ StepsLeft' < StepsLeft]_vars
<1>1. Init => TypeInv /\ WithinBudget
  <2>1. Init => /\ rounds = 0 /\ budget \in Nat /\ Len(queue) = 0 /\ phase # "correct"
    BY RouterAssumption, EmptySeq DEF Init, RouterAssumption
  <2> QED
    BY <2>1, TypeInvInitially, RouterAssumption DEF RouterAssumption, WithinBudget
<1>2. TypeInv /\ WithinBudget /\ [Next]_vars => TypeInv' /\ WithinBudget'
  <2>1. UNCHANGED vars /\ WithinBudget => WithinBudget'
    BY DEF vars, WithinBudget
  <2> QED
    BY <2>1, TypeInvPreserved, EveryStepIsProgress
<1>3. TypeInv /\ WithinBudget /\ TypeInv' /\ [Next]_vars
        => [StepsLeft' \in Nat /\ StepsLeft' < StepsLeft]_vars
  BY EveryStepIsProgress, ProgressIsFewerSteps DEF TypeInv
<1> QED
  BY <1>1, <1>2, <1>3, PTL DEF Spec
=============================================================================
