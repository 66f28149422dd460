---------------------------- MODULE AcceptanceProofs ----------------------------
(* What holds of an acceptance run for any calls and allowances.             *)
EXTENDS Acceptance, TLAPS

Completed(S) == \A s \in S : stages[s] = "completed"
Absent(S) == \A s \in S : stages[s] = "absent"
Open(s) == stages[s] \in {"absent", "running"}
Seeding == {"prepare", "seed", "repeat_seed"}
Settled == \A c \in Calls : call[c] \in {"idle", "answered"}

\* Where the run is tells which stages are completed, and which have not begun.
OrderInv ==
    /\ pc = "new" => Absent(StageNames)
    /\ pc = "prepare" => Open("prepare") /\ Absent(StageNames \ {"prepare"})
    /\ pc = "seed" => /\ Completed({"prepare"}) /\ Open("seed")
                      /\ Absent({"repeat_seed", "api", "exercise", "audit"})
    /\ pc = "repeat_seed" => /\ Completed({"prepare", "seed"}) /\ Open("repeat_seed")
                             /\ Absent({"api", "exercise", "audit"})
    /\ pc = "api" => Completed(Seeding) /\ Absent({"api", "exercise", "audit"})
    /\ pc \in {"startup", "probe"} =>
          Completed(Seeding) /\ stages["api"] = "running" /\ Absent({"exercise", "audit"})
    /\ pc = "exercise" => /\ Completed(Seeding) /\ stages["api"] = "running"
                          /\ Open("exercise") /\ Absent({"audit"})
    /\ pc = "audit" => /\ Completed(Seeding \cup {"exercise"}) /\ stages["api"] = "running"
                       /\ Open("audit")
    /\ pc = "shutdown" => /\ stages["api"] = "running"
                          /\ ~raising => Completed(Callbacks)
    /\ pc = "close" /\ ~raising => Completed(StageNames)
    /\ pc = "ended" /\ status = "completed" => Completed(StageNames)

\* The latch is set by every failure, and what is still unsettled when no failure is on
\* its way out is settled before the run ends.
LatchInv ==
    /\ \A c \in Calls : call[c] = "raised" => stopped
    /\ raising => pc \in {"shutdown", "close", "ended"}
    /\ status = "running" <=> pc \notin {"new", "ended"}
    /\ status = "completed" => pc = "ended"
    /\ pc = "new" => Settled /\ ~stopped /\ provider = Summary
    /\ pc \in {"audit", "shutdown"} /\ ~raising => \A c \in Calls : call[c] \notin Active
    /\ pc = "close" /\ ~raising => Settled /\ ~stopped
    /\ pc = "ended" =>
          /\ provider = Summary
          /\ ~stopped => Settled
          /\ status = "completed" => ~stopped /\ ~expired
          /\ status = "failed" => stopped \/ Absent(StageNames)

AcceptanceInv == AcceptanceTypeOK /\ OrderInv /\ LatchInv

-----------------------------------------------------------------------------
LEMMA InitAcceptance == ASSUME AcceptanceAssumption PROVE Init => AcceptanceInv
<1> SUFFICES ASSUME Init PROVE AcceptanceInv
  OBVIOUS
<1>1. AcceptanceTypeOK
  <2>1. counts \in [Kinds -> Nat] /\ \A k \in Kinds : counts[k] <= Cap[k]
    BY DEF Init, AcceptanceAssumption
  <2>2. provider \in Summaries
    BY <2>1 DEF Init, Summary, Summaries
  <2> QED
    BY <2>1, <2>2 DEF Init, AcceptanceTypeOK, StageNames, Callbacks, Places, CallStates, Active
<1>2. OrderInv
  BY DEF Init, OrderInv, Absent, StageNames, Callbacks
<1>3. LatchInv
  BY DEF Init, LatchInv, Settled
<1> QED
  BY <1>1, <1>2, <1>3 DEF AcceptanceInv

\* The provider calls.
LEMMA CallSteps ==
    ASSUME AcceptanceAssumption, AcceptanceInv,
           NEW c \in Calls, BeginCall(c) \/ CallStep(c)
    PROVE  AcceptanceInv'
<1> USE DEF AcceptanceInv, AcceptanceTypeOK, OrderInv, LatchInv, Settled, Absent, Completed,
            Open,
            Summary, CallStates, Active, record
<1>1. CASE BeginCall(c)
  <2>1. AcceptanceTypeOK'
    BY <1>1 DEF BeginCall, CallGoes, Places
  <2>2. OrderInv'
    BY <1>1 DEF BeginCall, MayCall
  <2>3. LatchInv'
    BY <1>1 DEF BeginCall, MayCall, CallGoes
  <2> QED
    BY <2>1, <2>2, <2>3
<1>2. CASE Admit(c)
  <2>1. AcceptanceTypeOK'
    BY <1>2, AcceptanceAssumption DEF Admit, CallGoes, AcceptanceAssumption
  <2>2. OrderInv' /\ LatchInv'
    BY <1>2 DEF Admit, CallGoes
  <2> QED
    BY <2>1, <2>2
<1>3. CASE Refuse(c)
  <2>1. AcceptanceTypeOK'
    BY <1>3 DEF Refuse, Raise
  <2>2. OrderInv'
    BY <1>3 DEF Refuse, Raise
  <2>3. LatchInv'
    BY <1>3 DEF Refuse, Raise
  <2> QED
    BY <2>1, <2>2, <2>3
<1>4. CASE Respond(c)
  <2>1. AcceptanceTypeOK'
    BY <1>4 DEF Respond, CallGoes, Release
  <2>2. OrderInv'
    BY <1>4 DEF Respond, CallGoes, Release
  <2>3. LatchInv'
    BY <1>4 DEF Respond, CallGoes, Release
  <2> QED
    BY <2>1, <2>2, <2>3
<1>5. CASE WireFails(c)
  <2>1. AcceptanceTypeOK'
    BY <1>5 DEF WireFails, Raise, Release
  <2>2. OrderInv'
    BY <1>5 DEF WireFails, Raise, Release
  <2>3. LatchInv'
    BY <1>5 DEF WireFails, Raise, Release
  <2> QED
    BY <2>1, <2>2, <2>3
<1>6. CASE Parse(c)
  <2>1. AcceptanceTypeOK'
    BY <1>6 DEF Parse, CallGoes, Raise
  <2>2. OrderInv'
    BY <1>6 DEF Parse, CallGoes, Raise
  <2>3. LatchInv'
    BY <1>6 DEF Parse, CallGoes, Raise
  <2> QED
    BY <2>1, <2>2, <2>3
<1>7. CASE CancelLands(c)
  <2>1. AcceptanceTypeOK'
    BY <1>7 DEF CancelLands, Raise, Release
  <2>2. OrderInv'
    BY <1>7 DEF CancelLands, Raise, Release
  <2>3. LatchInv'
    BY <1>7 DEF CancelLands, Raise, Release
  <2> QED
    BY <2>1, <2>2, <2>3
<1> QED
  BY <1>1, <1>2, <1>3, <1>4, <1>5, <1>6, <1>7 DEF CallStep

\* The start of the run, and failures and cancellations that meet it between stages.
LEMMA OutsideSteps ==
    ASSUME AcceptanceAssumption, AcceptanceInv,
           Start \/ StopAcceptanceRun \/ Expire \/ CancelledOutside
    PROVE  AcceptanceInv'
<1> USE DEF AcceptanceInv, AcceptanceTypeOK, OrderInv, LatchInv, Settled, Absent, Completed,
            Open,
            Summary, CallStates, Active, record, guard
<1>1. CASE Start
  <2>1. AcceptanceTypeOK'
    BY <1>1 DEF Start, Places, StageNames, Callbacks
  <2>2. OrderInv'
    BY <1>1 DEF Start, Places, StageNames, Callbacks
  <2>3. LatchInv'
    BY <1>1 DEF Start, Places, StageNames, Callbacks
  <2> QED
    BY <2>1, <2>2, <2>3
<1>2. CASE StopAcceptanceRun
  BY <1>2 DEF StopAcceptanceRun
<1>3. CASE Expire \/ CancelledOutside
  <2>1. Cancel /\ Running /\ UNCHANGED <<pc, record>> /\ expired' \in BOOLEAN
    BY <1>3 DEF Expire, CancelledOutside
  <2>2. PICK hit \in SUBSET {c \in Calls : call[c] \in Active} :
           /\ call' = [c \in Calls |-> IF c \in hit THEN "raised" ELSE call[c]]
           /\ holder' = IF holder \in hit THEN Nobody ELSE holder
           /\ stopped' = (stopped \/ hit # {})
           /\ raising' = (raising \/ pc \in {"shutdown", "close"})
           /\ UNCHANGED counts
    BY <2>1 DEF Cancel
  <2>3. AcceptanceTypeOK'
    BY <2>1, <2>2
  <2>4. OrderInv'
    BY <2>1, <2>2 DEF Running
  <2>5. LatchInv'
    BY <2>1, <2>2 DEF Running
  <2> QED
    BY <2>3, <2>4, <2>5
<1> QED
  BY <1>1, <1>2, <1>3

\* The stages.
LEMMA StageSteps ==
    ASSUME AcceptanceAssumption, AcceptanceInv, CallbackEnds \/ RunStep
    PROVE  AcceptanceInv'
<1> USE DEF AcceptanceInv, AcceptanceTypeOK, OrderInv, LatchInv, Settled, Absent, Completed,
            Open,
            Summary, Summaries, CallStates, Active, Places, StageNames, Callbacks, Seeding,
            record, guard
<1>1. ASSUME NEW s \in StageNames, BeginStage(s) PROVE AcceptanceInv'
  <2>1. CASE stopped
    <3>1. FailStage(s) /\ pc = s /\ UNCHANGED <<counts, holder, call, status, expired>>
      BY <1>1, <2>1 DEF BeginStage
    <3>2. AcceptanceTypeOK'
      BY <3>1 DEF FailStage, EndStage
    <3>3. OrderInv'
      BY <3>1 DEF FailStage, EndStage
    <3>4. LatchInv'
      BY <3>1 DEF FailStage, EndStage
    <3> QED
      BY <3>2, <3>3, <3>4
  <2>2. CASE ~stopped
    BY <1>1, <2>2 DEF BeginStage
  <2> QED
    BY <2>1, <2>2
<1>2. ASSUME NEW s \in Callbacks, StageReturns(s) PROVE AcceptanceInv'
  <2>1. CASE expired \/ stopped
    BY <1>2, <2>1 DEF StageReturns, FailStage, EndStage, LeaveServer
  <2>2. CASE ~expired /\ ~stopped
    BY <1>2, <2>2 DEF StageReturns, EndStage, LeaveServer, After
  <2> QED
    BY <2>1, <2>2
<1>3. ASSUME NEW s \in Callbacks, StageRaises(s) PROVE AcceptanceInv'
  BY <1>3 DEF StageRaises, FailStage, EndStage, LeaveServer
<1>4. CASE StartupDone
  BY <1>4 DEF StartupDone
<1>5. CASE StartupFails
  BY <1>5 DEF StartupFails, FailStage, EndStage
<1>6. CASE ShutdownDone
  BY <1>6 DEF ShutdownDone, EndStage
<1>7. CASE CloseDone
  BY <1>7 DEF CloseDone
<1> QED
  BY <1>1, <1>2, <1>3, <1>4, <1>5, <1>6, <1>7 DEF CallbackEnds, RunStep

LEMMA AcceptanceStep ==
    ASSUME AcceptanceAssumption, AcceptanceInv, [Next]_vars PROVE AcceptanceInv'
<1>1. CASE UNCHANGED vars
  BY <1>1 DEF vars, guard, record, AcceptanceInv, AcceptanceTypeOK, OrderInv, LatchInv,
              Settled, Absent,
              Completed, Open, Summary
<1> QED
  BY <1>1, CallSteps, OutsideSteps, StageSteps DEF Next

LEMMA Invariance == Spec => []AcceptanceInv
BY AcceptanceAssumption, InitAcceptance, AcceptanceStep, PTL DEF Spec

-----------------------------------------------------------------------------
\* Every variable of the run keeps its type; no allowance is exceeded.
THEOREM TypeCorrect == Spec => []AcceptanceTypeOK
<1>1. AcceptanceInv => AcceptanceTypeOK
  BY DEF AcceptanceInv
<1> QED
  BY <1>1, Invariance, PTL

\* Completion means that nothing failed, swallowed or late, for any number of calls.
THEOREM CompletionIsClean == Spec => []CompletedIsClean
<1>1. AcceptanceInv => CompletedIsClean
  BY DEF AcceptanceInv, OrderInv, LatchInv, CompletedIsClean, Settled, Completed
<1> QED
  BY <1>1, Invariance, PTL

\* The record of a run that is over agrees with its guard for ever.
THEOREM RecordsAreFinal == Spec => []RecordIsFinal
<1>1. AcceptanceInv => RecordIsFinal
  BY DEF AcceptanceInv, LatchInv, RecordIsFinal, Absent
<1> QED
  BY <1>1, Invariance, PTL

\* The record of a run can be believed: completed is clean, and failed is stopped.
THEOREM RecordsAreTrue == Spec => []RecordIsTrue
  BY CompletionIsClean, RecordsAreFinal, PTL DEF RecordIsTrue

\* After the failure of any call nothing is sent any more.
THEOREM FailureHalts == Spec => HaltsAfterFailure
<1>1. ASSUME AcceptanceInv, [Next]_vars
      PROVE  [stopped \/ (\E c \in Calls : call[c] = "raised")
                 => stopped' /\ counts' = counts]_vars
  <2> SUFFICES ASSUME stopped, Next PROVE stopped' /\ counts' = counts
    BY <1>1 DEF AcceptanceInv, LatchInv
  <2> USE DEF guard, record
  <2>1. ASSUME NEW c \in Calls, BeginCall(c) \/ CallStep(c) PROVE stopped' /\ counts' = counts
    BY <2>1 DEF BeginCall, CallStep, Admit, Refuse, Respond, WireFails, Parse, CancelLands, Raise
  <2>2. CASE Start \/ StopAcceptanceRun
    BY <2>2 DEF Start, StopAcceptanceRun
  <2>3. CASE Expire \/ CancelledOutside
    BY <2>3 DEF Expire, CancelledOutside, Cancel
  <2>4. CASE CallbackEnds
    BY <2>4 DEF CallbackEnds, StageReturns, StageRaises, FailStage, EndStage
  <2>5. CASE RunStep
    BY <2>5 DEF RunStep, BeginStage, StartupDone, StartupFails, ShutdownDone, CloseDone,
                FailStage, EndStage
  <2> QED
    BY <2>1, <2>2, <2>3, <2>4, <2>5 DEF Next
<1> QED
  BY <1>1, Invariance, PTL DEF Spec, HaltsAfterFailure

\* A stage begins once, after those before it and with no failure behind it.
THEOREM StagesInOrder == Spec => StageBeginsClean
<1>1. ASSUME AcceptanceInv, [Next]_vars
      PROVE  [\A s \in StageNames : stages[s] # "running" /\ stages'[s] = "running" =>
                 /\ stages[s] = "absent"
                 /\ \A p \in Before(s) : stages[p] = "completed"
                 /\ \A c \in Calls : call[c] # "raised"]_vars
  <2> SUFFICES ASSUME NEW s \in StageNames, stages[s] # "running", stages'[s] = "running", Next
               PROVE  /\ stages[s] = "absent"
                      /\ \A p \in Before(s) : stages[p] = "completed"
                      /\ \A c \in Calls : call[c] # "raised"
    BY <1>1
  <2> USE DEF guard, record
  <2>1. ASSUME NEW c \in Calls, BeginCall(c) \/ CallStep(c) PROVE FALSE
    BY <2>1 DEF BeginCall, CallStep, Admit, Refuse, Respond, WireFails, Parse, CancelLands
  <2>2. CASE Start \/ StopAcceptanceRun \/ Expire \/ CancelledOutside
    BY <2>2 DEF Start, StopAcceptanceRun, Expire, CancelledOutside
  <2>3. CASE CallbackEnds
    BY <1>1, <2>3 DEF CallbackEnds, StageReturns, StageRaises, FailStage, EndStage,
                      AcceptanceInv, AcceptanceTypeOK
  <2>4. ASSUME NEW t \in StageNames, BeginStage(t)
        PROVE  t = s /\ stages[s] = "absent" /\ pc = s /\ ~stopped
    BY <1>1, <2>4 DEF BeginStage, FailStage, EndStage, AcceptanceInv, AcceptanceTypeOK
  <2>5. ASSUME pc = s, ~stopped, stages[s] = "absent"
        PROVE  /\ \A p \in Before(s) : stages[p] = "completed"
               /\ \A c \in Calls : call[c] # "raised"
    BY <1>1, <2>5 DEF AcceptanceInv, OrderInv, LatchInv, Before, Completed, Seeding,
                      StageNames, Callbacks
  <2>6. CASE StartupDone \/ StartupFails \/ ShutdownDone \/ CloseDone
    BY <1>1, <2>6 DEF StartupDone, StartupFails, ShutdownDone, CloseDone, FailStage, EndStage,
                      AcceptanceInv, AcceptanceTypeOK
  <2> QED
    BY <2>1, <2>2, <2>3, <2>4, <2>5, <2>6 DEF Next, RunStep
<1> QED
  BY <1>1, Invariance, PTL DEF Spec, StageBeginsClean

\* A failure stops the run at once, and no stage begins behind one.
THEOREM RunsStop == Spec => StopsAtFailure
  BY FailureHalts, StagesInOrder, PTL DEF StopsAtFailure
=============================================================================
