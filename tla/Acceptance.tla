------------------------------- MODULE Acceptance -------------------------------
(***************************************************************************)
(* One acceptance run: run_business_acceptance (shared/acceptance/          *)
(* workflow.py) and the guard all its provider requests pass                *)
(* (shared/acceptance/transport.py, runtime.py).                            *)
(*                                                                          *)
(* The run is a sequence of stages, each a callback.  A callback, and in    *)
(* the exercise the handlers of the API, make provider calls, several at    *)
(* the same time; the guard lets one pass at a time, counts it before it is *)
(* sent, and stops for good after any failure.  A call that failed is not   *)
(* always noticed: a callback may swallow its exception, as it may swallow  *)
(* the cancellation when the deadline expires.                              *)
(***************************************************************************)
EXTENDS Integers, FiniteSets

CONSTANTS
    Calls,   \* provider calls the callbacks and handlers may make
    Kind,    \* the endpoint of a call
    Cap,     \* chat_requests and embedding_requests
    Nobody   \* no call

Kinds == {"chat", "embedding"}

ASSUME AcceptanceAssumption ==
    /\ IsFiniteSet(Calls)
    /\ Nobody \notin Calls
    /\ Kind \in [Calls -> Kinds]
    /\ Cap \in [Kinds -> Nat \ {0}]

VARIABLES
    stopped,   \* the guard's latch
    holder,    \* the call that holds the guard's lock
    counts,    \* outbound attempts
    call,      \* where each call is
    pc,        \* the stage the run is in
    stages,    \* the entries of the record's stages
    raising,   \* an exception is on its way out of the run
    expired,   \* the deadline has expired
    status,    \* status of the record
    provider   \* provider of the record

guard == <<stopped, holder, counts, call>>
record == <<stages, status, provider>>
vars == <<guard, pc, record, raising, expired>>

Callbacks == {"prepare", "seed", "repeat_seed", "exercise", "audit"}
StageNames == Callbacks \cup {"api"}
Places == StageNames \cup {"new", "startup", "probe", "shutdown", "close", "ended"}
Active == {"waiting", "wire", "parsing"}
CallStates == Active \cup {"idle", "cancelled", "answered", "raised"}

Summary == [attempts |-> counts, stopped |-> stopped]
Summaries == [attempts : [Kinds -> Nat], stopped : BOOLEAN]

AcceptanceTypeOK ==
    /\ stopped \in BOOLEAN
    /\ holder \in Calls \cup {Nobody}
    /\ counts \in [Kinds -> Nat]
    /\ \A k \in Kinds : counts[k] <= Cap[k]
    /\ call \in [Calls -> CallStates]
    /\ pc \in Places
    /\ stages \in [StageNames -> {"absent", "running", "completed", "failed"}]
    /\ raising \in BOOLEAN
    /\ expired \in BOOLEAN
    /\ status \in {"not_started", "running", "completed", "failed"}
    /\ provider \in Summaries

Init ==
    /\ stopped = FALSE
    /\ holder = Nobody
    /\ counts = [k \in Kinds |-> 0]
    /\ call = [c \in Calls |-> "idle"]
    /\ pc = "new"
    /\ stages = [s \in StageNames |-> "absent"]
    /\ raising = FALSE
    /\ expired = FALSE
    /\ status = "not_started"
    /\ provider = Summary  \* None in the code: no stage has ended

-----------------------------------------------------------------------------
(* A provider call: an adapter over the SDK over AcceptanceTransport.       *)

CallGoes(c, from, to) ==
    /\ call[c] = from
    /\ call' = [call EXCEPT ![c] = to]

\* Mutant: the adapters leave the latch to the guard.
RaiseUnlatched(c) ==
    /\ call' = [call EXCEPT ![c] = "raised"]
    /\ stopped' = (stopped \/ holder = c)

\* The adapters latch every exception, the guard those of a request it let in.
Raise(c) ==
    /\ call' = [call EXCEPT ![c] = "raised"]
    /\ stopped' = TRUE

Release(c) == holder' = IF holder = c THEN Nobody ELSE holder

\* A callback runs and may call the provider; at startup the lifespan probes it once.
MayCall(c) ==
    \/ pc \in {"prepare", "seed", "repeat_seed", "exercise"} /\ stages[pc] = "running"
    \/ pc = "startup" /\ Kind[c] = "embedding"

BeginCall(c) ==
    /\ MayCall(c)
    /\ CallGoes(c, "idle", "waiting")
    /\ pc' = IF pc = "startup" THEN "probe" ELSE pc
    /\ UNCHANGED <<stopped, holder, counts, record, raising, expired>>

\* Mutant: the allowance is compared after the attempt before it was counted.
AdmitOneTooMany(c) ==
    /\ call[c] = "waiting"
    /\ holder = Nobody
    /\ ~stopped
    /\ counts[Kind[c]] <= Cap[Kind[c]]
    /\ counts' = [counts EXCEPT ![Kind[c]] = @ + 1]
    /\ holder' = c
    /\ CallGoes(c, "waiting", "wire")
    /\ UNCHANGED <<stopped, pc, record, raising, expired>>

\* The lock is free: the attempt is reserved and then sent.
Admit(c) ==
    /\ call[c] = "waiting"
    /\ holder = Nobody
    /\ ~stopped
    /\ counts[Kind[c]] < Cap[Kind[c]]
    /\ counts' = [counts EXCEPT ![Kind[c]] = @ + 1]
    /\ holder' = c
    /\ CallGoes(c, "waiting", "wire")
    /\ UNCHANGED <<stopped, pc, record, raising, expired>>

\* The latch is set, the allowance exhausted, or the request not one of the plan.
Refuse(c) ==
    /\ call[c] = "waiting"
    /\ holder = Nobody
    /\ Raise(c)
    /\ UNCHANGED <<holder, counts, pc, record, raising, expired>>

Respond(c) ==
    /\ CallGoes(c, "wire", "parsing")
    /\ Release(c)
    /\ UNCHANGED <<stopped, counts, pc, record, raising, expired>>

\* A wire error, a timeout, a status other than 2xx, or no usage.
WireFails(c) ==
    /\ call[c] = "wire"
    /\ Raise(c)
    /\ Release(c)
    /\ UNCHANGED <<counts, pc, record, raising, expired>>

\* The adapter accepts the response, or finds nothing usable in it.
Parse(c) ==
    /\ call[c] = "parsing"
    /\ \/ CallGoes(c, "parsing", "answered") /\ UNCHANGED stopped
       \/ Raise(c)
    /\ UNCHANGED <<holder, counts, pc, record, raising, expired>>

\* A handler the server cancelled at its shutdown comes to its next await.
CancelLands(c) ==
    /\ call[c] = "cancelled"
    /\ Raise(c)
    /\ Release(c)
    /\ UNCHANGED <<counts, pc, record, raising, expired>>

\* A handler reports an answer, a report or a stream that is not acceptable.
StopAcceptanceRun ==
    /\ pc = "exercise" /\ stages[pc] = "running"
    /\ stopped' = TRUE
    /\ UNCHANGED <<holder, counts, call, pc, record, raising, expired>>

-----------------------------------------------------------------------------
(* The workflow.                                                            *)

\* The timeout or the policy is refused, the credentials are refused by the adapters, or
\* the first stage begins.
Start ==
    /\ pc = "new"
    /\ \/ pc' = "ended" /\ status' \in {"not_started", "failed"}
       \/ pc' = "prepare" /\ status' = "running"
    /\ UNCHANGED <<guard, stages, provider, raising, expired>>

\* Mutant: the second seed, which checks that seeding is idempotent, is left out.
AfterSkipping(s) == [prepare |-> "seed", seed |-> "api", repeat_seed |-> "api",
                     exercise |-> "audit", audit |-> "shutdown"][s]

After(s) == [prepare |-> "seed", seed |-> "repeat_seed", repeat_seed |-> "api",
             exercise |-> "audit", audit |-> "shutdown"][s]

\* The stage ends, and the provider summary of the record with it.
EndStage(s, how) ==
    /\ stages' = [stages EXCEPT ![s] = how]
    /\ stopped' = (stopped \/ how = "failed")
    /\ raising' = (raising \/ how = "failed")
    /\ provider' = [attempts |-> counts, stopped |-> stopped']

\* exercise and audit run inside the API, which is shut down on the way out.
FailStage(s) ==
    /\ EndStage(s, "failed")
    /\ pc' = IF s \in {"exercise", "audit"} THEN "shutdown" ELSE "close"

\* acceptance_server waits for its handlers, and cancels them after two seconds.
LeaveServer(s) ==
    call' = IF s = "exercise"
            THEN [c \in Calls |-> IF call[c] \in Active THEN "cancelled" ELSE call[c]]
            ELSE call

BeginStage(s) ==
    /\ pc = s
    /\ stages[s] = "absent"
    /\ IF stopped
       THEN FailStage(s)
       ELSE /\ stages' = [stages EXCEPT ![s] = "running"]
            /\ pc' = IF s = "api" THEN "startup" ELSE s
            /\ UNCHANGED <<stopped, raising, provider>>
    /\ UNCHANGED <<holder, counts, call, status, expired>>

\* A callback returns, whatever it swallowed, once its calls are over.
StageReturns(s) ==
    /\ pc = s
    /\ stages[s] = "running"
    /\ s # "exercise" => \A c \in Calls : call[c] \notin Active
    /\ IF expired \/ stopped
       THEN FailStage(s)
       ELSE EndStage(s, "completed") /\ pc' = After(s)
    /\ LeaveServer(s)
    /\ UNCHANGED <<holder, counts, status, expired>>

\* A callback raises.  Its other calls, if it gathered several, go on.
StageRaises(s) ==
    /\ pc = s
    /\ stages[s] = "running"
    /\ FailStage(s)
    /\ LeaveServer(s)
    /\ UNCHANGED <<holder, counts, status, expired>>

\* The lifespan of the API: the probe was answered and had the right dimension.
StartupDone ==
    /\ pc = "probe"
    /\ \A c \in Calls : call[c] \notin Active
    /\ ~stopped
    /\ pc' = "exercise"
    /\ UNCHANGED <<guard, record, raising, expired>>

\* A resource or the probe fails; the database is closed, and the stage api ends.
StartupFails ==
    /\ pc \in {"startup", "probe"}
    /\ \A c \in Calls : call[c] \notin Active
    /\ FailStage("api")
    /\ UNCHANGED <<holder, counts, call, status, expired>>

\* The lifespan closes the database, which takes a turn of the event loop: handlers
\* that were cancelled have come to their end.
ShutdownDone ==
    /\ pc = "shutdown"
    /\ \A c \in Calls : call[c] # "cancelled"
    /\ EndStage("api", IF raising \/ expired \/ stopped THEN "failed" ELSE "completed")
    /\ pc' = "close"
    /\ UNCHANGED <<holder, counts, call, status, expired>>

\* The clients are closed, the deadline is left, and the record is final.
CloseDone ==
    /\ pc = "close"
    /\ pc' = "ended"
    /\ LET failed == raising \/ expired
       IN  /\ status' = IF failed THEN "failed" ELSE "completed"
           /\ stopped' = (stopped \/ failed)
           /\ provider' = [attempts |-> counts, stopped |-> stopped']
    /\ UNCHANGED <<holder, counts, call, stages, raising, expired>>

-----------------------------------------------------------------------------
(* Cancellation, by the deadline or from outside.                           *)

\* It is raised where the run awaits: in the calls it waits for (those of a callback, but
\* not the handlers of the server nor what a callback shields or left behind), or in the
\* shutdown and the closing.
Cancel ==
    \E hit \in SUBSET {c \in Calls : call[c] \in Active} :
        /\ call' = [c \in Calls |-> IF c \in hit THEN "raised" ELSE call[c]]
        /\ holder' = IF holder \in hit THEN Nobody ELSE holder
        /\ stopped' = (stopped \/ hit # {})
        /\ raising' = (raising \/ pc \in {"shutdown", "close"})
        /\ UNCHANGED counts

Running == pc \notin {"new", "ended"}

\* Mutant: the deadline covers the callbacks before the API starts only.
ExpireEarly ==
    /\ pc \in {"prepare", "seed", "repeat_seed"}
    /\ ~expired
    /\ expired' = TRUE
    /\ Cancel
    /\ UNCHANGED <<pc, record>>

Expire ==
    /\ Running
    /\ ~expired
    /\ expired' = TRUE
    /\ Cancel
    /\ UNCHANGED <<pc, record>>

CancelledOutside ==
    /\ Running
    /\ Cancel
    /\ UNCHANGED <<pc, record, expired>>

-----------------------------------------------------------------------------
CallStep(c) == Admit(c) \/ Refuse(c) \/ Respond(c) \/ WireFails(c) \/ Parse(c) \/ CancelLands(c)
CallbackEnds == \E s \in Callbacks : StageReturns(s) \/ StageRaises(s)
RunStep ==
    \/ \E s \in StageNames : BeginStage(s)
    \/ StartupDone \/ StartupFails \/ ShutdownDone \/ CloseDone

Next ==
    \/ \E c \in Calls : BeginCall(c) \/ CallStep(c)
    \/ StopAcceptanceRun \/ Start \/ CallbackEnds \/ RunStep
    \/ Expire \/ CancelledOutside

Spec == Init /\ [][Next]_vars

\* Calls have timeouts and the run's own code goes on; a callback need not return of its
\* own accord, but once the deadline has expired it ends: "cancellation is cooperative".
FairSpec ==
    /\ Spec
    /\ \A c \in Calls : WF_vars(CallStep(c))
    /\ WF_vars(RunStep) /\ WF_vars(Expire)
    /\ WF_vars(expired /\ CallbackEnds)

-----------------------------------------------------------------------------
(* The offline plan: build_plan of shared/acceptance/planning.py. *)

\* Requests of a run over some documents, when a question takes at most so many model
\* rounds and tool calls (the bounds of AgentRouter): one chat per document, two seeds of
\* three mentions a document in batches of 64, the startup probe, five questions and
\* two reports.
PlannedRequests(documents, rounds, toolCalls) ==
    [chat |-> documents + 5 * rounds + 2,
     embedding |-> 2 * ((3 * documents + 63) \div 64) + 1 + 5 * toolCalls + 4]

-----------------------------------------------------------------------------
\* A run that reports completion had no failure at all: no provider call raised, also
\* none whose exception a callback swallowed or a handler met after the exercise, the
\* deadline did not expire, and every stage completed.
CompletedIsClean ==
    status = "completed" =>
        /\ ~stopped /\ ~expired
        /\ \A c \in Calls : call[c] \in {"idle", "answered"}
        /\ \A s \in StageNames : stages[s] = "completed"

\* When a run is over its record says what the guard says, and that of a failed run that
\* it is stopped: no callback or handler left behind can reach the provider.
RecordIsFinal ==
    pc = "ended" =>
        /\ provider = Summary
        /\ status = "failed" /\ (\E s \in StageNames : stages[s] # "absent") => stopped

\* Both together: the record of a run can be believed.
RecordIsTrue == CompletedIsClean /\ RecordIsFinal

\* "halt after any failure" (shared/acceptance/transport.py:61): after the failure of a
\* call, whoever made it and whoever caught it, nothing more is sent, in this stage or a
\* later one.
HaltsAfterFailure ==
    [][stopped \/ (\E c \in Calls : call[c] = "raised") => stopped' /\ counts' = counts]_vars

Before(s) == CASE s = "prepare" -> {}
               [] s = "seed" -> {"prepare"}
               [] s = "repeat_seed" -> {"prepare", "seed"}
               [] s = "api" -> {"prepare", "seed", "repeat_seed"}
               [] s = "exercise" -> {"prepare", "seed", "repeat_seed"}
               [] s = "audit" -> {"prepare", "seed", "repeat_seed", "exercise"}

\* A stage begins once, after those before it completed and with no call failed.
StageBeginsClean ==
    [][\A s \in StageNames : stages[s] # "running" /\ stages'[s] = "running" =>
          /\ stages[s] = "absent"
          /\ \A p \in Before(s) : stages[p] = "completed"
          /\ \A c \in Calls : call[c] # "raised"]_vars

\* Both together: a failure stops the run, and a stage never begins behind one.
StopsAtFailure == HaltsAfterFailure /\ StageBeginsClean

\* A started run comes to its end, also when a callback would wait forever.
RunEnds == status = "running" ~> status \in {"completed", "failed"}
=============================================================================
