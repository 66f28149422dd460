------------------------------ MODULE Conversation ------------------------------
(***************************************************************************)
(* POST /api/ask: ConversationService.run_turn                              *)
(* (backend/app/agent/conversation.py) under stream_ask_events              *)
(* (backend/app/api/ask.py), several requests at the same time, for the     *)
(* same chat session or for others.  A request that names no session        *)
(* creates one, in the transaction of its turn: a session is named after    *)
(* the request that created it.                                             *)
(*                                                                          *)
(* A request is two tasks that share a database transaction: the turn       *)
(* (reads the history, runs the router, writes the two messages) and the    *)
(* stream (relays the lifecycle events to the client, commits, sends the    *)
(* answer).  The stream waits for its client at every event it sends; the   *)
(* turn does not wait for the stream.  What the router does inside a turn   *)
(* is the module AgentRouter; here it emits events and ends.                *)
(***************************************************************************)
EXTENDS Integers, FiniteSets

CONSTANTS
    Requests,   \* requests
    Nobody,     \* no request
    Earlier,    \* a request answered before all others, or Nobody
    Limit,      \* recent_message_limit
    MaxEvents,  \* bound on the lifecycle events of a turn
    Clocks      \* what the clocks of the servers may show

ASSUME ConversationAssumption ==
    /\ Nobody \notin Requests
    /\ Earlier \in Requests \cup {Nobody}
    /\ Limit \in Nat \ {0}
    /\ MaxEvents \in Nat
    /\ Clocks \subseteq Nat

VARIABLES
    stored,     \* requests whose two messages are committed
    updatedAt,  \* chat_sessions.updated_at of each session, committed
    lock,       \* the request holding a session row FOR UPDATE
    session,    \* the session a request works on
    turn,       \* where the turn task of a request is
    stream,     \* where its event stream is
    stamp,      \* created_at of its user message; one more is the answer's
    history,    \* the stored messages its router was given
    emitted,    \* lifecycle events put into its queue
    sent,       \* lifecycle events sent to its client
    told        \* the terminal event its client was sent

vars == <<stored, updatedAt, lock, session, turn, stream, stamp, history, emitted, sent, told>>

Turns == {"none", "read", "route", "persist", "answered", "erred", "failed", "cancelled"}
Streams == {"idle", "relay", "commit", "answer", "ended"}
Events == {"none", "error", "done"}
Messages == [req : Requests, role : {"user", "assistant"}, at : Nat]

\* The turn task is over.
Finished(r) == turn[r] \in {"answered", "erred", "failed"}

TypeOK ==
    /\ stored \subseteq Requests
    /\ updatedAt \in [Requests -> Nat]
    /\ lock \in [Requests -> Requests \cup {Nobody}]
    /\ session \in [Requests -> Requests \cup {Nobody}]
    /\ turn \in [Requests -> Turns]
    /\ stream \in [Requests -> Streams]
    /\ stamp \in [Requests -> Nat]
    /\ history \in [Requests -> SUBSET Messages]
    /\ emitted \in [Requests -> 0..MaxEvents]
    /\ sent \in [Requests -> 0..MaxEvents]
    /\ told \in [Requests -> Events]

\* Where the model starts: with no session, or with one that has its first turn.
First(earlier, others) == [r \in Requests |-> IF r = Earlier THEN earlier ELSE others]

Init ==
    /\ stored = {Earlier} \cap Requests
    /\ updatedAt = First(2, 0)
    /\ lock = [s \in Requests |-> Nobody]
    /\ session = First(Earlier, Nobody)
    /\ turn = First("answered", "none")
    /\ stream = First("ended", "idle")
    /\ stamp = First(1, 0)
    /\ history = [r \in Requests |-> {}]
    /\ emitted = [r \in Requests |-> 0]
    /\ sent = [r \in Requests |-> 0]
    /\ told = First("done", "none")

UserMessage(r) == [req |-> r, role |-> "user", at |-> stamp[r]]
AssistantMessage(r) == [req |-> r, role |-> "assistant", at |-> stamp[r] + 1]
TurnsOf(s) == {r \in stored : session[r] = s}
Stored(s) == {UserMessage(r) : r \in TurnsOf(s)} \cup {AssistantMessage(r) : r \in TurnsOf(s)}

\* A session row is committed with its first turn; its own request sees it before.
Exists(r) == session[r] = r \/ TurnsOf(session[r]) # {}

-----------------------------------------------------------------------------
(* The turn task: run_turn.                                                 *)

TurnGoes(r, from, to) ==
    /\ turn[r] = from
    /\ turn' = [turn EXCEPT ![r] = to]

\* Mutant: LIMIT without ORDER BY.
RecentUnordered(H, s) ==
    /\ H \subseteq Stored(s)
    /\ Cardinality(H) = Limit \/ (Cardinality(H) < Limit /\ H = Stored(s))

\* The newest messages, at most Limit of them.
Recent(H, s) ==
    /\ H \subseteq Stored(s)
    /\ Cardinality(H) = Limit \/ (Cardinality(H) < Limit /\ H = Stored(s))
    /\ \A m \in H, n \in Stored(s) \ H : n.at <= m.at

\* An unknown session is an error, whatever else the request asks.
ReadHistory(r) ==
    /\ TurnGoes(r, "read", IF Exists(r) THEN "route" ELSE "failed")
    /\ IF Exists(r)
       THEN \E H \in SUBSET Stored(session[r]) :
               Recent(H, session[r]) /\ history' = [history EXCEPT ![r] = H]
       ELSE UNCHANGED history
    /\ UNCHANGED <<stored, updatedAt, lock, session, stream, stamp, emitted, sent, told>>

\* A tool starts or completes: the event is put into an unbounded queue.
Emit(r) ==
    /\ turn[r] = "route"
    /\ emitted[r] < MaxEvents
    /\ emitted' = [emitted EXCEPT ![r] = @ + 1]
    /\ UNCHANGED <<stored, updatedAt, lock, session, turn, stream, stamp, history, sent, told>>

Routed(r) ==
    /\ TurnGoes(r, "route", "persist")
    /\ UNCHANGED <<stored, updatedAt, lock, session, stream, stamp, history, emitted, sent, told>>

Later(t, s) == IF t > updatedAt[s] THEN t ELSE updatedAt[s] + 1

\* Mutant: the messages are stamped with the server's clock.
PersistAtServerTime(r) ==
    /\ TurnGoes(r, "persist", "answered") \/ TurnGoes(r, "persist", "erred")
    /\ lock[session[r]] = Nobody
    /\ lock' = [lock EXCEPT ![session[r]] = r]
    /\ \E now \in Clocks : stamp' = [stamp EXCEPT ![r] = now]
    /\ UNCHANGED <<stored, updatedAt, session, stream, history, emitted, sent, told>>

\* Mutant: the session row is read without FOR UPDATE.
PersistUnlocked(r) ==
    /\ TurnGoes(r, "persist", "answered") \/ TurnGoes(r, "persist", "erred")
    /\ \E now \in Clocks : stamp' = [stamp EXCEPT ![r] = Later(now, session[r])]
    /\ UNCHANGED <<stored, updatedAt, lock, session, stream, history, emitted, sent, told>>

\* persist_turn: lock the session row, write both messages and updated_at.  The clock
\* is that of one of several servers.  The result the router came to, an answer or an
\* AgentStatus.ERROR, is stored either way.
PersistTurn(r) ==
    /\ TurnGoes(r, "persist", "answered") \/ TurnGoes(r, "persist", "erred")
    /\ lock[session[r]] = Nobody
    /\ lock' = [lock EXCEPT ![session[r]] = r]
    /\ \E now \in Clocks : stamp' = [stamp EXCEPT ![r] = Later(now, session[r])]
    /\ UNCHANGED <<stored, updatedAt, session, stream, history, emitted, sent, told>>

\* An exception: no session, a failed query, a failed write.  The savepoint is rolled
\* back, and with it the lock.
TurnFails(r) ==
    /\ \E s \in {"read", "route", "persist"} : TurnGoes(r, s, "failed")
    /\ UNCHANGED <<stored, updatedAt, lock, session, stream, stamp, history, emitted, sent, told>>

-----------------------------------------------------------------------------
(* The stream: stream_ask_events.                                           *)

StreamGoes(r, from, to) ==
    /\ stream[r] = from
    /\ stream' = [stream EXCEPT ![r] = to]

Unlock(r) == lock' = [s \in Requests |-> IF lock[s] = r THEN Nobody ELSE lock[s]]

\* The request names the session s, or none: then it creates one.
Open(r, s) ==
    /\ StreamGoes(r, "idle", "relay")
    /\ session' = [session EXCEPT ![r] = s]
    /\ turn' = [turn EXCEPT ![r] = "read"]
    /\ UNCHANGED <<stored, updatedAt, lock, stamp, history, emitted, sent, told>>

\* Mutant: an event stays in the queue after it was sent.
RelayAgain(r) ==
    /\ stream[r] = "relay"
    /\ emitted[r] > 0
    /\ sent' = [sent EXCEPT ![r] = @ + 1]
    /\ UNCHANGED <<stored, updatedAt, lock, session, turn, stream, stamp, history, emitted, told>>

Relay(r) ==
    /\ stream[r] = "relay"
    /\ sent[r] < emitted[r]
    /\ sent' = [sent EXCEPT ![r] = @ + 1]
    /\ UNCHANGED <<stored, updatedAt, lock, session, turn, stream, stamp, history, emitted, told>>

\* Mutant: what is left in the queue when the turn ends is dropped.
DrainedEarly(r) ==
    /\ turn[r] \in {"answered", "erred"}
    /\ StreamGoes(r, "relay", "commit")
    /\ UNCHANGED <<stored, updatedAt, lock, session, turn, stamp, history, emitted, sent, told>>

\* The queue is drained and the turn over: commit what it wrote.
Drained(r) ==
    /\ turn[r] \in {"answered", "erred"}
    /\ sent[r] = emitted[r]
    /\ StreamGoes(r, "relay", "commit")
    /\ UNCHANGED <<stored, updatedAt, lock, session, turn, stamp, history, emitted, sent, told>>

SendError(r) == told' = [told EXCEPT ![r] = "error"]

\* Mutant: the exception of a turn is reported without a rollback.
ReportFailureUnrolled(r) ==
    /\ \/ turn[r] = "failed" /\ sent[r] = emitted[r] /\ StreamGoes(r, "relay", "ended")
       \/ StreamGoes(r, "commit", "ended")
    /\ SendError(r)
    /\ UNCHANGED <<stored, updatedAt, lock, session, turn, stamp, history, emitted, sent>>

\* The turn's exception, or that of the commit, is reported after a rollback.
ReportFailure(r) ==
    /\ \/ turn[r] = "failed" /\ sent[r] = emitted[r] /\ StreamGoes(r, "relay", "ended")
       \/ StreamGoes(r, "commit", "ended")
    /\ SendError(r)
    /\ Unlock(r)
    /\ UNCHANGED <<stored, updatedAt, session, turn, stamp, history, emitted, sent>>

Store(r) ==
    /\ stored' = stored \cup {r}
    /\ updatedAt' = [updatedAt EXCEPT ![session[r]] = stamp[r] + 1]

\* An error result is committed as well, and then reported.
Commit(r) ==
    /\ stream[r] = "commit"
    /\ Store(r)
    /\ Unlock(r)
    /\ \/ turn[r] = "answered" /\ StreamGoes(r, "commit", "answer") /\ UNCHANGED told
       \/ turn[r] = "erred" /\ StreamGoes(r, "commit", "ended") /\ SendError(r)
    /\ UNCHANGED <<session, turn, stamp, history, emitted, sent>>

\* The server committed and its answer is lost.
CommitInDoubt(r) ==
    /\ StreamGoes(r, "commit", "ended")
    /\ Store(r)
    /\ Unlock(r)
    /\ SendError(r)
    /\ UNCHANGED <<session, turn, stamp, history, emitted, sent>>

\* Deltas, citations and the done event.
Answer(r) ==
    /\ StreamGoes(r, "answer", "ended")
    /\ told' = [told EXCEPT ![r] = "done"]
    /\ UNCHANGED <<stored, updatedAt, lock, session, turn, stamp, history, emitted, sent>>

\* The client goes away: the turn is cancelled and waited for, and the transaction
\* rolled back.  A commit under way is done or not.
Disconnect(r) ==
    /\ stream[r] \notin {"idle", "ended"}
    /\ stream' = [stream EXCEPT ![r] = "ended"]
    /\ turn' = [turn EXCEPT ![r] = IF Finished(r) THEN @ ELSE "cancelled"]
    /\ Unlock(r)
    /\ \/ UNCHANGED <<stored, updatedAt>>
       \/ stream[r] = "commit" /\ Store(r)
    /\ UNCHANGED <<session, stamp, history, emitted, sent, told>>

-----------------------------------------------------------------------------
TurnStep(r) == ReadHistory(r) \/ Routed(r) \/ PersistTurn(r)

\* A step that needs the client to take what it is sent.
ClientStep(r) == Relay(r) \/ Answer(r)

ServerStep(r) == Drained(r) \/ ReportFailure(r) \/ Commit(r)

\* What a request does once it is open.
RequestNext(r) ==
    \/ TurnStep(r) \/ Emit(r) \/ TurnFails(r)
    \/ ClientStep(r) \/ ServerStep(r) \/ CommitInDoubt(r) \/ Disconnect(r)

Next == \E r \in Requests : RequestNext(r) \/ \E s \in Requests : Open(r, s)

Spec == Init /\ [][Next]_vars

-----------------------------------------------------------------------------
\* Whatever the servers' clocks show and however turns overlap, a user message is
\* followed by the answer to it: no message of another turn is dated in between or at
\* the same time.
TurnsDoNotInterleave ==
    \A r, s \in stored :
        r # s /\ session[r] = session[s] =>
            stamp[r] + 1 < stamp[s] \/ stamp[s] + 1 < stamp[r]

\* A turn is dated after every message its router was given.
AnswersThePast == \A r \in stored : \A m \in history[r] : m.at < stamp[r]

\* The history of a turn is made of messages still stored, with every answer but the
\* oldest message's preceded by its question.
HistoryIsWhole ==
    \A r \in Requests : \A m \in history[r] :
        /\ m.req \in TurnsOf(session[r])
        /\ m.role = "assistant" => \/ UserMessage(m.req) \in history[r]
                                   \/ \A n \in history[r] : n.at >= m.at

\* Both together: the router is told the past of its turn, whole.
HistoryIsThePast == AnswersThePast /\ HistoryIsWhole

\* done is sent only for a turn that is committed, after all its lifecycle events.
DoneIsStored ==
    \A r \in Requests : told[r] = "done" => r \in stored /\ sent[r] = emitted[r]

\* A request that is over holds no lock and has no turn running: it neither blocks the
\* session nor works on a transaction that is closed.
EndedIsQuiet ==
    \A r \in Requests : stream[r] = "ended" =>
        /\ \A s \in Requests : lock[s] # r
        /\ Finished(r) \/ turn[r] = "cancelled"

\* Both together: what a client is told is true, and an end leaves nothing behind.
EndsCleanly == DoneIsStored /\ EndedIsQuiet

-----------------------------------------------------------------------------
\* get_recent_messages reads the turns of a session by date.  Two turns of the same date
\* leave a position without a turn.
Position(p) == Cardinality({q \in TurnsOf(session[p]) : stamp[q] <= stamp[p]})
At(s, i) == {p \in TurnsOf(s) : Position(p) = i}
Sole(S) == IF S = {} THEN Nobody ELSE CHOOSE p \in S : TRUE
InOrder(s) == [i \in 1..Cardinality(TurnsOf(s)) |-> Sole(At(s, i))]

Log == INSTANCE TurnLog WITH Sessions <- Requests, log <- [s \in Requests |-> InOrder(s)]

\* The stored messages of a session, read by date, are a log to which whole turns are
\* appended, each in one session: get_recent_messages never sees a turn inserted before
\* another.
ImplementsTurnLog == Log!Spec
=============================================================================
