--------------------------- MODULE ConversationProofs ---------------------------
(***************************************************************************)
(* Proofs about Conversation for any requests, clocks, history limit and    *)
(* number of events, and about AskPage for any number of conversations.     *)
(***************************************************************************)
EXTENDS AskPage, FiniteSetTheorems, SequenceTheorems, TLAPS

-----------------------------------------------------------------------------
(* The inductive invariant.                                                 *)

\* What the turn task of a request may do follows from what its stream does.
TasksAgree ==
    \A r \in Requests :
        /\ turn[r] = "none" <=> stream[r] = "idle"
        /\ session[r] = Nobody <=> stream[r] = "idle"
        /\ turn[r] \in {"read", "route", "persist"} => stream[r] = "relay"
        /\ stream[r] \in {"commit", "answer"} => turn[r] \in {"answered", "erred"}
        /\ stream[r] = "ended" => Finished(r) \/ turn[r] = "cancelled"
        /\ stream[r] \in {"commit", "answer"} \/ told[r] = "done" => sent[r] = emitted[r]
        /\ told[r] = "done" => stream[r] = "ended" /\ r \in stored
        /\ stream[r] = "answer" => r \in stored

\* The lock is held exactly by the request whose messages wait for the commit.
LockIsWrite ==
    \A r \in Requests :
        \A s \in Requests :
            lock[s] = r <=> /\ session[r] = s
                            /\ turn[r] \in {"answered", "erred"}
                            /\ stream[r] \in {"relay", "commit"}

\* Messages that wait for the commit are dated after all that is stored; what is stored
\* is dated up to updated_at and belongs to a turn that is over.
DatesGrow ==
    \A r \in Requests :
        /\ r \in stored => /\ session[r] \in Requests
                           /\ stamp[r] + 1 <= updatedAt[session[r]]
                           /\ stream[r] \in {"answer", "ended"}
                           /\ turn[r] \in {"answered", "erred"}
        /\ \A s \in Requests : lock[s] = r => updatedAt[s] < stamp[r]

\* A history is dated up to updated_at, and before the messages of its turn.
HistoryIsPast ==
    \A r \in Requests : \A m \in history[r] :
        /\ m.at \in Nat
        /\ m.at <= updatedAt[session[r]]
        /\ turn[r] \in {"answered", "erred"} => m.at < stamp[r]
        /\ turn[r] \in {"none", "read"} => FALSE

ConvInv == TypeOK /\ TasksAgree /\ LockIsWrite /\ DatesGrow /\ HistoryIsPast /\ TurnsDoNotInterleave

-----------------------------------------------------------------------------
LEMMA StoredIsPast ==
    ASSUME TypeOK, DatesGrow, NEW s \in Requests, NEW m \in Stored(s)
    PROVE  m \in Messages /\ m.at \in Nat /\ m.at <= updatedAt[s]
  BY DEF TypeOK, DatesGrow, Stored, TurnsOf, UserMessage, AssistantMessage, Messages

LEMMA LaterIsLater ==
    ASSUME TypeOK, NEW t \in Nat, NEW s \in Requests
    PROVE  Later(t, s) \in Nat /\ updatedAt[s] < Later(t, s)
  BY DEF TypeOK, Later

LEMMA ConvInitially == Init => ConvInv
  BY ConversationAssumption
     DEF ConversationAssumption, Init, ConvInv, TypeOK, TasksAgree, LockIsWrite, DatesGrow,
         HistoryIsPast, TurnsDoNotInterleave, Turns, Streams, Events, Finished, First

LEMMA ConvPreserved == ConvInv /\ [Next]_vars => ConvInv'
<1> SUFFICES ASSUME ConvInv, [Next]_vars PROVE ConvInv'
  OBVIOUS
<1> USE ConversationAssumption
    DEF ConversationAssumption, ConvInv, Turns, Streams, Events, Finished
<1>1. ASSUME NEW r \in Requests, NEW s \in Requests, Open(r, s) PROVE ConvInv'
  <2>1. TypeOK'
    BY <1>1 DEF TypeOK, Open, StreamGoes
  <2>2. turn[r] = "none"
    BY <1>1 DEF TasksAgree, Open, StreamGoes
  <2>3. TasksAgree'
    BY <1>1 DEF TypeOK, Open, StreamGoes, TasksAgree
  <2>4. LockIsWrite'
    BY <1>1 DEF TypeOK, Open, StreamGoes, TasksAgree, LockIsWrite
  <2>5. DatesGrow' /\ HistoryIsPast' /\ TurnsDoNotInterleave'
    BY <1>1, <2>2 DEF TypeOK, Open, StreamGoes, DatesGrow, HistoryIsPast, TurnsDoNotInterleave
  <2> QED
    BY <2>1, <2>3, <2>4, <2>5
<1>2. ASSUME NEW r \in Requests, ReadHistory(r) PROVE ConvInv'
  <2>0. session[r] \in Requests
    BY <1>2 DEF ReadHistory, TurnGoes, TasksAgree, TypeOK
  <2>1. PICK H : /\ H = {} \/ H \subseteq Stored(session[r])
                 /\ history' = [history EXCEPT ![r] = H] \/ history' = history
    BY <1>2 DEF ReadHistory
  <2>2. \A m \in H : m \in Messages /\ m.at \in Nat /\ m.at <= updatedAt[session[r]]
    BY <2>0, <2>1, StoredIsPast
  <2>3. TypeOK'
    BY <1>2, <2>1, <2>2 DEF TypeOK, ReadHistory, TurnGoes
  <2>4. HistoryIsPast'
    BY <1>2, <2>1, <2>2 DEF TypeOK, HistoryIsPast, ReadHistory, TurnGoes
  <2>5. TasksAgree' /\ LockIsWrite' /\ DatesGrow' /\ TurnsDoNotInterleave'
    BY <1>2 DEF TypeOK, ReadHistory, TurnGoes, TasksAgree, LockIsWrite, DatesGrow,
                TurnsDoNotInterleave
  <2> QED
    BY <2>3, <2>4, <2>5
<1>3. ASSUME NEW r \in Requests, Emit(r) PROVE ConvInv'
  <2>1. TypeOK'
    BY <1>3 DEF TypeOK, Emit
  <2>2. TasksAgree' /\ LockIsWrite' /\ DatesGrow' /\ HistoryIsPast' /\ TurnsDoNotInterleave'
    BY <1>3 DEF TypeOK, Emit, TasksAgree, LockIsWrite, DatesGrow, HistoryIsPast,
                TurnsDoNotInterleave
  <2> QED
    BY <2>1, <2>2
<1>4. ASSUME NEW r \in Requests, Routed(r) \/ TurnFails(r) PROVE ConvInv'
  <2>1. TypeOK'
    BY <1>4 DEF TypeOK, Routed, TurnFails, TurnGoes
  <2>2. TasksAgree' /\ LockIsWrite' /\ DatesGrow'
    BY <1>4 DEF TypeOK, Routed, TurnFails, TurnGoes, TasksAgree, LockIsWrite, DatesGrow
  <2>3. HistoryIsPast' /\ TurnsDoNotInterleave'
    BY <1>4 DEF TypeOK, Routed, TurnFails, TurnGoes, HistoryIsPast, TurnsDoNotInterleave
  <2> QED
    BY <2>1, <2>2, <2>3
<1>5. ASSUME NEW r \in Requests, PersistTurn(r) PROVE ConvInv'
  <2>1. PICK now \in Clocks : stamp' = [stamp EXCEPT ![r] = Later(now, session[r])]
    BY <1>5 DEF PersistTurn
  <2>0. session[r] \in Requests
    BY <1>5 DEF PersistTurn, TurnGoes, TasksAgree, TypeOK
  <2>2. Later(now, session[r]) \in Nat /\ updatedAt[session[r]] < Later(now, session[r])
    BY <2>0, LaterIsLater
  <2>3. /\ turn[r] = "persist" /\ turn' \in {[turn EXCEPT ![r] = "answered"],
                                             [turn EXCEPT ![r] = "erred"]}
        /\ lock[session[r]] = Nobody /\ lock' = [lock EXCEPT ![session[r]] = r]
        /\ UNCHANGED <<stored, updatedAt, session, stream, history, emitted, sent, told>>
    BY <1>5 DEF PersistTurn, TurnGoes
  <2>4. r \notin stored
    BY <2>3 DEF DatesGrow
  <2>5. TypeOK'
    BY <2>1, <2>2, <2>3 DEF TypeOK
  <2>6. TasksAgree' /\ LockIsWrite'
    BY <2>3 DEF TypeOK, TasksAgree, LockIsWrite
  <2>7. \A s \in Requests : lock[s] # r
    BY <2>3 DEF LockIsWrite
  <2>8. stamp'[r] = Later(now, session[r]) /\ \A q \in Requests \ {r} : stamp'[q] = stamp[q]
    BY <2>1 DEF TypeOK
  <2>9. DatesGrow'
    <3>1. ASSUME NEW q \in Requests, q \in stored'
          PROVE  /\ session'[q] \in Requests
                 /\ stamp'[q] + 1 <= updatedAt'[session'[q]]
                 /\ stream'[q] \in {"answer", "ended"}
                 /\ turn'[q] \in {"answered", "erred"}
      BY <3>1, <2>3, <2>4, <2>8 DEF TypeOK, DatesGrow
    <3>2. ASSUME NEW q \in Requests, NEW s \in Requests, lock'[s] = q
          PROVE  updatedAt'[s] < stamp'[q]
      <4>1. CASE q = r
        BY <4>1, <3>2, <2>0, <2>2, <2>3, <2>7, <2>8 DEF TypeOK
      <4>2. CASE q # r
        BY <4>2, <3>2, <2>0, <2>3, <2>8 DEF TypeOK, DatesGrow
      <4> QED
        BY <4>1, <4>2
    <3> QED
      BY <3>1, <3>2 DEF DatesGrow
  <2>10. TurnsDoNotInterleave'
    BY <2>3, <2>4, <2>8 DEF TypeOK, TurnsDoNotInterleave
  <2>11. HistoryIsPast'
    <3>1. ASSUME NEW q \in Requests, NEW m \in history'[q]
          PROVE  /\ m.at \in Nat
                 /\ m.at <= updatedAt'[session'[q]]
                 /\ turn'[q] \in {"answered", "erred"} => m.at < stamp'[q]
                 /\ turn'[q] \in {"none", "read"} => FALSE
      <4>1. m \in history[q] /\ m.at \in Nat /\ m.at <= updatedAt[session[q]]
        BY <2>3 DEF HistoryIsPast
      <4>2. CASE q = r
        <5>1. m.at < stamp'[r]
          BY <4>1, <4>2, <2>0, <2>2, <2>8 DEF TypeOK
        <5> QED
          BY <5>1, <4>1, <4>2, <2>3 DEF TypeOK
      <4>3. CASE q # r
        BY <4>1, <4>3, <2>3, <2>8 DEF TypeOK, HistoryIsPast
      <4> QED
        BY <4>2, <4>3
    <3> QED
      BY <3>1 DEF HistoryIsPast
  <2> QED
    BY <2>5, <2>6, <2>9, <2>10, <2>11
<1>6. ASSUME NEW r \in Requests, Relay(r) PROVE ConvInv'
  <2>1. TypeOK'
    BY <1>6 DEF TypeOK, Relay
  <2>2. TasksAgree' /\ LockIsWrite' /\ DatesGrow' /\ HistoryIsPast' /\ TurnsDoNotInterleave'
    BY <1>6 DEF TypeOK, Relay, TasksAgree, LockIsWrite, DatesGrow, HistoryIsPast,
                TurnsDoNotInterleave
  <2> QED
    BY <2>1, <2>2
<1>7. ASSUME NEW r \in Requests, Drained(r) \/ Answer(r) PROVE ConvInv'
  <2>1. TypeOK'
    BY <1>7 DEF TypeOK, Drained, Answer, StreamGoes
  <2>2. TasksAgree' /\ LockIsWrite' /\ DatesGrow'
    BY <1>7 DEF TypeOK, Drained, Answer, StreamGoes, TasksAgree, LockIsWrite, DatesGrow
  <2>3. HistoryIsPast' /\ TurnsDoNotInterleave'
    BY <1>7 DEF TypeOK, Drained, Answer, StreamGoes, HistoryIsPast, TurnsDoNotInterleave
  <2> QED
    BY <2>1, <2>2, <2>3
<1>8. ASSUME NEW r \in Requests, ReportFailure(r) PROVE ConvInv'
  <2>1. TypeOK'
    BY <1>8 DEF TypeOK, ReportFailure, StreamGoes, SendError, Unlock
  <2>2. TasksAgree' /\ LockIsWrite' /\ DatesGrow'
    BY <1>8 DEF TypeOK, ReportFailure, StreamGoes, SendError, Unlock, TasksAgree,
                LockIsWrite, DatesGrow
  <2>3. HistoryIsPast' /\ TurnsDoNotInterleave'
    BY <1>8 DEF TypeOK, ReportFailure, StreamGoes, HistoryIsPast, TurnsDoNotInterleave
  <2> QED
    BY <2>1, <2>2, <2>3
\* A commit, acknowledged or not, and whether its client is still there or not.
<1>9. ASSUME NEW r \in Requests, stream[r] = "commit", Store(r), Unlock(r),
             UNCHANGED <<session, turn, stamp, history, emitted, sent>>,
             NEW to \in {"answer", "ended"}, stream' = [stream EXCEPT ![r] = to],
             told' \in {told, [told EXCEPT ![r] = "error"]}
      PROVE  ConvInv'
  <2>1. /\ session[r] \in Requests /\ lock[session[r]] = r
        /\ updatedAt[session[r]] < stamp[r] /\ turn[r] \in {"answered", "erred"}
    BY <1>9 DEF TasksAgree, LockIsWrite, DatesGrow, TypeOK
  <2>2. TypeOK'
    <3>1. updatedAt' \in [Requests -> Nat]
      BY <1>9, <2>1 DEF TypeOK, Store
    <3>2. stored' \subseteq Requests /\ lock' \in [Requests -> Requests \cup {Nobody}]
      BY <1>9 DEF TypeOK, Store, Unlock
    <3> QED
      BY <1>9, <3>1, <3>2 DEF TypeOK
  <2>3. TasksAgree' /\ LockIsWrite'
    BY <1>9, <2>1 DEF TypeOK, Store, Unlock, TasksAgree, LockIsWrite
  <2>4. DatesGrow'
    BY <1>9, <2>1 DEF TypeOK, Store, Unlock, DatesGrow
  <2>5. HistoryIsPast'
    BY <1>9, <2>1 DEF TypeOK, Store, HistoryIsPast
  <2>6. TurnsDoNotInterleave'
    BY <1>9, <2>1 DEF TypeOK, Store, DatesGrow, TurnsDoNotInterleave
  <2> QED
    BY <2>2, <2>3, <2>4, <2>5, <2>6
<1>10. ASSUME NEW r \in Requests, Commit(r) \/ CommitInDoubt(r) PROVE ConvInv'
  <2>1. /\ stream[r] = "commit" /\ Store(r) /\ Unlock(r)
        /\ UNCHANGED <<session, turn, stamp, history, emitted, sent>>
        /\ \E to \in {"answer", "ended"} : stream' = [stream EXCEPT ![r] = to]
        /\ told' \in {told, [told EXCEPT ![r] = "error"]}
    BY <1>10 DEF Commit, CommitInDoubt, StreamGoes, SendError
  <2> QED
    BY <2>1, <1>9
<1>11. ASSUME NEW r \in Requests, Disconnect(r) PROVE ConvInv'
  <2>1. CASE stream[r] = "commit" /\ Store(r)
    <3>1. turn[r] \in {"answered", "erred"}
      BY <2>1 DEF TasksAgree
    <3>2. turn' = turn
      BY <1>11, <3>1 DEF Disconnect, TypeOK
    <3> QED
      BY <1>11, <2>1, <3>2, <1>9 DEF Disconnect
  <2>2. CASE UNCHANGED <<stored, updatedAt>>
    <3>1. TypeOK'
      BY <1>11, <2>2 DEF TypeOK, Disconnect, Unlock
    <3>2. TasksAgree' /\ LockIsWrite'
      BY <1>11, <2>2 DEF TypeOK, Disconnect, Unlock, TasksAgree, LockIsWrite, DatesGrow
    <3>3. DatesGrow'
      BY <1>11, <2>2 DEF TypeOK, Disconnect, Unlock, DatesGrow
    <3>4. HistoryIsPast' /\ TurnsDoNotInterleave'
      BY <1>11, <2>2 DEF TypeOK, Disconnect, HistoryIsPast, TurnsDoNotInterleave
    <3> QED
      BY <3>1, <3>2, <3>3, <3>4
  <2> QED
    BY <1>11, <2>1, <2>2 DEF Disconnect
<1>12. CASE UNCHANGED vars
  BY <1>12 DEF vars, TypeOK, TasksAgree, LockIsWrite, DatesGrow, HistoryIsPast,
               TurnsDoNotInterleave
<1> QED
  BY <1>1, <1>2, <1>3, <1>4, <1>5, <1>6, <1>7, <1>8, <1>10, <1>11, <1>12
     DEF Next, RequestNext, TurnStep, ClientStep, ServerStep

\* The newest messages of whole turns: an answer is read without its question only when
\* it is the oldest message read, for no other turn is dated between the two.
LEMMA RecentIsWhole ==
    ASSUME TypeOK, DatesGrow, TurnsDoNotInterleave, NEW s \in Requests, NEW H, Recent(H, s),
           NEW m \in H, m.role = "assistant", UserMessage(m.req) \notin H
    PROVE  \A n \in H : n.at >= m.at
<1>1. \A n \in H : /\ n.req \in TurnsOf(s) /\ n.req \in Requests
                   /\ n = UserMessage(n.req) \/ n = AssistantMessage(n.req)
  BY DEF Recent, Stored, UserMessage, AssistantMessage, TurnsOf, TypeOK
<1>2. m = AssistantMessage(m.req) /\ m.at = stamp[m.req] + 1 /\ stamp[m.req] \in Nat
  BY <1>1 DEF UserMessage, AssistantMessage, TypeOK
<1>3. UserMessage(m.req) \in Stored(s) \ H
  BY <1>1 DEF Stored
<1> SUFFICES ASSUME NEW n \in H PROVE n.at >= m.at
  OBVIOUS
<1>4. /\ n.at \in {stamp[n.req], stamp[n.req] + 1} /\ stamp[n.req] \in Nat
      /\ n.at >= stamp[m.req]
  BY <1>1, <1>3 DEF Recent, UserMessage, AssistantMessage, TypeOK
<1>5. CASE n.req = m.req
  BY <1>1, <1>2, <1>5 DEF AssistantMessage
<1>6. CASE n.req # m.req
  <2>1. \/ stamp[n.req] + 1 < stamp[m.req]
        \/ stamp[m.req] + 1 < stamp[n.req]
    BY <1>1, <1>6 DEF TurnsDoNotInterleave, TurnsOf
  <2> QED
    BY <2>1, <1>2, <1>4
<1> QED
  BY <1>5, <1>6

LEMMA WholePreserved == ConvInv /\ HistoryIsWhole /\ [Next]_vars => HistoryIsWhole'
<1> SUFFICES ASSUME ConvInv, HistoryIsWhole, [Next]_vars PROVE HistoryIsWhole'
  OBVIOUS
<1> USE DEF ConvInv
<1>1. ASSUME NEW r \in Requests, ReadHistory(r) PROVE HistoryIsWhole'
  <2>1. session[r] \in Requests
    BY <1>1 DEF ReadHistory, TurnGoes, TasksAgree, TypeOK
  <2>2. /\ UNCHANGED <<stored, session, stamp>>
        /\ \/ history' = history
           \/ \E H : Recent(H, session[r]) /\ history' = [history EXCEPT ![r] = H]
    BY <1>1 DEF ReadHistory
  <2>3. \A q \in Requests : UserMessage(q)' = UserMessage(q)
    BY <2>2 DEF UserMessage
  <2>4. \A s : TurnsOf(s)' = TurnsOf(s)
    BY <2>2 DEF TurnsOf
  <2>5. ASSUME NEW H, Recent(H, session[r]), NEW m \in H
        PROVE  /\ m.req \in TurnsOf(session[r])
               /\ m.role = "assistant" => \/ UserMessage(m.req) \in H
                                          \/ \A n \in H : n.at >= m.at
    <3>1. m.req \in TurnsOf(session[r])
      BY <2>5 DEF Recent, Stored, UserMessage, AssistantMessage
    <3> QED
      BY <3>1, <2>1, <2>5, RecentIsWhole
  <2>6. ASSUME NEW q \in Requests, NEW m \in history'[q]
        PROVE  /\ m.req \in TurnsOf(session[q])
               /\ m.role = "assistant" => \/ UserMessage(m.req) \in history'[q]
                                          \/ \A n \in history'[q] : n.at >= m.at
    <3>1. CASE history'[q] = history[q]
      BY <2>6, <3>1 DEF HistoryIsWhole
    <3>2. CASE q = r /\ Recent(history'[r], session[r])
      BY <2>6, <3>2, <2>5
    <3> QED
      BY <2>2, <3>1, <3>2 DEF TypeOK
  <2>7. \A q \in Requests : \A m \in history'[q] : m.req \in Requests
    BY <2>6 DEF TurnsOf, TypeOK
  <2> QED
    BY <2>2, <2>3, <2>4, <2>6, <2>7 DEF HistoryIsWhole
\* A request whose session or dates change is not stored, and one whose session changes
\* has no history.
<1>2. ASSUME UNCHANGED history, stored \subseteq stored',
             \A q \in Requests : session'[q] = session[q] \/ history[q] = {},
             \A q \in stored : session'[q] = session[q] /\ stamp'[q] = stamp[q]
      PROVE  HistoryIsWhole'
  <2>1. ASSUME NEW q \in Requests, NEW m \in history'[q]
        PROVE  /\ m.req \in TurnsOf(session[q])'
               /\ m.role = "assistant" => \/ UserMessage(m.req)' \in history'[q]
                                          \/ \A n \in history'[q] : n.at >= m.at
    <3>1. m \in history[q] /\ history'[q] = history[q] /\ session'[q] = session[q]
      BY <1>2, <2>1
    <3>2. m.req \in TurnsOf(session[q])
      BY <3>1 DEF HistoryIsWhole
    <3>3. m.req \in TurnsOf(session[q])' /\ UserMessage(m.req)' = UserMessage(m.req)
      BY <1>2, <3>1, <3>2 DEF TurnsOf, UserMessage
    <3> QED
      BY <3>1, <3>3 DEF HistoryIsWhole
  <2> QED
    BY <2>1 DEF HistoryIsWhole
<1>3. ASSUME NEW r \in Requests, NEW s \in Requests, Open(r, s) PROVE HistoryIsWhole'
  <2>1. turn[r] = "none"
    BY <1>3 DEF Open, StreamGoes, TasksAgree
  <2>2. history[r] = {} /\ r \notin stored
    BY <2>1 DEF HistoryIsPast, DatesGrow
  <2> QED
    BY <1>2, <1>3, <2>2 DEF Open, TypeOK
<1>4. ASSUME NEW r \in Requests, PersistTurn(r) PROVE HistoryIsWhole'
  <2>1. r \notin stored
    BY <1>4 DEF PersistTurn, TurnGoes, DatesGrow
  <2>2. \A q \in stored : stamp'[q] = stamp[q]
    BY <1>4, <2>1 DEF PersistTurn, TypeOK
  <2> QED
    BY <1>2, <1>4, <2>2 DEF PersistTurn
<1>5. ASSUME NEW r \in Requests,
             \/ Emit(r) \/ Routed(r) \/ TurnFails(r) \/ Relay(r) \/ Drained(r)
             \/ ReportFailure(r) \/ Commit(r) \/ CommitInDoubt(r) \/ Answer(r) \/ Disconnect(r)
      PROVE  HistoryIsWhole'
  <2>1. UNCHANGED <<session, stamp, history>> /\ stored \subseteq stored'
    BY <1>5 DEF Emit, Routed, TurnFails, Relay, Drained, ReportFailure, Commit,
                CommitInDoubt, Answer, Disconnect, Store
  <2> QED
    BY <1>2, <2>1
<1>6. CASE UNCHANGED vars
  BY <1>2, <1>6 DEF vars
<1> QED
  BY <1>1, <1>3, <1>4, <1>5, <1>6 DEF Next, RequestNext, TurnStep, ClientStep, ServerStep

LEMMA WholeInitially == Init => HistoryIsWhole
  BY DEF Init, HistoryIsWhole

LEMMA ConvAlways == Spec => []ConvInv
  BY ConvInitially, ConvPreserved, PTL DEF Spec

-----------------------------------------------------------------------------
\* Every variable keeps its type.
THEOREM TypeCorrect == Spec => []TypeOK
<1>1. ConvInv => TypeOK
  BY DEF ConvInv
<1> QED
  BY <1>1, ConvAlways, PTL

\* The row lock and the monotone dates keep every turn's two messages together, for any
\* number of concurrent requests and any clocks.
THEOREM TurnsStayTogether == Spec => []TurnsDoNotInterleave
<1>1. ConvInv => TurnsDoNotInterleave
  BY DEF ConvInv
<1> QED
  BY <1>1, ConvAlways, PTL

\* No turn is dated before a message it was told about, and it is told whole turns but
\* for the oldest message.
THEOREM HistoriesAreThePast == Spec => []HistoryIsThePast
<1>1. ConvInv => AnswersThePast
  BY DEF ConvInv, AnswersThePast, HistoryIsPast, DatesGrow, TypeOK
<1>2. Spec => []HistoryIsWhole
  BY ConvAlways, WholeInitially, WholePreserved, PTL DEF Spec
<1> QED
  BY <1>1, <1>2, ConvAlways, PTL DEF HistoryIsThePast

\* done means committed, and a request that is over leaves no lock and no task behind.
THEOREM RequestsEndCleanly == Spec => []EndsCleanly
<1>1. ConvInv => DoneIsStored
  BY DEF ConvInv, DoneIsStored, TasksAgree
<1>2. ConvInv => EndedIsQuiet
  BY DEF ConvInv, EndedIsQuiet, TasksAgree, LockIsWrite
<1> QED
  BY <1>1, <1>2, ConvAlways, PTL DEF EndsCleanly

-----------------------------------------------------------------------------
(* The log of turns.  A commit gives its session one more turn, dated after  *)
(* all others; nothing else touches a stored turn.                           *)

\* No position is left out: the turns of a session have different dates.
OrderInv ==
    /\ IsFiniteSet(stored)
    /\ \A s \in Requests : \A i \in 1..Cardinality(TurnsOf(s)) : At(s, i) # {}

TurnLogs == [s \in Requests |-> InOrder(s)]

LEMMA TurnsAreFinite ==
    ASSUME OrderInv, NEW s
    PROVE  IsFiniteSet(TurnsOf(s)) /\ Cardinality(TurnsOf(s)) \in Nat
<1>1. TurnsOf(s) \in SUBSET stored
  BY DEF TurnsOf
<1> QED
  BY <1>1, FS_Subset, FS_CardinalityType DEF OrderInv

LEMMA SoleIs ==
    ASSUME NEW S, S # {}
    PROVE  Sole(S) \in S /\ \A r : S = {r} => Sole(S) = r
BY DEF Sole

LEMMA LogsType ==
    ASSUME TypeOK, OrderInv, NEW s \in Requests
    PROVE  /\ InOrder(s) \in Seq(Requests)
           /\ Len(InOrder(s)) = Cardinality(TurnsOf(s))
           /\ \A i \in 1..Cardinality(TurnsOf(s)) : InOrder(s)[i] \in At(s, i)
<1> DEFINE n == Cardinality(TurnsOf(s))
<1>1. n \in Nat
  BY TurnsAreFinite
<1>2. \A i \in 1..n : InOrder(s)[i] \in At(s, i)
  BY SoleIs DEF InOrder, OrderInv
<1>3. \A i : At(s, i) \subseteq Requests
  BY DEF At, TurnsOf, TypeOK
<1>4. DOMAIN InOrder(s) = 1..n /\ InOrder(s) = [i \in 1..n |-> InOrder(s)[i]]
  BY DEF InOrder
<1> HIDE DEF n
<1>5. InOrder(s) \in [1..n -> Requests]
  BY <1>2, <1>3, <1>4
<1>6. InOrder(s) \in Seq(Requests) /\ Len(InOrder(s)) = n
  BY <1>1, <1>5
<1> QED
  BY <1>2, <1>6 DEF n

\* What is logged is stored, and a turn is in one place.
LEMMA LoggedIsStored ==
    ASSUME TypeOK, OrderInv, NEW s \in Requests, NEW i \in DOMAIN TurnLogs[s]
    PROVE  /\ TurnLogs[s][i] \in TurnsOf(s)
           /\ Position(TurnLogs[s][i]) = i
<1>1. i \in 1..Cardinality(TurnsOf(s)) /\ TurnLogs[s] = InOrder(s)
  BY DEF TurnLogs, InOrder
<1>2. InOrder(s)[i] \in At(s, i)
  BY <1>1, LogsType
<1> QED
  BY <1>1, <1>2 DEF At

LEMMA OrderInitially == Init => OrderInv
<1> SUFFICES ASSUME Init PROVE OrderInv
  OBVIOUS
<1>1. stored \subseteq {Earlier} /\ (Earlier \in stored => session[Earlier] = Earlier)
  BY DEF Init, First
<1>2. IsFiniteSet({Earlier}) /\ Cardinality({Earlier}) = 1
  BY FS_Singleton
<1>3. IsFiniteSet(stored)
  BY <1>1, <1>2, FS_Subset
<1>4. ASSUME NEW s \in Requests, NEW i \in 1..Cardinality(TurnsOf(s))
      PROVE  At(s, i) # {}
  <2>1. TurnsOf(s) # {}
    <3>1. Cardinality({}) = 0
      BY FS_EmptySet
    <3>2. TurnsOf(s) = {} => Cardinality(TurnsOf(s)) = 0
      BY <3>1
    <3> QED
      BY <1>4, <3>2
  <2>2. TurnsOf(s) = {Earlier} /\ session[Earlier] = s /\ Earlier \in stored
    BY <1>1, <2>1 DEF TurnsOf
  <2>3. i = 1
    BY <1>2, <1>4, <2>2
  <2>4. {q \in TurnsOf(s) : stamp[q] <= stamp[Earlier]} = {Earlier}
    <3>1. Earlier \in Requests /\ stamp[Earlier] = 1
      BY <2>2 DEF Init, First
    <3> QED
      BY <2>2, <3>1
  <2>5. Position(Earlier) = 1
    BY <1>2, <2>2, <2>4 DEF Position
  <2> QED
    BY <2>2, <2>3, <2>5 DEF At
<1> QED
  BY <1>3, <1>4 DEF OrderInv

\* What a step may do to the stored turns.
TurnsKept ==
    /\ stored' = stored
    /\ \A r \in stored : session'[r] = session[r] /\ stamp'[r] = stamp[r]

TurnAdded(r) ==
    /\ r \notin stored
    /\ stored' = stored \cup {r}
    /\ UNCHANGED <<session, stamp>>
    /\ session[r] \in Requests
    /\ \A p \in TurnsOf(session[r]) : stamp[p] < stamp[r]

LEMMA StepsAddOrKeep ==
    ASSUME ConvInv, [Next]_vars
    PROVE  TurnsKept \/ \E r \in Requests : TurnAdded(r)
<1> USE DEF ConvInv, TurnsKept
<1>1. ASSUME NEW r \in Requests, NEW s \in Requests, Open(r, s) PROVE TurnsKept
  <2>1. r \notin stored
    BY <1>1 DEF Open, StreamGoes, DatesGrow
  <2> QED
    BY <1>1, <2>1 DEF Open, TypeOK
<1>2. ASSUME NEW r \in Requests, PersistTurn(r) PROVE TurnsKept
  <2>1. r \notin stored
    BY <1>2 DEF PersistTurn, TurnGoes, DatesGrow
  <2> QED
    BY <1>2, <2>1 DEF PersistTurn, TypeOK
<1>3. ASSUME NEW r \in Requests, stream[r] = "commit", Store(r), UNCHANGED <<session, stamp>>
      PROVE  TurnAdded(r)
  <2>1. r \notin stored
    BY <1>3 DEF DatesGrow
  <2>2. session[r] \in Requests /\ lock[session[r]] = r
    BY <1>3 DEF TasksAgree, LockIsWrite, TypeOK, Finished
  <2>3. updatedAt[session[r]] < stamp[r]
    BY <2>2 DEF DatesGrow
  <2>4. \A p \in TurnsOf(session[r]) : stamp[p] + 1 <= updatedAt[session[r]]
    BY DEF TurnsOf, DatesGrow, TypeOK
  <2>5. \A p \in TurnsOf(session[r]) : stamp[p] < stamp[r]
    <3> SUFFICES ASSUME NEW p \in TurnsOf(session[r]) PROVE stamp[p] < stamp[r]
      OBVIOUS
    <3>1. stamp[p] \in Nat /\ stamp[r] \in Nat /\ updatedAt[session[r]] \in Nat
      BY <2>2 DEF TurnsOf, TypeOK
    <3> QED
      BY <2>3, <2>4, <3>1
  <2> QED
    BY <1>3, <2>1, <2>2, <2>5 DEF TurnAdded, Store
<1>4. ASSUME NEW r \in Requests, Commit(r) \/ CommitInDoubt(r) PROVE TurnAdded(r)
  BY <1>3, <1>4 DEF Commit, CommitInDoubt, StreamGoes
<1>5. ASSUME NEW r \in Requests, Disconnect(r) PROVE TurnsKept \/ TurnAdded(r)
  BY <1>3, <1>5 DEF Disconnect
<1>6. ASSUME NEW r \in Requests,
             \/ ReadHistory(r) \/ Routed(r) \/ Emit(r) \/ TurnFails(r) \/ Relay(r)
             \/ Answer(r) \/ Drained(r) \/ ReportFailure(r)
      PROVE  TurnsKept
  BY <1>6 DEF ReadHistory, Routed, Emit, TurnFails, Relay, Answer, Drained, ReportFailure
<1>7. CASE UNCHANGED vars
  BY <1>7 DEF vars
<1> QED
  BY <1>1, <1>2, <1>4, <1>5, <1>6, <1>7
     DEF Next, RequestNext, TurnStep, ClientStep, ServerStep

LEMMA PositionIs ==
    ASSUME NEW p
    PROVE  /\ Position(p) = Cardinality({q \in stored :
                  session[q] = session[p] /\ stamp[q] <= stamp[p]})
           /\ Position(p)' = Cardinality({q \in stored' :
                  session'[q] = session'[p] /\ stamp'[q] <= stamp'[p]})
<1>1. {q \in TurnsOf(session[p]) : stamp[q] <= stamp[p]}
          = {q \in stored : session[q] = session[p] /\ stamp[q] <= stamp[p]}
  BY DEF TurnsOf
<1>2. {q \in TurnsOf(session[p])' : stamp'[q] <= stamp'[p]}
          = {q \in stored' : session'[q] = session'[p] /\ stamp'[q] <= stamp'[p]}
  BY DEF TurnsOf
<1> QED
  BY <1>1, <1>2 DEF Position

LEMMA KeptIsStutter ==
    ASSUME TypeOK, OrderInv, TurnsKept
    PROVE  OrderInv' /\ UNCHANGED TurnLogs
<1>1. \A s : TurnsOf(s)' = TurnsOf(s)
  BY DEF TurnsOf, TurnsKept
<1>2. ASSUME NEW p \in stored PROVE Position(p)' = Position(p)
  <2>1. {q \in stored' : session'[q] = session'[p] /\ stamp'[q] <= stamp'[p]}
            = {q \in stored : session[q] = session[p] /\ stamp[q] <= stamp[p]}
    BY DEF TurnsKept
  <2> QED
    BY <2>1, PositionIs
<1>3. ASSUME NEW s, NEW i PROVE At(s, i)' = At(s, i)
  <2>1. At(s, i)' = {p \in TurnsOf(s) : Position(p)' = i}
    BY <1>1 DEF At
  <2>2. \A p \in TurnsOf(s) : Position(p)' = Position(p)
    BY <1>2 DEF TurnsOf
  <2> QED
    BY <2>1, <2>2 DEF At
<1>4. ASSUME NEW s PROVE InOrder(s)' = InOrder(s)
  <2>1. InOrder(s)' = [i \in 1..Cardinality(TurnsOf(s)) |-> Sole(At(s, i)')]
    BY <1>1 DEF InOrder
  <2>2. \A i : At(s, i)' = At(s, i)
    BY <1>3
  <2> QED
    BY <2>1, <2>2 DEF InOrder
<1>5. OrderInv'
  <2>1. ASSUME NEW s \in Requests, NEW i \in 1..Cardinality(TurnsOf(s)') PROVE At(s, i)' # {}
    BY <1>1, <1>3 DEF OrderInv
  <2> QED
    BY <2>1 DEF OrderInv, TurnsKept
<1> QED
  BY <1>4, <1>5 DEF TurnLogs

LEMMA AddedIsAppended ==
    ASSUME TypeOK, OrderInv, NEW r \in Requests, TurnAdded(r),
           NEW mine \in Requests, session[r] = mine
    PROVE  /\ OrderInv'
           /\ InOrder(mine)' = Append(InOrder(mine), r)
           /\ \A s \in Requests \ {mine} : InOrder(s)' = InOrder(s)
<1>0. PICK T, n : T = TurnsOf(mine) /\ n = Cardinality(T)
  OBVIOUS
<1>1. /\ TurnsOf(mine)' = T \cup {r} /\ r \notin T
      /\ \A s : s # mine => TurnsOf(s)' = TurnsOf(s)
  BY <1>0 DEF TurnAdded, TurnsOf
<1>2. IsFiniteSet(T) /\ n \in Nat
  BY <1>0, TurnsAreFinite
<1>3. Cardinality(T \cup {r}) = n + 1
  BY <1>0, <1>1, <1>2, FS_AddElement
<1>4. ASSUME NEW p \in stored PROVE Position(p)' = Position(p)
  <2>1. session[p] = mine => ~(stamp[r] <= stamp[p])
    <3> SUFFICES ASSUME session[p] = mine PROVE ~(stamp[r] <= stamp[p])
      OBVIOUS
    <3>1. stamp[p] < stamp[r] /\ stamp[p] \in Nat /\ stamp[r] \in Nat
      BY DEF TurnAdded, TurnsOf, TypeOK
    <3> QED
      BY <3>1
  <2>2. {q \in stored' : session'[q] = session'[p] /\ stamp'[q] <= stamp'[p]}
            = {q \in stored : session[q] = session[p] /\ stamp[q] <= stamp[p]}
    BY <2>1 DEF TurnAdded
  <2> QED
    BY <2>2, PositionIs
<1>5. Position(r)' = n + 1
  <2>1. \A q \in T \cup {r} : stamp[q] <= stamp[r]
    BY <1>0 DEF TurnAdded, TypeOK, TurnsOf
  <2>2. {q \in stored' : session'[q] = session'[r] /\ stamp'[q] <= stamp'[r]} = T \cup {r}
    BY <1>0, <2>1 DEF TurnAdded, TurnsOf
  <2> QED
    BY <1>3, <2>2, PositionIs
<1>6. ASSUME NEW p \in T PROVE Position(p)' <= n /\ Position(p)' \in Nat
  <2> DEFINE P == {q \in stored : session[q] = session[p] /\ stamp[q] <= stamp[p]}
  <2>1. P \in SUBSET T
    BY <1>0 DEF TurnsOf
  <2> HIDE DEF P
  <2>2. Cardinality(P) <= n /\ Cardinality(P) \in Nat
    BY <1>0, <1>2, <2>1, FS_Subset, FS_CardinalityType
  <2>3. Position(p)' = Position(p)
    BY <1>0, <1>4 DEF TurnsOf
  <2> QED
    BY <2>2, <2>3, PositionIs DEF P
<1>7. ASSUME NEW i PROVE At(mine, i)' = {p \in T \cup {r} : Position(p)' = i}
  BY <1>1 DEF At
<1>8. ASSUME NEW i \in 1..n PROVE At(mine, i)' = At(mine, i)
  <2>1. Position(r)' # i
    BY <1>2, <1>5
  <2>2. \A p \in T : Position(p)' = Position(p)
    BY <1>0, <1>4 DEF TurnsOf
  <2> QED
    BY <1>0, <1>7, <2>1, <2>2 DEF At
<1>9. ASSUME NEW i, i = n + 1 PROVE At(mine, i)' = {r}
  <2>1. \A p \in T : Position(p)' # i
    <3> SUFFICES ASSUME NEW p \in T PROVE Position(p)' # i
      OBVIOUS
    <3> QED
      BY <1>2, <1>6, <1>9
  <2> QED
    BY <1>5, <1>7, <1>9, <2>1
<1>10. ASSUME NEW s, s # mine, NEW i PROVE At(s, i)' = At(s, i)
  <2>1. At(s, i)' = {p \in TurnsOf(s) : Position(p)' = i}
    BY <1>1, <1>10 DEF At
  <2>2. \A p \in TurnsOf(s) : Position(p)' = Position(p)
    BY <1>4 DEF TurnsOf
  <2> QED
    BY <2>1, <2>2 DEF At
<1>11. ASSUME NEW s \in Requests, s # mine PROVE InOrder(s)' = InOrder(s)
  <2>1. InOrder(s)' = [i \in 1..Cardinality(TurnsOf(s)) |-> Sole(At(s, i)')]
    BY <1>1, <1>11 DEF InOrder
  <2>2. \A i : At(s, i)' = At(s, i)
    BY <1>10, <1>11
  <2> QED
    BY <2>1, <2>2 DEF InOrder
<1>12. InOrder(mine)' = Append(InOrder(mine), r)
  <2>1. PICK old : old = InOrder(mine)
    OBVIOUS
  <2>2. old \in Seq(Requests) /\ Len(old) = n
    BY <1>0, <2>1, LogsType
  <2>3. Append(old, r) = [i \in 1..(n + 1) |-> IF i = n + 1 THEN r ELSE old[i]]
    <3> DEFINE new == [i \in 1..(n + 1) |-> IF i = n + 1 THEN r ELSE old[i]]
    <3>1. Append(old, r) \in Seq(Requests) /\ Len(Append(old, r)) = n + 1
      BY <2>2
    <3>2. \A i \in 1..(n + 1) : Append(old, r)[i] = new[i] /\ new[i] \in Requests
      BY <1>2, <2>2
    <3>3. new \in [1..(n + 1) -> Requests] /\ n + 1 \in Nat
      BY <1>2, <3>2
    <3> HIDE DEF new
    <3>4. new \in Seq(Requests) /\ Len(new) = n + 1
      BY <3>3
    <3> QED
      BY <3>1, <3>2, <3>4, SeqEqual DEF new
  <2>4. InOrder(mine)' = [i \in 1..(n + 1) |-> Sole(At(mine, i)')]
    BY <1>1, <1>3 DEF InOrder
  <2>5. ASSUME NEW i \in 1..(n + 1)
        PROVE  Sole(At(mine, i)') = IF i = n + 1 THEN r ELSE old[i]
    <3>1. CASE i = n + 1
      BY <1>9, <3>1, SoleIs
    <3>2. CASE i # n + 1
      <4>1. i \in 1..n
        BY <1>2, <3>2
      <4>2. old[i] = Sole(At(mine, i))
        BY <1>0, <2>1, <4>1 DEF InOrder
      <4> QED
        BY <1>8, <3>2, <4>1, <4>2
    <3> QED
      BY <3>1, <3>2
  <2> QED
    BY <2>1, <2>3, <2>4, <2>5
<1>13. OrderInv'
  <2>1. IsFiniteSet(stored')
    BY FS_AddElement DEF OrderInv, TurnAdded
  <2>2. ASSUME NEW s \in Requests, NEW i \in 1..Cardinality(TurnsOf(s)')
        PROVE  At(s, i)' # {}
    <3>1. CASE s # mine
      <4>1. TurnsOf(s)' = TurnsOf(s)
        BY <1>1, <3>1
      <4>2. At(s, i)' = At(s, i)
        BY <1>10, <3>1
      <4> QED
        BY <4>1, <4>2 DEF OrderInv
    <3>2. CASE s = mine
      <4>1. i \in 1..(n + 1) /\ At(s, i)' = At(mine, i)'
        BY <1>1, <1>3, <3>2
      <4>2. CASE i = n + 1
        BY <1>9, <4>1, <4>2
      <4>3. CASE i # n + 1
        <5>1. i \in 1..n
          BY <1>2, <4>1, <4>3
        <5> QED
          BY <1>0, <1>8, <4>1, <5>1 DEF OrderInv
      <4> QED
        BY <4>2, <4>3
    <3> QED
      BY <3>1, <3>2
  <2> QED
    BY <2>1, <2>2 DEF OrderInv
<1> QED
  BY <1>11, <1>12, <1>13

LEMMA AddedIsAppendTurn ==
    ASSUME TypeOK, OrderInv, NEW r \in Requests, TurnAdded(r)
    PROVE  Log!AppendTurn
<1>1. session[r] \in Requests
  BY DEF TurnAdded
<1>2. ~Log!Logged(r)
  <2> SUFFICES ASSUME NEW s \in Requests, NEW i \in DOMAIN TurnLogs[s], TurnLogs[s][i] = r
               PROVE  FALSE
    BY DEF Log!Logged, TurnLogs
  <2> QED
    BY LoggedIsStored DEF TurnsOf, TurnAdded
<1>3. PICK mine \in Requests : session[r] = mine
  BY <1>1
<1>4. TurnLogs' = [TurnLogs EXCEPT ![mine] = Append(@, r)]
  <2>1. InOrder(mine)' = Append(InOrder(mine), r)
    BY <1>3, AddedIsAppended
  <2>2. \A s \in Requests \ {mine} : InOrder(s)' = InOrder(s)
    BY <1>3, AddedIsAppended
  <2> QED
    BY <2>1, <2>2 DEF TurnLogs
<1> QED
  BY <1>2, <1>3, <1>4 DEF Log!AppendTurn, TurnLogs

LEMMA LogsInitially == Init => Log!Init
<1> SUFFICES ASSUME Init PROVE Log!Init
  OBVIOUS
<1>1. TypeOK /\ OrderInv
  BY ConvInitially, OrderInitially DEF ConvInv
<1>2. TurnLogs \in [Requests -> Seq(Requests)]
  BY <1>1, LogsType DEF TurnLogs
<1>3. ASSUME NEW s \in Requests, NEW t \in Requests, NEW i \in DOMAIN TurnLogs[s],
             NEW j \in DOMAIN TurnLogs[t], TurnLogs[s][i] = TurnLogs[t][j]
      PROVE  s = t /\ i = j
  <2>1. TurnLogs[s][i] \in TurnsOf(s) /\ TurnLogs[t][j] \in TurnsOf(t)
    BY <1>1, LoggedIsStored
  <2>2. Position(TurnLogs[s][i]) = i /\ Position(TurnLogs[t][j]) = j
    BY <1>1, LoggedIsStored
  <2> QED
    BY <1>3, <2>1, <2>2 DEF TurnsOf
<1> QED
  BY <1>2, <1>3 DEF Log!Init, Log!Once, TurnLogs

LEMMA LogStep ==
    ConvInv /\ OrderInv /\ [Next]_vars
        => /\ OrderInv'
           /\ [Log!AppendTurn]_([s \in Requests |-> InOrder(s)])
<1> SUFFICES ASSUME ConvInv, OrderInv, [Next]_vars
             PROVE  OrderInv' /\ (Log!AppendTurn \/ UNCHANGED TurnLogs)
  BY DEF TurnLogs
<1>1. TypeOK
  BY DEF ConvInv
<1>2. CASE TurnsKept
  BY <1>1, <1>2, KeptIsStutter
<1>3. ASSUME NEW r \in Requests, TurnAdded(r) PROVE OrderInv' /\ Log!AppendTurn
  <2>1. PICK mine \in Requests : session[r] = mine
    BY <1>3 DEF TurnAdded
  <2> QED
    BY <1>1, <1>3, <2>1, AddedIsAppended, AddedIsAppendTurn
<1> QED
  BY <1>2, <1>3, StepsAddOrKeep

\* For any number of requests and sessions and any clocks, the stored messages are a log
\* of whole turns: a turn is appended behind all others of its session, once, and never
\* moves.
THEOREM TurnsAreALog == Spec => ImplementsTurnLog
<1>1. Init => Log!Init
  BY LogsInitially
<1>2. ConvInv /\ OrderInv /\ [Next]_vars
        => OrderInv' /\ [Log!AppendTurn]_([s \in Requests |-> InOrder(s)])
  BY LogStep
<1> QED
  BY <1>1, <1>2, OrderInitially, ConvAlways, PTL DEF Spec, ImplementsTurnLog, Log!Spec

-----------------------------------------------------------------------------
(* The page and its requests.                                               *)

\* What the page knows of a request follows from where the request is.
PageAgrees ==
    \A r \in Requests :
        /\ asked[r] = 0 <=> stream[r] = "idle"
        /\ asked[r] <= conversation
        /\ asked[r] = 0 <=> shows[r] = "none"
        /\ shows[r] = "complete" => r \in stored
        /\ shows[r] = "working" =>
              /\ asked[r] = conversation
              /\ session[r] = IF known = Nobody THEN r ELSE known
              /\ \A q \in Requests : shows[q] = "working" => q = r

\* A session is named after a request of its own, and belongs to one conversation.
SessionsApart ==
    \A r \in Requests : stream[r] # "idle" =>
        /\ session[session[r]] = session[r]
        /\ stream[session[r]] # "idle"
        /\ asked[session[r]] = asked[r]

\* The session the page names is that of its conversation, and so are the answers it
\* shows.
KnownIsVisible ==
    /\ known # Nobody =>
          /\ TurnsOf(known) # {}
          /\ session[known] = known
          /\ asked[known] = conversation
    /\ \A r \in Requests : shows[r] = "complete" /\ asked[r] = conversation =>
          known # Nobody /\ session[r] = known

ContextIsStored == \A r \in Requests : context[r] \subseteq TurnsOf(session[r])

PageInv ==
    /\ ConvInv /\ HistoryIsWhole
    /\ PageTypeOK /\ PageAgrees /\ SessionsApart /\ KnownIsVisible /\ ContextIsStored

LEMMA PageStepIsStep ==
    ASSUME PageTypeOK, PageNext
    PROVE  [Next]_vars
<1>1. ASSUME NEW r \in Requests, Submit(r) PROVE Next
  BY <1>1 DEF Submit, Next, PageTypeOK
<1> QED
  BY <1>1 DEF PageNext, Next, Receive, GiveUp, NewConversation

LEMMA RequestStep ==
    ASSUME TypeOK, NEW r \in Requests, RequestNext(r)
    PROVE  /\ UNCHANGED session
           /\ stored \subseteq stored'
           /\ \A q \in Requests : stream'[q] = "idle" <=> stream[q] = "idle"
<1> USE DEF TypeOK
<1>1. CASE ReadHistory(r) \/ Routed(r) \/ PersistTurn(r) \/ Emit(r) \/ TurnFails(r) \/ Relay(r)
  BY <1>1 DEF ReadHistory, Routed, PersistTurn, Emit, TurnFails, Relay
<1>2. CASE Answer(r) \/ Drained(r) \/ ReportFailure(r)
  BY <1>2 DEF Answer, Drained, ReportFailure, StreamGoes
<1>3. CASE Commit(r) \/ CommitInDoubt(r) \/ Disconnect(r)
  BY <1>3 DEF Commit, CommitInDoubt, Disconnect, StreamGoes, Store
<1> QED
  BY <1>1, <1>2, <1>3 DEF RequestNext, TurnStep, ClientStep, ServerStep

LEMMA PageInitially == PageInit => PageInv
<1> SUFFICES ASSUME PageInit PROVE PageInv
  OBVIOUS
<1> USE ConversationAssumption, PageAssumption
    DEF ConversationAssumption, PageAssumption, PageInit, Init, First
<1>1. ConvInv /\ HistoryIsWhole
  BY ConvInitially, WholeInitially
<1>2. PageTypeOK
  BY <1>1 DEF ConvInv, PageTypeOK, Statuses
<1>3. PageAgrees /\ SessionsApart /\ KnownIsVisible /\ ContextIsStored
  BY DEF PageAgrees, SessionsApart, KnownIsVisible, ContextIsStored, TurnsOf
<1> QED
  BY <1>1, <1>2, <1>3 DEF PageInv

LEMMA SubmitPreserves ==
    ASSUME PageInv, NEW r \in Requests, Submit(r), ConvInv', HistoryIsWhole'
    PROVE  PageInv'
<1> USE ConversationAssumption DEF ConversationAssumption, PageInv
<1> DEFINE s == IF known = Nobody THEN r ELSE known
<1>1. /\ stream[r] = "idle" /\ asked[r] = 0 /\ shows[r] = "none" /\ session[r] = Nobody
      /\ r \notin stored /\ s \in Requests
  BY DEF Submit, Open, StreamGoes, ConvInv, TasksAgree, DatesGrow, PageAgrees, PageTypeOK, TypeOK
<1>2. /\ session' = [session EXCEPT ![r] = s] /\ stream' = [stream EXCEPT ![r] = "relay"]
      /\ asked' = [asked EXCEPT ![r] = conversation] /\ shows' = [shows EXCEPT ![r] = "working"]
      /\ context' = [context EXCEPT ![r] = {q \in Visible : shows[q] = "complete"}]
      /\ UNCHANGED <<stored, conversation, known>>
      /\ \A q \in Requests : shows[q] # "working"
  BY DEF Submit, Open, StreamGoes
<1>3. /\ conversation \in Nat \ {0}
      /\ \A q \in Requests : session[q] = Nobody <=> stream[q] = "idle"
      /\ \A q \in Requests \ {r} : /\ session'[q] = session[q] /\ stream'[q] = stream[q]
                                   /\ asked'[q] = asked[q] /\ shows'[q] = shows[q]
                                   /\ context'[q] = context[q]
      /\ session'[r] = s /\ stream'[r] = "relay" /\ asked'[r] = conversation
      /\ shows'[r] = "working"
      /\ context'[r] = {q \in Visible : shows[q] = "complete"}
  <2>1. conversation \in Nat \ {0}
    BY PageAssumption DEF PageAssumption, PageTypeOK
  <2>2. \A q \in Requests : session[q] = Nobody <=> stream[q] = "idle"
    BY DEF ConvInv, TasksAgree
  <2> QED
    BY <2>1, <2>2, <1>2 DEF PageTypeOK, TypeOK
<1> HIDE DEF s
<1>4. PageTypeOK'
  <2>1. /\ asked' \in [Requests -> 0..MaxConversations] /\ conversation' \in 1..MaxConversations
        /\ known' \in Requests \cup {Nobody}
    BY <1>2 DEF PageTypeOK
  <2>2. shows' \in [Requests -> Statuses] /\ context' \in [Requests -> SUBSET Requests]
    BY <1>2 DEF PageTypeOK, Statuses, Visible
  <2> QED
    BY <2>1, <2>2 DEF ConvInv, PageTypeOK
<1>5. PageAgrees'
  <2>1. known' = known /\ s = IF known = Nobody THEN r ELSE known
    BY <1>2 DEF s
  <2> QED
    BY <1>1, <1>2, <1>3, <2>1 DEF PageAgrees
\* The session is a new one, or that of the page's conversation.
<1>6. CASE known = Nobody
  <2>1. s = r
    BY <1>6 DEF s
  <2>2. \A q \in Requests : stream[q] # "idle" => session[q] # r
    BY <1>1 DEF SessionsApart
  <2>3. SessionsApart'
    <3>1. ASSUME NEW q \in Requests \ {r}, stream'[q] # "idle"
          PROVE  /\ session'[session'[q]] = session'[q]
                 /\ stream'[session'[q]] # "idle"
                 /\ asked'[session'[q]] = asked'[q]
      <4>1. session[q] \in Requests \ {r} /\ stream[q] # "idle"
        BY <3>1, <1>3, <2>2 DEF PageTypeOK, TypeOK
      <4> QED
        BY <3>1, <4>1, <1>3 DEF SessionsApart
    <3>2. /\ session'[session'[r]] = session'[r] /\ stream'[session'[r]] # "idle"
          /\ asked'[session'[r]] = asked'[r]
      BY <1>3, <2>1
    <3> QED
      BY <3>1, <3>2 DEF SessionsApart
  <2>4. KnownIsVisible'
    BY <1>2, <1>3, <1>6 DEF KnownIsVisible
  <2>5. ContextIsStored'
    <3>1. context'[r] = {}
      BY <1>3, <1>6 DEF KnownIsVisible, Visible
    <3>2. ASSUME NEW q \in Requests \ {r} PROVE context'[q] \subseteq TurnsOf(session[q])'
      BY <1>1, <1>2, <1>3, <3>2 DEF ContextIsStored, TurnsOf
    <3> QED
      BY <3>1, <3>2 DEF ContextIsStored, TurnsOf
  <2> QED
    BY <1>4, <1>5, <2>3, <2>4, <2>5
<1>7. CASE known # Nobody
  <2>1. /\ s = known /\ known \in Requests /\ known # r
        /\ session[known] = known /\ asked[known] = conversation /\ stream[known] # "idle"
    BY <1>1, <1>3, <1>7 DEF s, KnownIsVisible, PageTypeOK
  <2>2. SessionsApart'
    <3>1. ASSUME NEW q \in Requests \ {r}, stream'[q] # "idle"
          PROVE  /\ session'[session'[q]] = session'[q]
                 /\ stream'[session'[q]] # "idle"
                 /\ asked'[session'[q]] = asked'[q]
      <4>1. session[q] \in Requests /\ stream[q] # "idle"
        BY <3>1, <1>3 DEF PageTypeOK, TypeOK
      <4>2. session[q] # r
        BY <4>1, <1>1 DEF SessionsApart
      <4> QED
        BY <3>1, <4>1, <4>2, <1>3 DEF SessionsApart
    <3>2. /\ session'[session'[r]] = session'[r] /\ stream'[session'[r]] # "idle"
          /\ asked'[session'[r]] = asked'[r]
      BY <1>3, <2>1
    <3> QED
      BY <3>1, <3>2 DEF SessionsApart
  <2>3. \A q \in stored : q # r /\ session'[q] = session[q]
    BY <1>1, <1>3 DEF PageTypeOK, TypeOK
  <2>5. KnownIsVisible'
    <3>1. TurnsOf(known)' # {}
      BY <1>2, <1>7, <2>1, <2>3 DEF KnownIsVisible, TurnsOf
    <3> QED
      BY <3>1, <2>1, <1>2, <1>3 DEF KnownIsVisible, TurnsOf
  <2>6. ContextIsStored'
    <3>1. \A q \in context'[r] : q \in stored /\ session[q] = known
      BY <1>3 DEF KnownIsVisible, PageAgrees, Visible
    <3>2. context'[r] \subseteq TurnsOf(session[r])'
      BY <3>1, <2>1, <2>3, <1>2, <1>3 DEF TurnsOf
    <3>3. ASSUME NEW q \in Requests \ {r} PROVE context'[q] \subseteq TurnsOf(session[q])'
      BY <2>3, <1>2, <1>3, <3>3 DEF ContextIsStored, TurnsOf
    <3> QED
      BY <3>2, <3>3 DEF ContextIsStored
  <2> QED
    BY <1>4, <1>5, <2>2, <2>5, <2>6
<1> QED
  BY <1>6, <1>7

LEMMA PagePreserved == PageInv /\ [PageNext]_allVars => PageInv'
<1> SUFFICES ASSUME PageInv, [PageNext]_allVars PROVE PageInv'
  OBVIOUS
<1>0. ConvInv' /\ HistoryIsWhole'
  <2>1. [Next]_vars
    BY PageStepIsStep DEF PageInv, allVars
  <2> QED
    BY <2>1, ConvPreserved, WholePreserved DEF PageInv
<1> USE ConversationAssumption DEF ConversationAssumption, PageInv
<1>1. ASSUME NEW r \in Requests, Submit(r) PROVE PageInv'
  BY <1>0, <1>1, SubmitPreserves
<1>2. ASSUME NEW r \in Requests, Receive(r) PROVE PageInv'
  <2>0. /\ shows[r] = "working" /\ UNCHANGED <<vars, conversation, asked, context>>
        /\ stream[r] # "idle" /\ session[r] \in Requests /\ asked[r] = conversation
        /\ session[r] = IF known = Nobody THEN r ELSE known
        /\ stream[session[r]] # "idle"
        /\ session[session[r]] = session[r] /\ asked[session[r]] = conversation
    BY <1>2 DEF Receive, PageAgrees, ConvInv, TasksAgree, TypeOK, SessionsApart
  <2>1. UNCHANGED <<stored, session, stream>>
    BY <2>0 DEF vars
  <2>2. SessionsApart' /\ ContextIsStored'
    BY <2>0, <2>1 DEF SessionsApart, ContextIsStored, TurnsOf
  <2>3. CASE told[r] = "done" /\ shows' = [shows EXCEPT ![r] = "complete"] /\ known' = session[r]
    <3>1. r \in stored
      BY <2>3 DEF ConvInv, TasksAgree
    <3>2. PageTypeOK'
      BY <1>0, <2>0, <2>3 DEF PageTypeOK, Statuses, ConvInv
    <3>3. PageAgrees'
      BY <2>0, <2>1, <2>3, <3>1 DEF PageAgrees, PageTypeOK
    <3>4. KnownIsVisible'
      <4>1. r \in TurnsOf(known)'
        BY <2>1, <2>3, <3>1 DEF TurnsOf
      <4>2. ASSUME NEW q \in Requests, shows'[q] = "complete", asked[q] = conversation
            PROVE  session[q] = session[r]
        BY <2>0, <2>3, <4>2 DEF KnownIsVisible, PageTypeOK
      <4> QED
        BY <2>0, <2>1, <2>3, <4>1, <4>2 DEF KnownIsVisible
    <3> QED
      BY <1>0, <2>2, <3>2, <3>3, <3>4
  <2>4. CASE shows' = [shows EXCEPT ![r] = "over"] /\ known' = known
    <3>1. PageTypeOK'
      BY <1>0, <2>0, <2>4 DEF PageTypeOK, Statuses, ConvInv
    <3>2. PageAgrees' /\ KnownIsVisible'
      BY <2>0, <2>1, <2>4 DEF PageAgrees, KnownIsVisible, PageTypeOK, TurnsOf
    <3> QED
      BY <1>0, <2>2, <3>1, <3>2
  <2> QED
    BY <1>2, <2>3, <2>4 DEF Receive
<1>3. ASSUME NEW r \in Requests, GiveUp(r) PROVE PageInv'
  <2>1. UNCHANGED <<stored, session, stream>>
    BY <1>3 DEF GiveUp, vars
  <2>2. PageTypeOK'
    BY <1>0, <1>3 DEF GiveUp, PageTypeOK, Statuses, ConvInv
  <2>3. PageAgrees' /\ SessionsApart' /\ KnownIsVisible' /\ ContextIsStored'
    BY <1>3, <2>1 DEF GiveUp, PageAgrees, SessionsApart, KnownIsVisible, ContextIsStored, TurnsOf,
                      PageTypeOK
  <2> QED
    BY <1>0, <2>2, <2>3
<1>4. ASSUME NewConversation PROVE PageInv'
  <2>1. /\ UNCHANGED <<stored, session, stream, asked, context>> /\ conversation' = conversation + 1
        /\ known' = Nobody /\ conversation < MaxConversations
        /\ shows' = [r \in Requests |-> IF shows[r] = "working" THEN "over" ELSE shows[r]]
    BY <1>4 DEF NewConversation, vars
  <2>2. conversation \in Nat \ {0} /\ \A r \in Requests : asked[r] \in Nat /\ asked[r] <= conversation
    BY PageAssumption DEF PageAssumption, PageTypeOK, PageAgrees
  <2>3. PageTypeOK'
    <3>1. conversation' \in 1..MaxConversations
      BY <2>1, PageAssumption DEF PageAssumption, PageTypeOK
    <3>2. shows' \in [Requests -> Statuses]
      BY <2>1 DEF PageTypeOK, Statuses
    <3> QED
      BY <1>0, <2>1, <3>1, <3>2 DEF PageTypeOK, ConvInv
  <2>4. PageAgrees'
    BY <2>1, <2>2 DEF PageAgrees, PageTypeOK
  <2>5. KnownIsVisible'
    BY <2>1, <2>2 DEF KnownIsVisible
  <2>6. SessionsApart' /\ ContextIsStored'
    BY <2>1 DEF SessionsApart, ContextIsStored, TurnsOf
  <2> QED
    BY <1>0, <2>3, <2>4, <2>5, <2>6
<1>5. ASSUME NEW r \in Requests, RequestNext(r), UNCHANGED pageVars PROVE PageInv'
  <2>1. /\ UNCHANGED session /\ stored \subseteq stored'
        /\ \A q \in Requests : stream'[q] = "idle" <=> stream[q] = "idle"
    BY <1>5, RequestStep DEF ConvInv
  <2>2. PageTypeOK'
    BY <1>0, <1>5 DEF PageTypeOK, ConvInv, pageVars
  <2>3. PageAgrees'
    BY <1>5, <2>1 DEF PageAgrees, pageVars
  <2>4. SessionsApart'
    BY <1>5, <2>1 DEF SessionsApart, pageVars, ConvInv, TasksAgree, TypeOK
  <2>5. KnownIsVisible' /\ ContextIsStored'
    BY <1>5, <2>1 DEF KnownIsVisible, ContextIsStored, pageVars, TurnsOf
  <2> QED
    BY <1>0, <2>2, <2>3, <2>4, <2>5
<1>6. CASE UNCHANGED allVars
  BY <1>0, <1>6 DEF allVars, vars, pageVars, PageTypeOK, ConvInv, PageAgrees, SessionsApart,
                    KnownIsVisible, ContextIsStored, TurnsOf
<1> QED
  BY <1>1, <1>2, <1>3, <1>4, <1>5, <1>6 DEF PageNext

LEMMA PageAlways == PageSpec => []PageInv
  BY PageInitially, PagePreserved, PTL DEF PageSpec

\* The page and the requests behind it keep their types.
THEOREM PageTypeCorrect == PageSpec => []PageTypeOK
<1>1. PageInv => PageTypeOK
  BY DEF PageInv
<1> QED
  BY <1>1, PageAlways, PTL

\* However the user stops requests and starts conversations, a history holds turns of
\* one conversation only.
THEOREM FollowUpsVisible == PageSpec => []FollowUpsStayVisible
<1>1. PageInv => FollowUpsStayVisible
  <2> SUFFICES ASSUME PageInv, NEW r \in Requests, NEW m \in history[r]
               PROVE  asked[m.req] = asked[r]
    BY DEF FollowUpsStayVisible
  <2>1. m.req \in TurnsOf(session[r]) /\ m.req \in Requests
    BY DEF PageInv, HistoryIsWhole, TurnsOf, ConvInv, TypeOK
  <2>2. session[m.req] = session[r] /\ session[r] \in Requests
    BY <2>1 DEF PageInv, ConvInv, DatesGrow, TurnsOf
  <2>3. stream[m.req] # "idle" /\ stream[r] # "idle"
    BY <2>1, <2>2, ConversationAssumption
       DEF PageInv, ConvInv, TasksAgree, ConversationAssumption
  <2> QED
    BY <2>1, <2>2, <2>3 DEF PageInv, SessionsApart
<1> QED
  BY <1>1, PageAlways, PTL

\* The page's session is on the server, whatever became of its first turn.
THEOREM SessionsExist == PageSpec => []KnownSessionExists
<1>1. PageInv => KnownSessionExists
  BY DEF PageInv, KnownIsVisible, KnownSessionExists
<1> QED
  BY <1>1, PageAlways, PTL

LEMMA RememberedPreserved ==
    PageInv /\ ShownIsRemembered /\ [PageNext]_allVars => ShownIsRemembered'
<1> SUFFICES ASSUME PageInv, ShownIsRemembered, [PageNext]_allVars,
                    NEW r \in Requests, Informed(r)'
             PROVE  \/ \A q \in context'[r] : /\ UserMessage(q)' \in history'[r]
                                            /\ AssistantMessage(q)' \in history'[r]
                    \/ Cardinality(history'[r]) = Limit
  BY DEF ShownIsRemembered
<1> USE DEF PageInv
\* What is stored keeps its dates.
<1>1. \A q \in stored : stamp'[q] = stamp[q]
  <2>1. [Next]_vars
    BY PageStepIsStep DEF allVars
  <2>2. ASSUME NEW q \in Requests, PersistTurn(q) PROVE \A p \in stored : stamp'[p] = stamp[p]
    BY <2>2 DEF PersistTurn, TurnGoes, ConvInv, DatesGrow, TypeOK
  <2> QED
    BY <2>1, <2>2 DEF Next, RequestNext, TurnStep, ClientStep, ServerStep, ReadHistory, Routed,
       TurnFails, Emit, Relay, Answer, Drained, ReportFailure, Commit, CommitInDoubt, Disconnect,
       Open, vars
<1>2. context[r] \subseteq stored
  BY DEF ContextIsStored, TurnsOf
<1>3. CASE Informed(r) /\ history'[r] = history[r] /\ context'[r] = context[r]
  BY <1>1, <1>2, <1>3 DEF ShownIsRemembered, UserMessage, AssistantMessage
<1>4. CASE ReadHistory(r) /\ UNCHANGED pageVars
  <2>1. /\ context' = context /\ stamp' = stamp
        /\ history'[r] \subseteq Stored(session[r]) /\ Recent(history'[r], session[r])
    <3>1. Exists(r)
      BY <1>4 DEF ReadHistory, TurnGoes, Informed, ConvInv, TypeOK
    <3> QED
      BY <1>4, <3>1 DEF ReadHistory, Recent, pageVars, ConvInv, TypeOK
  <2>2. CASE history'[r] = Stored(session[r])
    BY <2>1, <2>2 DEF ContextIsStored, Stored, UserMessage, AssistantMessage
  <2> QED
    BY <2>1, <2>2 DEF Recent
<1>5. CASE ~(ReadHistory(r) /\ UNCHANGED pageVars)
  <2>1. Informed(r) /\ history'[r] = history[r] /\ context'[r] = context[r]
    <3>1. ASSUME NEW q \in Requests, Submit(q) PROVE Informed(r) /\ history'[r] = history[r] /\ context'[r] = context[r]
      BY <3>1 DEF Submit, Open, Informed, ConvInv, PageTypeOK, TypeOK
    <3>2. ASSUME NEW q \in Requests, RequestNext(q), UNCHANGED pageVars
          PROVE  Informed(r) /\ history'[r] = history[r] /\ context'[r] = context[r]
      <4>1. CASE ReadHistory(q)
        BY <4>1, <3>2, <1>5 DEF ReadHistory, TurnGoes, Informed, ConvInv, TypeOK, pageVars
      <4>2. CASE Routed(q) \/ PersistTurn(q) \/ TurnFails(q)
        BY <4>2, <3>2 DEF Routed, PersistTurn, TurnFails, TurnGoes, Informed, ConvInv, TypeOK, pageVars
      <4>3. CASE Disconnect(q)
        BY <4>3, <3>2 DEF Disconnect, Informed, ConvInv, TypeOK, pageVars
      <4> QED
        BY <3>2, <4>1, <4>2, <4>3 DEF RequestNext, TurnStep, ClientStep, ServerStep, Emit, Relay,
           Answer, Drained, ReportFailure, Commit, CommitInDoubt, Informed, pageVars
    <3> QED
      BY <3>1, <3>2 DEF PageNext, Receive, GiveUp, NewConversation, allVars, vars, pageVars, Informed
  <2> QED
    BY <2>1, <1>3
<1> QED
  BY <1>4, <1>5

\* An answer the page showed is in the history of every later request of its
\* conversation, or the history is full.
THEOREM AnswersRemembered == PageSpec => []ShownIsRemembered
<1>1. PageInit => ShownIsRemembered
  BY DEF PageInit, ShownIsRemembered
<1> QED
  BY <1>1, PageAlways, RememberedPreserved, PTL DEF PageSpec

\* What the page shows and names is what the server has.
THEOREM PagesTrue == PageSpec => []PageIsTrue
  BY AnswersRemembered, SessionsExist, PTL DEF PageIsTrue

\* So are the messages that the page's requests leave, whatever the page does.
THEOREM PageImplementsTurnLog == PageSpec => ImplementsTurnLog
<1>1. PageInit => Log!Init /\ OrderInv
  BY LogsInitially, OrderInitially DEF PageInit
<1>2. PageInv /\ OrderInv /\ [PageNext]_allVars
        => OrderInv' /\ [Log!AppendTurn]_([s \in Requests |-> InOrder(s)])
  <2>1. PageInv /\ [PageNext]_allVars => [Next]_vars
    BY PageStepIsStep DEF PageInv, allVars
  <2> QED
    BY <2>1, LogStep DEF PageInv
<1> QED
  BY <1>1, <1>2, PageAlways, PTL DEF PageSpec, ImplementsTurnLog, Log!Spec
=============================================================================
