-------------------------------- MODULE AskPage --------------------------------
(***************************************************************************)
(* The Ask page (frontend/components/ask/ask-workspace.tsx, lib/api/ask.ts) *)
(* composed with the requests it sends (module Conversation).               *)
(*                                                                          *)
(* The page sends one request at a time, shows what the stream tells it,    *)
(* and keeps the session id of the last done event for its follow-ups until *)
(* the user starts a new conversation.  Stop and New conversation abort the *)
(* page's side of a request; the server goes on with it until it notices.   *)
(***************************************************************************)
EXTENDS Conversation

CONSTANT MaxConversations   \* bound on the conversations a user starts

ASSUME PageAssumption == MaxConversations \in Nat \ {0}

VARIABLES
    conversation,   \* which one the page shows
    known,          \* sessionId
    asked,          \* the conversation each request was sent from, 0: not yet
    shows,          \* status of its answer on the page; "over": error or cancelled
    context         \* answers the page showed as complete when it was sent

pageVars == <<conversation, known, asked, shows, context>>
allVars == <<vars, pageVars>>

Statuses == {"none", "working", "complete", "over"}

PageTypeOK ==
    /\ TypeOK
    /\ conversation \in 1..MaxConversations
    /\ known \in Requests \cup {Nobody}
    /\ asked \in [Requests -> 0..MaxConversations]
    /\ shows \in [Requests -> Statuses]
    /\ context \in [Requests -> SUBSET Requests]

PageInit ==
    /\ Init
    /\ conversation = 1
    /\ known = Earlier
    /\ asked = First(1, 0)
    /\ shows = First("complete", "none")
    /\ context = [r \in Requests |-> {}]

Visible == {r \in Requests : asked[r] = conversation}

\* submit: not while a request is running.
Submit(r) ==
    /\ asked[r] = 0
    /\ \A q \in Requests : shows[q] # "working"
    /\ Open(r, IF known = Nobody THEN r ELSE known)
    /\ asked' = [asked EXCEPT ![r] = conversation]
    /\ shows' = [shows EXCEPT ![r] = "working"]
    /\ context' = [context EXCEPT ![r] = {q \in Visible : shows[q] = "complete"}]
    /\ UNCHANGED <<conversation, known>>

\* Mutant: the session id of a done event is not kept.
ReceiveForgetful(r) ==
    /\ shows[r] = "working"
    /\ \/ told[r] = "done" /\ shows' = [shows EXCEPT ![r] = "complete"]
       \/ told[r] = "error" /\ shows' = [shows EXCEPT ![r] = "over"]
    /\ UNCHANGED <<vars, conversation, known, asked, context>>

\* The terminal event: done carries the session id, error does not.
Receive(r) ==
    /\ shows[r] = "working"
    /\ \/ /\ told[r] = "done"
          /\ shows' = [shows EXCEPT ![r] = "complete"]
          /\ known' = session[r]
       \/ /\ told[r] = "error"
          /\ shows' = [shows EXCEPT ![r] = "over"]
          /\ UNCHANGED known
    /\ UNCHANGED <<vars, conversation, asked, context>>

\* The user stops the request, or its stream ends or breaks before the terminal event
\* arrives, wherever the server is.
GiveUp(r) ==
    /\ shows[r] = "working"
    /\ shows' = [shows EXCEPT ![r] = "over"]
    /\ UNCHANGED <<vars, conversation, known, asked, context>>

\* Mutant: the page is cleared, the session id is not.
NewConversationSameSession ==
    /\ conversation < MaxConversations
    /\ conversation' = conversation + 1
    /\ shows' = [r \in Requests |-> IF shows[r] = "working" THEN "over" ELSE shows[r]]
    /\ UNCHANGED <<vars, known, asked, context>>

NewConversation ==
    /\ conversation < MaxConversations
    /\ conversation' = conversation + 1
    /\ known' = Nobody
    /\ shows' = [r \in Requests |-> IF shows[r] = "working" THEN "over" ELSE shows[r]]
    /\ UNCHANGED <<vars, asked, context>>

PageNext ==
    \/ NewConversation
    \/ \E r \in Requests :
          \/ Submit(r) \/ Receive(r) \/ GiveUp(r)
          \/ RequestNext(r) /\ UNCHANGED pageVars

\* An event is on its way to the client.
Sending(r) == stream[r] = "answer" \/ (stream[r] = "relay" /\ sent[r] < emitted[r])

\* Turns and commits go on.  A client reads what it is sent or goes away, and the page
\* notices the end of its stream; neither a turn that waits for the session row nor its
\* client is assumed to give up.
Served(r) == (TurnStep(r) \/ ServerStep(r)) /\ UNCHANGED pageVars
ReadOrLeft(r) ==
    (ClientStep(r) \/ (Sending(r) /\ Disconnect(r))) /\ UNCHANGED pageVars
Noticed(r) == Receive(r) \/ (stream[r] = "ended" /\ GiveUp(r))

PageSpec ==
    /\ PageInit
    /\ [][PageNext]_allVars
    /\ \A r \in Requests \ {Earlier} :
          /\ WF_allVars(Served(r))
          /\ WF_allVars(ReadOrLeft(r))
          /\ WF_allVars(Noticed(r))

-----------------------------------------------------------------------------
\* The router has been given a history.
Informed(r) == turn[r] \in {"route", "persist", "answered", "erred"}

\* "Follow-ups continue only this visible conversation": whatever was stopped, failed or
\* is still running on the server, the history of a request is made of turns that the
\* same conversation of the page shows.
FollowUpsStayVisible ==
    \A r \in Requests : \A m \in history[r] : asked[m.req] = asked[r]

\* What the page showed as complete when a request was sent, its router is told, unless
\* newer messages fill the history.
ShownIsRemembered ==
    \A r \in Requests : Informed(r) =>
        \/ {UserMessage(q) : q \in context[r]} \cup {AssistantMessage(q) : q \in context[r]}
              \subseteq history[r]
        \/ Cardinality(history[r]) = Limit

\* The page never names a session the server does not know, although a first turn may
\* fail or be rolled back after its session was created.
KnownSessionExists == known # Nobody => TurnsOf(known) # {}

\* Both together: what the page shows and names is what the server has.
PageIsTrue == ShownIsRemembered /\ KnownSessionExists

\* The page never works on a request forever.
PageSettles == \A r \in Requests : shows[r] = "working" ~> shows[r] # "working"

\* A request that was opened ends, and gives its session row back, also when the page
\* has turned away from it or another request of the session is slow.
EveryRequestEnds == \A r \in Requests : stream[r] = "relay" ~> stream[r] = "ended"

\* Both together: neither side of a request waits forever.
EverythingEnds == PageSettles /\ EveryRequestEnds
=============================================================================
