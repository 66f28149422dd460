-------------------------------- MODULE TurnLog --------------------------------
(***************************************************************************)
(* What a chat session promises: a log of turns, each a user message and    *)
(* the answer to it, to which turns are appended whole, each in the log of  *)
(* one session.                                                             *)
(***************************************************************************)
EXTENDS Sequences

CONSTANTS Requests, Sessions

VARIABLE log

Logged(r) == \E s \in Sessions : \E i \in DOMAIN log[s] : log[s][i] = r

\* No turn is in two places.
Once ==
    \A s, t \in Sessions : \A i \in DOMAIN log[s], j \in DOMAIN log[t] :
        log[s][i] = log[t][j] => s = t /\ i = j

Init == log \in [Sessions -> Seq(Requests)] /\ Once

AppendTurn == \E r \in Requests, s \in Sessions :
    /\ ~Logged(r)
    /\ log' = [log EXCEPT ![s] = Append(@, r)]

Spec == Init /\ [][AppendTurn]_log
=============================================================================
