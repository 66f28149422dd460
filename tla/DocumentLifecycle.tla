-------------------------- MODULE DocumentLifecycle --------------------------
(***************************************************************************)
(* What the weekly pipeline promises of a document, without runners, stages *)
(* or two stores: raw -> enriched -> embedded, with failed as the other end *)
(* of raw.  Enriching adds the document's mentions once and atomically;     *)
(* publishing makes all of them searchable at once.                         *)
(***************************************************************************)
EXTENDS Integers

CONSTANT Docs

VARIABLES
    status,     \* the document's place in its life
    mentions,   \* the mentions extracted so far (records with a field doc)
    searchable  \* the mentions of published documents

Mine(M, d) == {m \in M : m.doc = d}

Init ==
    /\ status = [d \in Docs |-> "absent"]
    /\ mentions = {}
    /\ searchable = {}

Move(D, from, to) ==
    /\ \A d \in D : status[d] = from
    /\ status' = [d \in Docs |-> IF d \in D THEN to ELSE status[d]]

Arrive(D) == Move(D, "absent", "raw") /\ UNCHANGED <<mentions, searchable>>

Enrich(d) ==
    /\ Move({d}, "raw", "enriched")
    /\ Mine(mentions, d) = {}
    /\ mentions \subseteq mentions'
    /\ \A m \in mentions' \ mentions : m.doc = d
    /\ UNCHANGED searchable

Reject(d) ==
    /\ Move({d}, "raw", "failed")
    /\ Mine(mentions, d) = {}
    /\ UNCHANGED <<mentions, searchable>>

Publish(D) ==
    /\ Move(D, "enriched", "embedded")
    /\ searchable' = searchable \cup {m \in mentions : m.doc \in D}
    /\ UNCHANGED mentions

Next ==
    \/ \E d \in Docs : Enrich(d) \/ Reject(d)
    \/ \E D \in SUBSET Docs : Arrive(D) \/ Publish(D)

Spec == Init /\ [][Next]_<<status, mentions, searchable>>
=============================================================================
