---------------------------- MODULE AspectExtraction ----------------------------
(***************************************************************************)
(* The extraction of one enrichment stage: the batches that                 *)
(* _run_enrichment_stage (backend/worker/jobs.py) gathers, each an          *)
(* AspectExtractor.extract (pipelines/enrichment/aspect_extractor.py) with  *)
(* its retries and its fallback to single documents.                        *)
(*                                                                          *)
(* The documents are those prepare_document lets through.  A reply is kept  *)
(* as far as the code tells replies apart: unusable, or per document how    *)
(* many aspects it has and how many of them validation keeps.               *)
(***************************************************************************)
EXTENDS Integers, FiniteSets

CONSTANTS
    Batches,      \* the batches of the stage
    Docs,         \* the documents in them
    BatchOf,      \* the batch of a document
    Poison,       \* documents that may make the model's reply unusable
    Nothing,      \* no document
    MaxRetries,   \* MAX_RETRIES
    SdkRetries,   \* llm_max_retries: what the client repeats inside one create()
    Concurrency,  \* MAX_EXTRACTION_CONCURRENCY
    MaxKept       \* aspects looked at per document (3 in the code)

DocsIn(b) == {d \in Docs : BatchOf[d] = b}

ASSUME ExtractionAssumption ==
    /\ IsFiniteSet(Docs)
    /\ BatchOf \in [Docs -> Batches]
    /\ \A b \in Batches : DocsIn(b) # {}
    /\ Poison \subseteq Docs
    /\ Nothing \notin Docs
    /\ MaxRetries \in Nat
    /\ SdkRetries \in Nat
    /\ Concurrency \in Nat \ {0}
    /\ MaxKept \in Nat \ {0}

VARIABLES
    failFast,   \* fail_fast: the extractor of an acceptance run
    phase,      \* where the task of a batch is
    attempt,    \* calls of create() for the current request that failed
    resent,     \* times the client has repeated the current create()
    todo,       \* documents the fallback has not asked for yet
    current,    \* the document the fallback asks for
    requests,   \* HTTP requests sent for a batch
    delivered,  \* how often a document is in the result's documents
    kept,       \* mentions the result has of a document
    errors,     \* failed_document_errors, by the cause they name
    outcome     \* how extract ended

extracted == <<delivered, kept, errors>>
sending == <<resent, requests>>
vars == <<failFast, phase, attempt, todo, current, sending, extracted, outcome>>

Phases == {"queued", "batch", "next", "single", "done"}
\* A usable reply at last, unusable replies only, a provider that did not answer, and an
\* API error that is not retried.
Outcomes == {"none", "result", "unusable", "unavailable", "escaped"}
Causes == {"none", "rejected", "unusable", "unavailable"}

TypeOK ==
    /\ failFast \in BOOLEAN
    /\ phase \in [Batches -> Phases]
    /\ attempt \in [Batches -> 0..MaxRetries]
    /\ resent \in [Batches -> 0..SdkRetries]
    /\ todo \in [Batches -> SUBSET Docs]
    /\ current \in [Batches -> Docs \cup {Nothing}]
    /\ requests \in [Batches -> Nat]
    /\ delivered \in [Docs -> Nat]
    /\ kept \in [Docs -> 0..MaxKept]
    /\ errors \in [Docs -> Causes]
    /\ outcome \in [Batches -> Outcomes]

Init ==
    /\ failFast \in BOOLEAN
    /\ phase = [b \in Batches |-> "queued"]
    /\ attempt = [b \in Batches |-> 0]
    /\ resent = [b \in Batches |-> 0]
    /\ todo = [b \in Batches |-> {}]
    /\ current = [b \in Batches |-> Nothing]
    /\ requests = [b \in Batches |-> 0]
    /\ delivered = [d \in Docs |-> 0]
    /\ kept = [d \in Docs |-> 0]
    /\ errors = [d \in Docs |-> "none"]
    /\ outcome = [b \in Batches |-> "none"]

-----------------------------------------------------------------------------
Asking(b) == phase[b] \in {"batch", "single"}

\* The documents of the request a batch waits for.
Asked(b) == IF phase[b] = "batch" THEN DocsIn(b) ELSE {current[b]}

\* The semaphore: held until extract returns or raises.
Begin(b) ==
    /\ phase[b] = "queued"
    /\ Cardinality({c \in Batches : phase[c] \notin {"queued", "done"}}) < Concurrency
    /\ phase' = [phase EXCEPT ![b] = "batch"]
    /\ UNCHANGED <<failFast, attempt, todo, current, sending, extracted, outcome>>

\* Mutant: the client of an acceptance run repeats requests like any other.
ResendAlways(b) ==
    /\ Asking(b)
    /\ resent[b] < SdkRetries
    /\ resent' = [resent EXCEPT ![b] = @ + 1]
    /\ requests' = [requests EXCEPT ![b] = @ + 1]
    /\ UNCHANGED <<failFast, phase, attempt, todo, current, extracted, outcome>>

\* A request is not answered, limited or fails at the provider, and the client sends it
\* again before create() returns or raises.  That of an acceptance run never does
\* (max_retries=0, shared/acceptance/runtime.py).
Resend(b) ==
    /\ Asking(b)
    /\ ~failFast
    /\ resent[b] < SdkRetries
    /\ resent' = [resent EXCEPT ![b] = @ + 1]
    /\ requests' = [requests EXCEPT ![b] = @ + 1]
    /\ UNCHANGED <<failFast, phase, attempt, todo, current, extracted, outcome>>

\* The last request of a create(), which now returns or raises.
Sent(b) ==
    /\ requests' = [requests EXCEPT ![b] = @ + 1]
    /\ resent' = [resent EXCEPT ![b] = 0]

End(b, how) ==
    /\ phase' = [phase EXCEPT ![b] = "done"]
    /\ outcome' = [outcome EXCEPT ![b] = how]

\* A request was answered for good: extract returns, or the fallback goes on.
Answered(b) ==
    /\ attempt' = [attempt EXCEPT ![b] = 0]
    /\ IF phase[b] = "batch"
       THEN End(b, "result")
       ELSE phase' = [phase EXCEPT ![b] = "next"] /\ UNCHANGED outcome

-----------------------------------------------------------------------------
(* _validate_payload: the reply names each document asked for once.  Of a   *)
(* document's aspects the first MaxKept are looked at; if it has some and   *)
(* none is kept the document has failed, with an empty list of mentions.    *)

Aspects == {a \in [returned : 0..(MaxKept + 1), valid : 0..MaxKept] : a.valid <= a.returned}

Rejected(a) == a.returned > 0 /\ a.valid = 0

\* Mutant: the mentions beyond the limit are kept.
RecordAll(reply) ==
    /\ delivered' = [d \in Docs |-> IF d \in DOMAIN reply THEN delivered[d] + 1 ELSE delivered[d]]
    /\ kept' = [d \in Docs |-> IF d \in DOMAIN reply THEN reply[d].returned ELSE kept[d]]
    /\ UNCHANGED errors

Record(reply) ==
    /\ delivered' = [d \in Docs |-> IF d \in DOMAIN reply THEN delivered[d] + 1 ELSE delivered[d]]
    /\ kept' = [d \in Docs |-> IF d \in DOMAIN reply THEN reply[d].valid ELSE kept[d]]
    /\ errors' = [d \in Docs |-> IF d \in DOMAIN reply /\ Rejected(reply[d])
                                THEN "rejected" ELSE errors[d]]

Usable(b) ==
    /\ Asking(b)
    /\ Sent(b)
    /\ \E reply \in [Asked(b) -> Aspects] :
          /\ \A d \in Asked(b) \ Poison : ~Rejected(reply[d])
          /\ Record(reply)
    /\ Answered(b)
    /\ UNCHANGED <<failFast, todo, current>>

\* A retryable error, with an attempt left.
Retry(b) ==
    /\ Asking(b)
    /\ ~failFast
    /\ attempt[b] < MaxRetries
    /\ Sent(b)
    /\ attempt' = [attempt EXCEPT ![b] = @ + 1]
    /\ UNCHANGED <<failFast, phase, todo, current, extracted, outcome>>

LastAttempt(b) == failFast \/ attempt[b] = MaxRetries

\* Mutant: a single document that fails ends the whole fallback.
SingleFailsAll(b, how) ==
    /\ End(b, how)
    /\ UNCHANGED <<errors, attempt, todo, current>>

\* Only ExtractionResponseError, which the retries end with, is caught per document.
SingleFails(b, how) ==
    /\ errors' = [errors EXCEPT ![current[b]] = how]
    /\ Answered(b)
    /\ UNCHANGED <<todo, current>>

StartFallback(b) ==
    /\ phase' = [phase EXCEPT ![b] = "next"]
    /\ todo' = [todo EXCEPT ![b] = DocsIn(b)]
    /\ attempt' = [attempt EXCEPT ![b] = 0]
    /\ UNCHANGED <<errors, current, outcome>>

FallsBack(b) == ~failFast /\ phase[b] = "batch" /\ Cardinality(DocsIn(b)) > 1

\* The last attempt of a request over these documents is unusable: empty, no JSON, not the
\* schema, a document missing, unknown or named twice.
Unusable(b) ==
    /\ Asking(b)
    /\ LastAttempt(b)
    /\ Asked(b) \cap Poison # {}
    /\ Sent(b)
    /\ IF FallsBack(b) THEN StartFallback(b)
       ELSE IF phase[b] = "single" THEN SingleFails(b, "unusable")
       ELSE End(b, "unusable") /\ UNCHANGED <<errors, attempt, todo, current>>
    /\ UNCHANGED <<failFast, delivered, kept>>

\* The provider does not answer the last attempt, limits the rate or fails: no fallback.
Unavailable(b) ==
    /\ Asking(b)
    /\ LastAttempt(b)
    /\ Sent(b)
    /\ IF phase[b] = "single" THEN SingleFails(b, "unavailable")
       ELSE End(b, "unavailable") /\ UNCHANGED <<errors, attempt, todo, current>>
    /\ UNCHANGED <<failFast, delivered, kept>>

\* Any other API error leaves extract at once, from inside the fallback as well.
Escape(b) ==
    /\ Asking(b)
    /\ Sent(b)
    /\ End(b, "escaped")
    /\ UNCHANGED <<failFast, attempt, todo, current, extracted>>

\* _request_documents_individually: the next document, or the result.
NextSingle(b) ==
    /\ phase[b] = "next"
    /\ IF todo[b] = {}
       THEN End(b, "result") /\ UNCHANGED <<todo, current>>
       ELSE /\ \E d \in todo[b] : /\ current' = [current EXCEPT ![b] = d]
                                  /\ todo' = [todo EXCEPT ![b] = @ \ {d}]
            /\ phase' = [phase EXCEPT ![b] = "single"]
            /\ UNCHANGED outcome
    /\ UNCHANGED <<failFast, attempt, sending, extracted>>

-----------------------------------------------------------------------------
BatchStep(b) ==
    \/ Begin(b) \/ Resend(b) \/ Usable(b) \/ Retry(b) \/ Unusable(b)
    \/ Unavailable(b) \/ Escape(b) \/ NextSingle(b)

\* The stage has its results.
Gathered == (\A b \in Batches : phase[b] = "done") /\ UNCHANGED vars

Next == (\E b \in Batches : BatchStep(b)) \/ Gathered

Spec == Init /\ [][Next]_vars

-----------------------------------------------------------------------------
\* A result has each document of its batch once: in its documents, or as one whose own
\* request failed.  No document is lost between the batch request and the fallback, none
\* is delivered twice, which would double its mentions, and one that failed has none.
EachDocumentOnce ==
    \A d \in Docs :
        /\ delivered[d] <= 1
        /\ outcome[BatchOf[d]] = "result" =>
              (delivered[d] = 1 <=> errors[d] \in {"none", "rejected"})
        /\ kept[d] > 0 => delivered[d] = 1 /\ errors[d] = "none"

\* "one failed document does not block its peers" (docs/technical-guide.md:38): a document
\* to which the model has a proper reply is extracted although others in its batch make
\* every reply unusable, unless the provider itself failed.
PeersIsolated ==
    \A d \in Docs \ Poison :
        LET b == BatchOf[d]
        IN  phase[b] = "done" /\ ~failFast =>
              \/ outcome[b] \in {"unavailable", "escaped"}
              \/ outcome[b] = "result" /\ errors[d] \in {"none", "unavailable"}

\* Both together: what an enrichment stage delivers of its documents.
ResultsAreSound == EachDocumentOnce /\ PeersIsolated

\* The client's retries, those of the extractor and the fallback multiply, but to a bounded
\* number of requests; an acceptance run sends at most one, "one enrichment
\* request/document" (shared/acceptance/planning.py:24).
RequestsBounded ==
    \A b \in Batches :
        requests[b] <= IF failFast THEN 1
                       ELSE (SdkRetries + 1) * ((MaxRetries + 1) * (1 + Cardinality(DocsIn(b))))
=============================================================================
