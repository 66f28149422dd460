------------------------------- MODULE Pipeline -------------------------------
(***************************************************************************)
(* The weekly job of backend/worker/jobs.py over the two stores it writes:  *)
(* PostgreSQL (documents, aspect_mentions) and Milvus (one vector per       *)
(* mention, keyed by the mention's id).                                     *)
(*                                                                          *)
(* A runner is one execution context of weekly_pipeline_job: the worker's   *)
(* scheduler (max_instances=1) or a script started by hand.  A runner's     *)
(* step is one database transaction, one Milvus batch, or the failure of    *)
(* one; everything a runner reads it keeps in local variables until it      *)
(* uses it, as the code does between two awaits.                            *)
(*                                                                          *)
(* Extraction touches no shared state, so its answer for a document (some   *)
(* mentions, or an error) is chosen in the step that writes it down.        *)
(***************************************************************************)
EXTENDS Integers, FiniteSets

CONSTANTS
    Docs,         \* documents the loader may insert
    Skus,         \* product codes
    SkuOf,        \* the SKU of a document
    Enabled,      \* SKUs with dashboard_enabled
    Noise,        \* documents prepare_document filters out
    Blank,        \* documents for which the model quotes whitespace only
    Runners,      \* processes that may run the job
    Limit,        \* document_limit
    MaxMentions,  \* aspects kept per document (3 in the code)
    UpsertBatch,  \* UPSERT_BATCH_SIZE
    MaxFaults     \* bound on failed writes, crashes and aborted jobs

ASSUME PipelineAssumption ==
    /\ IsFiniteSet(Docs)
    /\ SkuOf \in [Docs -> Skus]
    /\ Enabled \subseteq Skus
    /\ Noise \subseteq Docs
    /\ Blank \subseteq Docs
    /\ IsFiniteSet(Runners)
    /\ Limit \in Nat \ {0}
    /\ MaxMentions \in Nat
    /\ UpsertBatch \in Nat \ {0}
    /\ MaxFaults \in Nat

VARIABLES
    status,      \* documents.processing_status ("absent": not inserted yet)
    ingestedAt,  \* documents.ingested_at (the rows of one insert share it)
    mentions,    \* ids of the rows of aspect_mentions
    inserts,     \* how often a document's mentions were inserted: fresh ids
    embedText,   \* ids whose embed_text is set
    vectors,     \* primary keys in the Milvus collection
    pc,          \* where each runner is in the job
    work,        \* raw documents fetched and not yet settled
    fetched,     \* enriched documents fetched for embedding
    rows,        \* mentions fetched for embedding
    pending,     \* mentions whose vector is not upserted yet
    faults       \* failures so far

stores == <<status, ingestedAt, mentions, inserts, embedText, vectors>>
locals == <<work, fetched, rows, pending>>
vars == <<stores, pc, locals, faults>>

Statuses == {"absent", "raw", "enriched", "embedded", "failed"}
Stages == {"idle", "enrich", "fetch_enriched", "fetch_mentions", "mark_empty",
           "upsert", "mark_embedded"}

\* A mention's id is a fresh UUID: no two inserts ever share one.
MentionIds == [doc : Docs, gen : Nat \ {0}, k : 1..MaxMentions]
MentionsOf(d) == {m \in mentions : m.doc = d}
DocsOf(M) == {m.doc : m \in M}

TypeOK ==
    /\ status \in [Docs -> Statuses]
    /\ ingestedAt \in [Docs -> Nat]
    /\ mentions \subseteq MentionIds
    /\ inserts \in [Docs -> Nat]
    /\ embedText \subseteq MentionIds
    /\ vectors \subseteq MentionIds
    /\ pc \in [Runners -> Stages]
    /\ work \in [Runners -> SUBSET Docs]
    /\ fetched \in [Runners -> SUBSET Docs]
    /\ rows \in [Runners -> SUBSET MentionIds]
    /\ pending \in [Runners -> SUBSET MentionIds]
    /\ faults \in 0..MaxFaults

Init ==
    /\ status = [d \in Docs |-> "absent"]
    /\ ingestedAt = [d \in Docs |-> 0]
    /\ mentions = {}
    /\ inserts = [d \in Docs |-> 0]
    /\ embedText = {}
    /\ vectors = {}
    /\ pc = [r \in Runners |-> "idle"]
    /\ work = [r \in Runners |-> {}]
    /\ fetched = [r \in Runners |-> {}]
    /\ rows = [r \in Runners |-> {}]
    /\ pending = [r \in Runners |-> {}]
    /\ faults = 0

-----------------------------------------------------------------------------
(* The loader: one committed insert, all rows stamped with the same NOW(),  *)
(* a tick after every earlier one.                                          *)

Now == Cardinality({ingestedAt[d] : d \in Docs})

Ingest ==
    \E B \in (SUBSET {d \in Docs : status[d] = "absent"}) \ {{}} :
        /\ status' = [d \in Docs |-> IF d \in B THEN "raw" ELSE status[d]]
        /\ ingestedAt' = [d \in Docs |-> IF d \in B THEN Now ELSE ingestedAt[d]]
        /\ UNCHANGED <<mentions, inserts, embedText, vectors, pc, locals, faults>>

-----------------------------------------------------------------------------
\* weekly_pipeline_job returns or raises: what the runner held in memory is gone.
Return(r) ==
    /\ pc' = [pc EXCEPT ![r] = "idle"]
    /\ work' = [work EXCEPT ![r] = {}]
    /\ fetched' = [fetched EXCEPT ![r] = {}]
    /\ rows' = [rows EXCEPT ![r] = {}]
    /\ pending' = [pending EXCEPT ![r] = {}]

(* Stage 1: fetch.  A plain SELECT: no row is locked or claimed. *)

ByStatus(s) == {d \in Docs : status[d] = s /\ SkuOf[d] \in Enabled}

\* Mutant: the WHERE on processing_status is lost for failed documents.
FetchUnprocessedWithFailed(r) ==
    /\ pc[r] = "idle"
    /\ work' = [work EXCEPT ![r] = ByStatus("raw") \cup ByStatus("failed")]
    /\ pc' = [pc EXCEPT ![r] = "enrich"]
    /\ UNCHANGED <<stores, fetched, rows, pending, faults>>

FetchUnprocessed(r) ==
    /\ pc[r] = "idle"
    /\ \E S \in SUBSET ByStatus("raw") :
          /\ \/ Cardinality(S) = Limit
             \/ S = ByStatus("raw") /\ Cardinality(S) <= Limit
          /\ \A d \in S, e \in ByStatus("raw") \ S : ingestedAt[d] <= ingestedAt[e]
          /\ work' = [work EXCEPT ![r] = S]
    /\ pc' = [pc EXCEPT ![r] = "enrich"]
    /\ UNCHANGED <<stores, fetched, rows, pending, faults>>

-----------------------------------------------------------------------------
(* Stage 2: enrichment.  Filtered documents are settled first, then the     *)
(* extraction results are applied one document and one transaction at a     *)
(* time.                                                                    *)

Settle(r, d) == work' = [work EXCEPT ![r] = @ \ {d}]

SettlesNext(r, d) ==
    /\ pc[r] = "enrich"
    /\ d \in work[r]
    /\ d \in Noise \/ work[r] \cap Noise = {}

\* Mutant: one aspect more than the extractor keeps is inserted.
FreshMentionsOneTooMany(d, n) == [doc : {d}, gen : {inserts[d] + 1}, k : 1..(n + 1)]

FreshMentions(d, n) == [doc : {d}, gen : {inserts[d] + 1}, k : 1..n]

\* Mutant: bulk_insert and update_status commit separately and the second is lost.
PersistWithoutStatus(r, d) ==
    /\ SettlesNext(r, d)
    /\ \E n \in IF d \in Noise THEN {0} ELSE 0..MaxMentions :
          mentions' = mentions \cup FreshMentions(d, n)
    /\ inserts' = [inserts EXCEPT ![d] = @ + 1]
    /\ \/ status' = [status EXCEPT ![d] = "enriched"]
       \/ UNCHANGED status
    /\ Settle(r, d)
    /\ UNCHANGED <<ingestedAt, embedText, vectors, pc, fetched, rows, pending, faults>>

\* Mutant: noise is skipped and stays raw, to be filtered again next week.
PersistSkippingNoise(r, d) ==
    /\ SettlesNext(r, d)
    /\ IF d \in Noise
       THEN UNCHANGED <<status, mentions, inserts>>
       ELSE /\ \E n \in 0..MaxMentions : mentions' = mentions \cup FreshMentions(d, n)
            /\ inserts' = [inserts EXCEPT ![d] = @ + 1]
            /\ status' = [status EXCEPT ![d] = "enriched"]
    /\ Settle(r, d)
    /\ UNCHANGED <<ingestedAt, embedText, vectors, pc, fetched, rows, pending, faults>>

PersistEnrichedDocument(r, d) ==
    /\ SettlesNext(r, d)
    /\ \E n \in IF d \in Noise THEN {0} ELSE 0..MaxMentions :
          mentions' = mentions \cup FreshMentions(d, n)
    /\ inserts' = [inserts EXCEPT ![d] = @ + 1]
    /\ status' = [status EXCEPT ![d] = "enriched"]
    /\ Settle(r, d)
    /\ UNCHANGED <<ingestedAt, embedText, vectors, pc, fetched, rows, pending, faults>>

\* The batch failed, or every mention of this document was rejected.
MarkFailed(r, d) ==
    /\ SettlesNext(r, d)
    /\ d \notin Noise
    /\ status' = [status EXCEPT ![d] = "failed"]
    /\ Settle(r, d)
    /\ UNCHANGED <<ingestedAt, mentions, inserts, embedText, vectors, pc, fetched,
                   rows, pending, faults>>

\* The transaction of one document raises and is rolled back; the loop goes on.
DocumentWriteFails(r, d) ==
    /\ SettlesNext(r, d)
    /\ faults < MaxFaults
    /\ faults' = faults + 1
    /\ Settle(r, d)
    /\ UNCHANGED <<stores, pc, fetched, rows, pending>>

EnrichmentDone(r) ==
    /\ pc[r] = "enrich"
    /\ work[r] = {}
    /\ pc' = [pc EXCEPT ![r] = "fetch_enriched"]
    /\ UNCHANGED <<stores, locals, faults>>

-----------------------------------------------------------------------------
(* Stage 3: embedding.  Two separate reads, a write for the documents       *)
(* without mentions, the vectors in batches per SKU, and one transaction    *)
(* that records the embed texts and the status.                             *)

FetchEnriched(r) ==
    /\ pc[r] = "fetch_enriched"
    /\ fetched' = [fetched EXCEPT ![r] = ByStatus("enriched")]
    /\ pc' = [pc EXCEPT ![r] = IF ByStatus("enriched") = {} THEN "idle"
                                                          ELSE "fetch_mentions"]
    /\ UNCHANGED <<stores, work, rows, pending, faults>>

FetchMentions(r) ==
    /\ pc[r] = "fetch_mentions"
    /\ rows' = [rows EXCEPT ![r] = {m \in mentions : m.doc \in fetched[r]}]
    /\ pc' = [pc EXCEPT ![r] = "mark_empty"]
    /\ UNCHANGED <<stores, work, fetched, pending, faults>>

BulkUpdateStatus(D, s) == status' = [d \in Docs |-> IF d \in D THEN s ELSE status[d]]

\* build_embed_text raises on a blank mention, outside the try: the job ends.
TextsBuilt(M) == M # {} /\ \A m \in M : m.doc \notin Blank

StartUpsert(r) ==
    IF TextsBuilt(rows[r])
    THEN /\ pending' = [pending EXCEPT ![r] = rows[r]]
         /\ pc' = [pc EXCEPT ![r] = "upsert"]
         /\ UNCHANGED <<work, fetched, rows>>
    ELSE Return(r)

MarkEmptyEmbedded(r) ==
    /\ pc[r] = "mark_empty"
    /\ BulkUpdateStatus(fetched[r] \ DocsOf(rows[r]), "embedded")
    /\ StartUpsert(r)
    /\ UNCHANGED <<ingestedAt, mentions, inserts, embedText, vectors, faults>>

\* The next batch of one SKU: full, or all that the SKU has left.
NextBatch(r, B) ==
    \E s \in Skus :
        LET due == {m \in pending[r] : SkuOf[m.doc] = s}
        IN  /\ B # {}
            /\ B \subseteq due
            /\ Cardinality(B) = UpsertBatch \/ (B = due /\ Cardinality(B) < UpsertBatch)

\* Mutant: vectors get primary keys of their own instead of the mention's id.
UpsertWithOwnKeys(r) ==
    /\ pc[r] = "upsert"
    /\ \E B \in SUBSET pending[r] :
          /\ NextBatch(r, B)
          /\ vectors' = vectors \cup {[m EXCEPT !.gen = @ + 1] : m \in B}
          /\ pending' = [pending EXCEPT ![r] = @ \ B]
          /\ pc' = [pc EXCEPT ![r] = IF pending[r] = B THEN "mark_embedded" ELSE @]
    /\ UNCHANGED <<status, ingestedAt, mentions, inserts, embedText, work, fetched,
                   rows, faults>>

\* Mutant: only the first batch of the upsert is awaited.
UpsertFirstBatch(r) ==
    /\ pc[r] = "upsert"
    /\ \E B \in SUBSET pending[r] :
          /\ NextBatch(r, B)
          /\ vectors' = vectors \cup B
          /\ pending' = [pending EXCEPT ![r] = @ \ B]
          /\ pc' = [pc EXCEPT ![r] = "mark_embedded"]
    /\ UNCHANGED <<status, ingestedAt, mentions, inserts, embedText, work, fetched,
                   rows, faults>>

UpsertVectors(r) ==
    /\ pc[r] = "upsert"
    /\ \E B \in SUBSET pending[r] :
          /\ NextBatch(r, B)
          /\ vectors' = vectors \cup B
          /\ pending' = [pending EXCEPT ![r] = @ \ B]
          /\ pc' = [pc EXCEPT ![r] = IF pending[r] = B THEN "mark_embedded" ELSE @]
    /\ UNCHANGED <<status, ingestedAt, mentions, inserts, embedText, work, fetched,
                   rows, faults>>

\* Mutant: the status is set WHERE it is enriched, not for the ids that were read.
MarkAllEnriched(r) ==
    /\ pc[r] = "mark_embedded"
    /\ embedText' = embedText \cup rows[r]
    /\ BulkUpdateStatus(ByStatus("enriched"), "embedded")
    /\ Return(r)
    /\ UNCHANGED <<ingestedAt, mentions, inserts, vectors, faults>>

MarkDocumentsEmbedded(r) ==
    /\ pc[r] = "mark_embedded"
    /\ embedText' = embedText \cup rows[r]
    /\ BulkUpdateStatus(DocsOf(rows[r]), "embedded")
    /\ Return(r)
    /\ UNCHANGED <<ingestedAt, mentions, inserts, vectors, faults>>

\* A crash or an exception that leaves the job, and a deferred embedding: the
\* local state is lost, what was committed or upserted stays.
JobEnds(r) ==
    /\ pc[r] # "idle"
    /\ faults < MaxFaults
    /\ faults' = faults + 1
    /\ Return(r)
    /\ UNCHANGED stores

-----------------------------------------------------------------------------
RunnerStep(r) ==
    \/ FetchUnprocessed(r)
    \/ \E d \in Docs : PersistEnrichedDocument(r, d) \/ MarkFailed(r, d)
    \/ EnrichmentDone(r)
    \/ FetchEnriched(r)
    \/ FetchMentions(r)
    \/ MarkEmptyEmbedded(r)
    \/ UpsertVectors(r)
    \/ MarkDocumentsEmbedded(r)

RunnerFault(r) == JobEnds(r) \/ \E d \in Docs : DocumentWriteFails(r, d)

Next == Ingest \/ \E r \in Runners : RunnerStep(r) \/ RunnerFault(r)

Spec == Init /\ [][Next]_vars

\* The cron trigger starts a run every week and a started job goes on; nothing
\* is promised of the loader, and faults end at their bound.
FairSpec == Spec /\ \A r \in Runners : WF_vars(RunnerStep(r))

-----------------------------------------------------------------------------
(* Properties of any number of runners. *)

\* A vector's primary key is the id of a row of aspect_mentions, whatever crashed
\* or ran at the same time: no orphan vectors (the audit of
\* run_week2_acceptance_batch.py looks for them).
NoOrphanVectors == vectors \subseteq mentions /\ embedText \subseteq mentions

\* Mentions and status are committed together: a document that still waits for
\* enrichment has no mention, so a retry starts from nothing.
RetryStartsClean == \A d \in Docs : status[d] \in {"absent", "raw"} => MentionsOf(d) = {}

\* Overlapping runners may insert a document's mentions more than once, but each of them
\* does it once at most, whatever fails and however often each runs again.
OverlapBounded ==
    /\ \A d \in Docs : inserts[d] <= Cardinality(Runners)
    /\ \A m \in mentions : m.gen <= inserts[m.doc]

\* All together: what the two stores promise under any number of overlapping runners.
StoresMatch == NoOrphanVectors /\ RetryStartsClean /\ OverlapBounded

\* T has every mention of the document up to one of its inserts.
WholeUpToAnInsert(d, T) ==
    \E g \in 1..inserts[d] : \A m \in MentionsOf(d) : m.gen <= g => m \in T

\* The stage reads documents and then their mentions, and marks after the awaits of the
\* embedding: under overlapping runners it may miss mentions that another runner inserted
\* meanwhile, but never part of an insert made before it read.  What embedded says of a
\* document is true up to some insert, which is its only one unless runners overlap.
IndexedUpToAnInsert ==
    \A d \in Docs : status[d] = "embedded" => WholeUpToAnInsert(d, vectors \cap embedText)

\* The runners that fetched a document while it was raw and have not settled it.
Holders(d) == {r \in Runners : d \in work[r]}

Unsettled == {"absent", "raw"}

\* No status update looks at the status it replaces, so a runner with an old list takes a
\* document back that another one has moved on: embedded to enriched or failed, failed to
\* enriched, enriched to failed.  Each setback uses up what a runner fetched before the
\* document was first settled, and nobody fetches it again: there are fewer setbacks than
\* runners that overlapped, and none ends in raw.
SetbacksAreBounded ==
    [][\A d \in Docs : status[d] \notin Unsettled =>
          /\ Holders(d)' \subseteq Holders(d)
          /\ \/ status'[d] \in {status[d], "embedded"}
             \/ status'[d] \in {"enriched", "failed"} /\ Holders(d)' # Holders(d)]_vars

-----------------------------------------------------------------------------
(* Properties of a single runner (the scheduler's max_instances=1). *)

SingleRunner == \A r, s \in Runners : r = s

\* The workflow is idempotent: a document's mentions are inserted once, however
\* often the job is run or retried.
MentionsInsertedOnce ==
    \A m, n \in mentions : m.doc = n.doc => m.gen = n.gen

EmbeddedIsSearchable ==
    \A d \in Docs : status[d] = "embedded" => MentionsOf(d) \subseteq vectors \cap embedText

FailedHasNoMentions == \A d \in Docs : status[d] = "failed" => MentionsOf(d) = {}

\* The status of a document is true of both stores, also when a batch of the upsert
\* failed, the process died between Milvus and PostgreSQL, or the job was repeated: one
\* that is embedded is completely searchable, each of its mentions with its vector and
\* its embed_text, and one that failed has contributed no mention.
StatusIsTrue == EmbeddedIsSearchable /\ FailedHasNoMentions

\* What a single runner holds in memory still agrees with the stores when it is
\* used, which is what makes the job correct without row locks: the inductive
\* strengthening of the invariants above.
LocalStateIsCurrent ==
    \A r \in Runners :
        /\ \A d \in work[r] : pc[r] = "enrich" /\ status[d] = "raw"
        /\ pc[r] \in {"fetch_mentions", "mark_empty"} =>
              \A d \in fetched[r] : status[d] = "enriched"
        /\ pc[r] \in {"mark_empty", "upsert", "mark_embedded"} =>
              rows[r] = {m \in mentions : m.doc \in fetched[r]}
        /\ pc[r] \in {"upsert", "mark_embedded"} =>
              /\ \A m \in rows[r] : status[m.doc] = "enriched"
              /\ pending[r] \subseteq rows[r]
              /\ rows[r] \ pending[r] \subseteq vectors
        /\ pc[r] = "mark_embedded" => pending[r] = {}

Settled(d) == status[d] \in {"embedded", "failed"}

\* Every document inserted for an enabled SKU is eventually embedded or failed:
\* the fetch limit, transient failures and crashes delay it only.
EverySettles ==
    \A d \in Docs : status[d] = "raw" /\ SkuOf[d] \in Enabled ~> Settled(d)

\* "one failed document does not block its peers" (docs/technical-guide.md:38): a
\* document the embedding stage has no quarrel with is settled.
PeersNotBlocked ==
    \A d \in Docs \ Blank : status[d] = "enriched" /\ SkuOf[d] \in Enabled ~> Settled(d)

Lifecycle == INSTANCE DocumentLifecycle
    WITH searchable <- {m \in vectors : status[m.doc] = "embedded"}

\* The job with one runner implements the document lifecycle.
ImplementsLifecycle == Lifecycle!Spec
=============================================================================
