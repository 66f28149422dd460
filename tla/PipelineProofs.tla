---------------------------- MODULE PipelineProofs ----------------------------
(***************************************************************************)
(* For every set of documents, SKUs and runners and every bound: what holds *)
(* however many runners overlap, what that gives the searches of the agent, *)
(* and what the scheduler's single instance adds to it.                     *)
(***************************************************************************)
EXTENDS Retrieval, FiniteSetTheorems, TLAPS

-----------------------------------------------------------------------------
(* Any number of runners. *)

LEMMA NowIsNat == ASSUME PipelineAssumption, TypeOK PROVE Now \in Nat
<1> DEFINE T == {ingestedAt[d] : d \in Docs}
<1>1. ingestedAt \in Surjection(Docs, T)
  BY DEF Surjection, TypeOK
<1>2. IsFiniteSet(T)
  BY <1>1, FS_Surjection DEF PipelineAssumption
<1> QED
  BY <1>2, FS_CardinalityType DEF Now

LEMMA FreshMentionsType ==
    ASSUME PipelineAssumption, TypeOK, NEW d \in Docs, NEW n \in 0..MaxMentions
    PROVE  /\ FreshMentions(d, n) \subseteq MentionIds
           /\ \A m \in FreshMentions(d, n) : m.doc = d /\ m.gen = inserts[d] + 1
BY DEF PipelineAssumption, TypeOK, FreshMentions, MentionIds

LEMMA TypeInit == Init => TypeOK
BY PipelineAssumption DEF Init, TypeOK, PipelineAssumption, Statuses, Stages

LEMMA TypeStep == TypeOK /\ [Next]_vars => TypeOK'
<1> SUFFICES ASSUME TypeOK, [Next]_vars PROVE TypeOK'
  OBVIOUS
<1> USE PipelineAssumption DEF TypeOK
<1>1. CASE Ingest
  BY <1>1, NowIsNat DEF Ingest, locals, Statuses
<1>2. ASSUME NEW r \in Runners, RunnerStep(r) PROVE TypeOK'
  <2>1. CASE FetchUnprocessed(r)
    BY <2>1 DEF FetchUnprocessed, ByStatus, stores, Stages
  <2>2. ASSUME NEW d \in Docs, PersistEnrichedDocument(r, d) PROVE TypeOK'
    <3>1. PICK n \in 0..MaxMentions : mentions' = mentions \cup FreshMentions(d, n)
      BY <2>2 DEF PersistEnrichedDocument, PipelineAssumption
    <3> QED
      BY <2>2, <3>1, FreshMentionsType
         DEF PersistEnrichedDocument, Settle, Statuses
  <2>3. ASSUME NEW d \in Docs, MarkFailed(r, d) PROVE TypeOK'
    BY <2>3 DEF MarkFailed, Settle, Statuses
  <2>4. CASE EnrichmentDone(r)
    BY <2>4 DEF EnrichmentDone, stores, locals, Stages
  <2>5. CASE FetchEnriched(r)
    BY <2>5 DEF FetchEnriched, ByStatus, stores, Stages
  <2>6. CASE FetchMentions(r)
    BY <2>6 DEF FetchMentions, stores, Stages
  <2>7. CASE MarkEmptyEmbedded(r)
    BY <2>7 DEF MarkEmptyEmbedded, BulkUpdateStatus, StartUpsert, Return, Statuses, Stages
  <2>8. CASE UpsertVectors(r)
    BY <2>8 DEF UpsertVectors, Stages
  <2>9. CASE MarkDocumentsEmbedded(r)
    BY <2>9 DEF MarkDocumentsEmbedded, BulkUpdateStatus, Return, Statuses, Stages
  <2> QED
    BY <1>2, <2>1, <2>2, <2>3, <2>4, <2>5, <2>6, <2>7, <2>8, <2>9 DEF RunnerStep
<1>3. ASSUME NEW r \in Runners, RunnerFault(r) PROVE TypeOK'
  <2>1. CASE JobEnds(r)
    BY <2>1 DEF JobEnds, Return, stores, Stages, PipelineAssumption
  <2>2. ASSUME NEW d \in Docs, DocumentWriteFails(r, d) PROVE TypeOK'
    BY <2>2 DEF DocumentWriteFails, Settle, stores, PipelineAssumption
  <2> QED
    BY <1>3, <2>1, <2>2 DEF RunnerFault
<1>4. CASE UNCHANGED vars
  BY <1>4 DEF vars, stores, locals
<1> QED
  BY <1>1, <1>2, <1>3, <1>4 DEF Next

\* Type correctness: no step of any runner leaves the state space the model names.
THEOREM TypeCorrect == Spec => []TypeOK
BY TypeInit, TypeStep, PTL DEF Spec

-----------------------------------------------------------------------------
(* What a runner read is a subset of what is there now: mentions are never   *)
(* deleted.                                                                  *)

ReadMentionsExist == \A r \in Runners : rows[r] \cup pending[r] \subseteq mentions

SharedInv == TypeOK /\ NoOrphanVectors /\ RetryStartsClean /\ ReadMentionsExist

LEMMA SharedInvStep == SharedInv /\ [Next]_vars => SharedInv'
<1> SUFFICES ASSUME SharedInv, [Next]_vars, TypeOK' PROVE SharedInv'
  BY TypeStep DEF SharedInv
<1> USE PipelineAssumption
    DEF SharedInv, TypeOK, NoOrphanVectors, RetryStartsClean, ReadMentionsExist, MentionsOf
<1>1. CASE Ingest
  BY <1>1 DEF Ingest, locals
<1>2. ASSUME NEW r \in Runners, RunnerStep(r) PROVE SharedInv'
  <2>1. CASE FetchUnprocessed(r)
    BY <2>1 DEF FetchUnprocessed, stores
  <2>2. ASSUME NEW d \in Docs, PersistEnrichedDocument(r, d) PROVE SharedInv'
    <3>1. PICK n \in 0..MaxMentions : mentions' = mentions \cup FreshMentions(d, n)
      BY <2>2 DEF PersistEnrichedDocument, PipelineAssumption
    <3> QED
      BY <2>2, <3>1, FreshMentionsType DEF PersistEnrichedDocument
  <2>3. ASSUME NEW d \in Docs, MarkFailed(r, d) PROVE SharedInv'
    BY <2>3 DEF MarkFailed
  <2>4. CASE EnrichmentDone(r)
    BY <2>4 DEF EnrichmentDone, stores, locals
  <2>5. CASE FetchEnriched(r)
    BY <2>5 DEF FetchEnriched, stores
  <2>6. CASE FetchMentions(r)
    BY <2>6 DEF FetchMentions, stores
  <2>7. CASE MarkEmptyEmbedded(r)
    BY <2>7 DEF MarkEmptyEmbedded, BulkUpdateStatus, StartUpsert, Return
  <2>8. CASE UpsertVectors(r)
    BY <2>8 DEF UpsertVectors
  <2>9. CASE MarkDocumentsEmbedded(r)
    BY <2>9 DEF MarkDocumentsEmbedded, BulkUpdateStatus, Return
  <2> QED
    BY <1>2, <2>1, <2>2, <2>3, <2>4, <2>5, <2>6, <2>7, <2>8, <2>9 DEF RunnerStep
<1>3. ASSUME NEW r \in Runners, RunnerFault(r) PROVE SharedInv'
  <2>1. CASE JobEnds(r)
    BY <2>1 DEF JobEnds, Return, stores
  <2>2. ASSUME NEW d \in Docs, DocumentWriteFails(r, d) PROVE SharedInv'
    BY <2>2 DEF DocumentWriteFails, stores
  <2> QED
    BY <1>3, <2>1, <2>2 DEF RunnerFault
<1>4. CASE UNCHANGED vars
  BY <1>4 DEF vars, stores, locals
<1> QED
  BY <1>1, <1>2, <1>3, <1>4 DEF Next

LEMMA SharedInvInit == Init => SharedInv
BY TypeInit DEF Init, SharedInv, NoOrphanVectors, RetryStartsClean, ReadMentionsExist, MentionsOf

-----------------------------------------------------------------------------
(* How often mentions are inserted.  Nobody fetches a document again once    *)
(* its mentions are there, so that only the runners that hold it by then may *)
(* insert them once more.                                                    *)

InsertsInv ==
    /\ \A d \in Docs :
          /\ status[d] \in Unsettled => inserts[d] = 0
          /\ inserts[d] + Cardinality({r \in Runners : d \in work[r]}) <= Cardinality(Runners)
    /\ \A m \in mentions : m.gen <= inserts[m.doc]

LEMMA HoldersAreFew ==
    ASSUME NEW H \in SUBSET Runners
    PROVE  /\ IsFiniteSet(H)
           /\ Cardinality(H) \in Nat
           /\ Cardinality(Runners) \in Nat
           /\ Cardinality(H) <= Cardinality(Runners)
BY PipelineAssumption, FS_Subset, FS_CardinalityType DEF PipelineAssumption

LEMMA InsertsInitially == Init => InsertsInv
<1> SUFFICES ASSUME Init, NEW d \in Docs
             PROVE  0 + Cardinality({r \in Runners : d \in work[r]}) <= Cardinality(Runners)
  BY DEF Init, InsertsInv
<1> DEFINE H == {r \in Runners : d \in work[r]}
<1> HIDE DEF H
<1>1. H \in SUBSET Runners
  BY DEF H
<1>2. 0 + Cardinality(H) <= Cardinality(Runners)
  BY <1>1, HoldersAreFew
<1> QED
  BY <1>2 DEF H

\* Runners drop documents, and nothing is inserted.
LEMMA InsertsKept ==
    ASSUME TypeOK, InsertsInv, UNCHANGED <<inserts, mentions>>,
           \A r \in Runners : work'[r] \subseteq work[r],
           \A d \in Docs : status'[d] \in Unsettled => status[d] \in Unsettled
    PROVE  InsertsInv'
<1>1. ASSUME NEW d \in Docs
      PROVE  inserts'[d] + Cardinality({r \in Runners : d \in work'[r]}) <= Cardinality(Runners)
  <2> DEFINE H == {r \in Runners : d \in work[r]}
             K == {r \in Runners : d \in work'[r]}
  <2>1. H \in SUBSET Runners /\ K \in SUBSET H
    OBVIOUS
  <2>2. inserts[d] + Cardinality(H) <= Cardinality(Runners)
    BY DEF InsertsInv
  <2>3. inserts'[d] = inserts[d] /\ inserts[d] \in Nat
    BY DEF TypeOK
  <2> HIDE DEF H, K
  <2>4. Cardinality(K) <= Cardinality(H) /\ Cardinality(K) \in Nat
    BY <2>1, HoldersAreFew, FS_Subset, FS_CardinalityType
  <2>5. inserts'[d] + Cardinality(K) <= Cardinality(Runners)
    BY <2>1, <2>2, <2>3, <2>4, HoldersAreFew
  <2> QED
    BY <2>5 DEF K
<1> QED
  BY <1>1 DEF InsertsInv

LEMMA InsertsFetched ==
    ASSUME TypeOK, InsertsInv, NEW r \in Runners, FetchUnprocessed(r)
    PROVE  InsertsInv'
<1>1. PICK S \in SUBSET ByStatus("raw") : work' = [work EXCEPT ![r] = S]
  BY DEF FetchUnprocessed
<1>2. UNCHANGED stores
  BY DEF FetchUnprocessed
<1>3. ASSUME NEW d \in Docs
      PROVE  inserts[d] + Cardinality({q \in Runners : d \in work'[q]}) <= Cardinality(Runners)
  <2> DEFINE H == {q \in Runners : d \in work[q]}
             K == {q \in Runners : d \in work'[q]}
  <2>1. H \in SUBSET Runners /\ K \in SUBSET Runners
    OBVIOUS
  <2>2. inserts[d] + Cardinality(H) <= Cardinality(Runners) /\ inserts[d] \in Nat
    BY DEF InsertsInv, TypeOK
  <2>3. CASE d \in S
    <3>1. inserts[d] = 0
      BY <2>3 DEF ByStatus, InsertsInv, Unsettled
    <3> HIDE DEF K
    <3>2. inserts[d] + Cardinality(K) <= Cardinality(Runners)
      BY <2>1, <3>1, HoldersAreFew
    <3> QED
      BY <3>2 DEF K
  <2>4. CASE d \notin S
    <3>1. K \in SUBSET H
      BY <1>1, <2>4 DEF TypeOK
    <3> HIDE DEF H, K
    <3>2. Cardinality(K) <= Cardinality(H) /\ Cardinality(K) \in Nat
      BY <2>1, <3>1, HoldersAreFew, FS_Subset, FS_CardinalityType
    <3>3. inserts[d] + Cardinality(K) <= Cardinality(Runners)
      BY <2>1, <2>2, <3>2, HoldersAreFew
    <3> QED
      BY <3>3 DEF K
  <2> QED
    BY <2>3, <2>4
<1> QED
  BY <1>2, <1>3 DEF InsertsInv, stores

LEMMA InsertsPersisted ==
    ASSUME TypeOK, InsertsInv, NEW r \in Runners, NEW d \in Docs, PersistEnrichedDocument(r, d)
    PROVE  InsertsInv'
<1>1. /\ inserts' = [inserts EXCEPT ![d] = @ + 1]
      /\ status' = [status EXCEPT ![d] = "enriched"]
      /\ work' = [work EXCEPT ![r] = @ \ {d}]
      /\ d \in work[r]
  BY DEF PersistEnrichedDocument, Settle, SettlesNext
<1>2. ASSUME NEW e \in Docs
      PROVE  inserts'[e] + Cardinality({q \in Runners : e \in work'[q]}) <= Cardinality(Runners)
  <2> DEFINE H == {q \in Runners : e \in work[q]}
             K == {q \in Runners : e \in work'[q]}
  <2>1. H \in SUBSET Runners /\ K \in SUBSET Runners
    OBVIOUS
  <2>2. inserts[e] + Cardinality(H) <= Cardinality(Runners) /\ inserts[e] \in Nat
    BY DEF InsertsInv, TypeOK
  <2>3. CASE e = d
    <3>1. K = H \ {r} /\ r \in H
      BY <1>1, <2>3 DEF TypeOK
    <3>2. inserts'[e] = inserts[e] + 1
      BY <1>1, <2>3 DEF TypeOK
    <3> HIDE DEF H, K
    <3>3. Cardinality(K) = Cardinality(H) - 1
      BY <2>1, <3>1, HoldersAreFew, FS_RemoveElement
    <3>4. inserts'[e] + Cardinality(K) <= Cardinality(Runners)
      BY <2>1, <2>2, <3>2, <3>3, HoldersAreFew
    <3> QED
      BY <3>4 DEF K
  <2>4. CASE e # d
    <3>1. K = H /\ inserts'[e] = inserts[e]
      BY <1>1, <2>4 DEF TypeOK
    <3> QED
      BY <2>2, <3>1
  <2> QED
    BY <2>3, <2>4
<1>3. \A e \in Docs : status'[e] \in Unsettled => inserts'[e] = 0
  BY <1>1 DEF TypeOK, InsertsInv, Unsettled
<1>4. \A m \in mentions' : m.gen <= inserts'[m.doc]
  <2>1. PICK n \in 0..MaxMentions : mentions' = mentions \cup FreshMentions(d, n)
    BY PipelineAssumption DEF PersistEnrichedDocument, PipelineAssumption
  <2>2. ASSUME NEW m \in mentions PROVE m.gen <= inserts'[m.doc]
    <3>1. m.gen \in Nat /\ m.doc \in Docs /\ inserts[m.doc] \in Nat
      BY DEF TypeOK, MentionIds
    <3>2. m.gen <= inserts[m.doc]
      BY DEF InsertsInv
    <3> QED
      BY <1>1, <3>1, <3>2 DEF TypeOK
  <2>3. ASSUME NEW m \in FreshMentions(d, n) PROVE m.gen <= inserts'[m.doc]
    <3>1. m.doc = d /\ m.gen = inserts[d] + 1
      BY FreshMentionsType, PipelineAssumption
    <3>2. inserts[d] \in Nat /\ inserts'[d] = inserts[d] + 1
      BY <1>1 DEF TypeOK
    <3> QED
      BY <3>1, <3>2
  <2> QED
    BY <2>1, <2>2, <2>3
<1> QED
  BY <1>2, <1>3, <1>4 DEF InsertsInv

LEMMA InsertsPreserved == TypeOK /\ InsertsInv /\ [Next]_vars => InsertsInv'
<1> SUFFICES ASSUME TypeOK, InsertsInv, [Next]_vars PROVE InsertsInv'
  OBVIOUS
<1>1. ASSUME Ingest \/ UNCHANGED vars PROVE InsertsInv'
  <2>1. \A d \in Docs : status'[d] \in Unsettled => status[d] \in Unsettled
    BY <1>1 DEF Ingest, Unsettled, vars, stores, TypeOK
  <2> QED
    BY <1>1, <2>1, InsertsKept DEF Ingest, vars, stores, locals
<1>2. ASSUME NEW r \in Runners, NEW d \in Docs, MarkFailed(r, d) PROVE InsertsInv'
  BY <1>2, InsertsKept DEF MarkFailed, Settle, Unsettled, TypeOK
<1>3. ASSUME NEW r \in Runners, MarkEmptyEmbedded(r) \/ MarkDocumentsEmbedded(r)
      PROVE  InsertsInv'
  <2>1. \A q \in Runners : work'[q] \subseteq work[q]
    BY <1>3 DEF MarkEmptyEmbedded, MarkDocumentsEmbedded, StartUpsert, Return, TypeOK
  <2>2. \A d \in Docs : status'[d] \in Unsettled => status[d] \in Unsettled
    BY <1>3 DEF MarkEmptyEmbedded, MarkDocumentsEmbedded, BulkUpdateStatus, Unsettled
  <2> QED
    BY <1>3, <2>1, <2>2, InsertsKept DEF MarkEmptyEmbedded, MarkDocumentsEmbedded
<1>4. ASSUME NEW r \in Runners,
             EnrichmentDone(r) \/ FetchEnriched(r) \/ FetchMentions(r) \/ UpsertVectors(r)
      PROVE  InsertsInv'
  BY <1>4, InsertsKept
     DEF EnrichmentDone, FetchEnriched, FetchMentions, UpsertVectors, stores, locals
<1>5. ASSUME NEW r \in Runners, RunnerFault(r) PROVE InsertsInv'
  <2>1. \A q \in Runners : work'[q] \subseteq work[q]
    BY <1>5 DEF RunnerFault, JobEnds, DocumentWriteFails, Return, Settle, TypeOK
  <2>2. UNCHANGED stores
    BY <1>5 DEF RunnerFault, JobEnds, DocumentWriteFails
  <2> QED
    BY <2>1, <2>2, InsertsKept DEF stores
<1> QED
  BY <1>1, <1>2, <1>3, <1>4, <1>5, InsertsFetched, InsertsPersisted DEF Next, RunnerStep

LEMMA InsertsAlways == Spec => []InsertsInv
  BY TypeCorrect, InsertsInitially, InsertsPreserved, PTL DEF Spec

\* However many runners overlap, and with a crash or failure at any step: there are no
\* orphan vectors, a retry starts from nothing, and a document's mentions are inserted
\* no more often than there are runners.
THEOREM StoresAgree == Spec => []StoresMatch
<1>1. TypeOK /\ InsertsInv => OverlapBounded
  <2> SUFFICES ASSUME TypeOK, InsertsInv, NEW d \in Docs PROVE inserts[d] <= Cardinality(Runners)
    BY DEF InsertsInv, OverlapBounded
  <2> DEFINE H == {r \in Runners : d \in work[r]}
  <2>1. H \in SUBSET Runners /\ inserts[d] \in Nat
    BY DEF TypeOK
  <2>2. inserts[d] + Cardinality(H) <= Cardinality(Runners)
    BY DEF InsertsInv
  <2> HIDE DEF H
  <2> QED
    BY <2>1, <2>2, HoldersAreFew
<1>2. SharedInv /\ InsertsInv => StoresMatch
  BY <1>1 DEF SharedInv, StoresMatch
<1> QED
  BY <1>2, SharedInvInit, SharedInvStep, InsertsAlways, PTL DEF Spec

-----------------------------------------------------------------------------
(* A settled document goes back only by a runner that has held it since      *)
(* before, and that lets go of it.                                           *)

Bounded(d) ==
    /\ Holders(d)' \subseteq Holders(d)
    /\ \/ status'[d] \in {status[d], "embedded"}
       \/ status'[d] \in {"enriched", "failed"} /\ Holders(d)' # Holders(d)

\* Statuses stay or become embedded, and runners only let go.
LEMMA NothingSetBack ==
    ASSUME NEW d \in Docs, status'[d] \in {status[d], "embedded"},
           \A r \in Runners : work'[r] \subseteq work[r]
    PROVE  Bounded(d)
BY DEF Bounded, Holders

\* A write of one document uses up what its runner holds.
LEMMA SetbackUsesUp ==
    ASSUME TypeOK, NEW r \in Runners, NEW e \in Docs, NEW d \in Docs, SettlesNext(r, e),
           Settle(r, e), NEW s \in {"enriched", "failed"}, status' = [status EXCEPT ![e] = s]
    PROVE  Bounded(d)
<1>1. /\ \A q \in Runners : work'[q] \subseteq work[q]
      /\ e \in work[r] /\ e \notin work'[r]
  BY DEF TypeOK, SettlesNext, Settle
<1>2. CASE d = e
  <2>1. r \in Holders(d) /\ r \notin Holders(d)' /\ Holders(d)' \subseteq Holders(d)
    BY <1>1, <1>2 DEF Holders
  <2> QED
    BY <1>2, <2>1 DEF Bounded, TypeOK
<1>3. CASE d # e
  BY <1>1, <1>3, NothingSetBack DEF TypeOK
<1> QED
  BY <1>2, <1>3

LEMMA SetbackStep ==
    ASSUME TypeOK, [Next]_vars, NEW d \in Docs, status[d] \notin Unsettled
    PROVE  Bounded(d)
<1> USE DEF TypeOK
<1>1. CASE Ingest \/ UNCHANGED vars
  BY <1>1, NothingSetBack DEF Ingest, Unsettled, vars, stores, locals
<1>2. ASSUME NEW r \in Runners, FetchUnprocessed(r) PROVE Bounded(d)
  <2>1. PICK S \in SUBSET ByStatus("raw") : work' = [work EXCEPT ![r] = S]
    BY <1>2 DEF FetchUnprocessed
  <2>2. d \notin S /\ UNCHANGED status
    BY <1>2, <2>1 DEF FetchUnprocessed, stores, ByStatus, Unsettled
  <2> QED
    BY <2>1, <2>2 DEF Bounded, Holders
<1>3. ASSUME NEW r \in Runners, NEW e \in Docs, PersistEnrichedDocument(r, e) PROVE Bounded(d)
  BY <1>3, SetbackUsesUp DEF PersistEnrichedDocument
<1>4. ASSUME NEW r \in Runners, NEW e \in Docs, MarkFailed(r, e) PROVE Bounded(d)
  BY <1>4, SetbackUsesUp DEF MarkFailed
<1>5. ASSUME NEW r \in Runners,
             EnrichmentDone(r) \/ FetchEnriched(r) \/ FetchMentions(r) \/ UpsertVectors(r)
      PROVE  Bounded(d)
  BY <1>5, NothingSetBack
     DEF EnrichmentDone, FetchEnriched, FetchMentions, UpsertVectors, stores, locals
<1>6. ASSUME NEW r \in Runners, MarkEmptyEmbedded(r) \/ MarkDocumentsEmbedded(r)
      PROVE  Bounded(d)
  <2>1. \A q \in Runners : work'[q] \subseteq work[q]
    BY <1>6 DEF MarkEmptyEmbedded, MarkDocumentsEmbedded, StartUpsert, Return
  <2>2. status'[d] \in {status[d], "embedded"}
    BY <1>6 DEF MarkEmptyEmbedded, MarkDocumentsEmbedded, BulkUpdateStatus
  <2> QED
    BY <2>1, <2>2, NothingSetBack
<1>7. ASSUME NEW r \in Runners, RunnerFault(r) PROVE Bounded(d)
  <2>1. \A q \in Runners : work'[q] \subseteq work[q]
    BY <1>7 DEF RunnerFault, JobEnds, DocumentWriteFails, Return, Settle
  <2>2. UNCHANGED stores
    BY <1>7 DEF RunnerFault, JobEnds, DocumentWriteFails
  <2> QED
    BY <2>1, <2>2, NothingSetBack DEF stores
<1> QED
  BY <1>1, <1>2, <1>3, <1>4, <1>5, <1>6, <1>7 DEF Next, RunnerStep

\* However many runners overlap and whatever they hold, each sets a document that another
\* has moved on back at most once.
THEOREM SetbacksUseUpClaims == Spec => SetbacksAreBounded
<1>1. TypeOK /\ [Next]_vars =>
         [\A d \in Docs : status[d] \notin Unsettled =>
             /\ Holders(d)' \subseteq Holders(d)
             /\ \/ status'[d] \in {status[d], "embedded"}
                \/ status'[d] \in {"enriched", "failed"} /\ Holders(d)' # Holders(d)]_vars
  BY SetbackStep DEF Bounded
<1> QED
  BY <1>1, TypeCorrect, PTL DEF Spec, SetbacksAreBounded

-----------------------------------------------------------------------------
(* One runner.  The invariant says what the runner's memory is worth when it *)
(* is used; the three promises about documents follow from it.               *)

SingleInv ==
    /\ SharedInv
    /\ LocalStateIsCurrent
    /\ EmbeddedIsSearchable
    /\ MentionsInsertedOnce
    /\ FailedHasNoMentions

LEMMA SingleInvInit == Init => SingleInv
BY SharedInvInit
   DEF Init, SingleInv, LocalStateIsCurrent, EmbeddedIsSearchable, MentionsInsertedOnce,
       FailedHasNoMentions

LEMMA SingleInvStep == SingleRunner /\ SingleInv /\ [Next]_vars => SingleInv'
<1> SUFFICES ASSUME SingleRunner, SingleInv, [Next]_vars, SharedInv' PROVE SingleInv'
  BY SharedInvStep DEF SingleInv
<1> USE DEF SingleInv, LocalStateIsCurrent, EmbeddedIsSearchable, MentionsInsertedOnce,
            FailedHasNoMentions, MentionsOf, SharedInv, TypeOK
<1>1. CASE Ingest
  <2> USE <1>1 DEF Ingest, locals
  <2>1. LocalStateIsCurrent'
    BY DEF Stages
  <2>2. EmbeddedIsSearchable' /\ MentionsInsertedOnce' /\ FailedHasNoMentions'
    OBVIOUS
  <2> QED
    BY <2>1, <2>2
<1>2. ASSUME NEW r \in Runners, RunnerStep(r) PROVE SingleInv'
  <2> \A s \in Runners : s = r
    BY DEF SingleRunner
  <2>1. CASE FetchUnprocessed(r)
    BY <2>1 DEF FetchUnprocessed, ByStatus, stores
  <2>2. ASSUME NEW d \in Docs, PersistEnrichedDocument(r, d) PROVE SingleInv'
    <3>1. PICK n \in 0..MaxMentions : mentions' = mentions \cup FreshMentions(d, n)
      BY <2>2, PipelineAssumption DEF PersistEnrichedDocument, PipelineAssumption
    <3>2. \A m \in FreshMentions(d, n) : m.doc = d /\ m.gen = inserts[d] + 1
      BY FreshMentionsType, PipelineAssumption
    <3>3. status[d] = "raw" /\ MentionsOf(d) = {}
      BY <2>2 DEF PersistEnrichedDocument, SettlesNext, RetryStartsClean
    <3>4. LocalStateIsCurrent'
      BY <2>2, <3>3 DEF PersistEnrichedDocument, SettlesNext, Settle
    <3>5. EmbeddedIsSearchable' /\ FailedHasNoMentions' /\ MentionsInsertedOnce'
      BY <2>2, <3>1, <3>2, <3>3 DEF PersistEnrichedDocument
    <3> QED
      BY <3>4, <3>5
  <2>3. ASSUME NEW d \in Docs, MarkFailed(r, d) PROVE SingleInv'
    <3>1. status[d] = "raw" /\ MentionsOf(d) = {}
      BY <2>3 DEF MarkFailed, SettlesNext, RetryStartsClean
    <3> QED
      BY <2>3, <3>1 DEF MarkFailed, SettlesNext, Settle
  <2>4. CASE EnrichmentDone(r)
    BY <2>4 DEF EnrichmentDone, stores, locals
  <2>5. CASE FetchEnriched(r)
    BY <2>5 DEF FetchEnriched, ByStatus, stores
  <2>6. CASE FetchMentions(r)
    BY <2>6 DEF FetchMentions, stores
  <2>7. CASE MarkEmptyEmbedded(r)
    <3>1. rows[r] = {m \in mentions : m.doc \in fetched[r]}
      BY <2>7 DEF MarkEmptyEmbedded
    <3>2. \A d \in fetched[r] : status[d] = "enriched"
      BY <2>7 DEF MarkEmptyEmbedded
    <3>3. \A d \in fetched[r] \ DocsOf(rows[r]) : MentionsOf(d) = {}
      BY <3>1 DEF DocsOf
    <3>4. LocalStateIsCurrent'
      BY <2>7, <3>1, <3>2
         DEF MarkEmptyEmbedded, BulkUpdateStatus, StartUpsert, Return, DocsOf, MentionIds
    <3>5. EmbeddedIsSearchable' /\ FailedHasNoMentions' /\ MentionsInsertedOnce'
      BY <2>7, <3>3 DEF MarkEmptyEmbedded, BulkUpdateStatus
    <3> QED
      BY <3>4, <3>5
  <2>8. CASE UpsertVectors(r)
    BY <2>8 DEF UpsertVectors
  <2>9. CASE MarkDocumentsEmbedded(r)
    <3>1. rows[r] \subseteq vectors
      BY <2>9 DEF MarkDocumentsEmbedded
    <3>2. \A d \in DocsOf(rows[r]) : MentionsOf(d) \subseteq rows[r]
      BY <2>9 DEF MarkDocumentsEmbedded, DocsOf
    <3>3. \A d \in DocsOf(rows[r]) : status[d] = "enriched"
      BY <2>9 DEF MarkDocumentsEmbedded, DocsOf
    <3>4. LocalStateIsCurrent'
      BY <2>9 DEF MarkDocumentsEmbedded, Return
    <3>5. EmbeddedIsSearchable' /\ FailedHasNoMentions' /\ MentionsInsertedOnce'
      BY <2>9, <3>1, <3>2 DEF MarkDocumentsEmbedded, BulkUpdateStatus
    <3> QED
      BY <3>4, <3>5
  <2> QED
    BY <1>2, <2>1, <2>2, <2>3, <2>4, <2>5, <2>6, <2>7, <2>8, <2>9 DEF RunnerStep
<1>3. ASSUME NEW r \in Runners, RunnerFault(r) PROVE SingleInv'
  <2> \A s \in Runners : s = r
    BY DEF SingleRunner
  <2>1. CASE JobEnds(r)
    BY <2>1 DEF JobEnds, Return, stores
  <2>2. ASSUME NEW d \in Docs, DocumentWriteFails(r, d) PROVE SingleInv'
    BY <2>2 DEF DocumentWriteFails, Settle, SettlesNext, stores
  <2> QED
    BY <1>3, <2>1, <2>2 DEF RunnerFault
<1>4. CASE UNCHANGED vars
  BY <1>4 DEF vars, stores, locals
<1> QED
  BY <1>1, <1>2, <1>3, <1>4 DEF Next

\* With the scheduler's single instance: embedded means completely searchable,
\* mentions are inserted once, and a failed document contributes none.
THEOREM SingleRunnerCorrect ==
    SingleRunner =>
        (Spec => [](/\ StatusIsTrue
                    /\ MentionsInsertedOnce
                    /\ LocalStateIsCurrent))
<1> SUFFICES ASSUME SingleRunner
             PROVE  Spec => [](/\ StatusIsTrue
                               /\ MentionsInsertedOnce
                               /\ LocalStateIsCurrent)
  OBVIOUS
<1>1. SingleInv /\ [Next]_vars => SingleInv'
  BY SingleInvStep
<1>2. SingleInv => StatusIsTrue /\ MentionsInsertedOnce /\ LocalStateIsCurrent
  BY DEF SingleInv, StatusIsTrue
<1> QED
  BY <1>1, <1>2, SingleInvInit, PTL DEF Spec

\* The scheduler's single instance never inserts a document's mentions twice, whatever
\* fails or crashes and however often the workflow runs again.
THEOREM MentionsOnce == SingleRunner => (Spec => []MentionsInsertedOnce)
  BY SingleRunnerCorrect, PTL

-----------------------------------------------------------------------------
(* Refinement: the job with one runner implements DocumentLifecycle, where   *)
(* enriching and publishing are single steps of the document.                *)

Searchable == {m \in vectors : status[m.doc] = "embedded"}

LEMMA LifecycleStep ==
    ASSUME SingleRunner, SingleInv, [Next]_vars
    PROVE  [Lifecycle!Next]_<<status, mentions, Searchable>>
<1> USE DEF SingleInv, SharedInv, TypeOK
<1>s. /\ \A m \in mentions : m.doc \in Docs
      /\ vectors \subseteq mentions
      /\ \A d \in Docs : status[d] \in {"absent", "raw"} => MentionsOf(d) = {}
  BY DEF MentionIds, NoOrphanVectors, RetryStartsClean
<1>1. CASE Ingest
  <2>1. PICK B \in SUBSET Docs :
           /\ \A d \in B : status[d] = "absent"
           /\ status' = [d \in Docs |-> IF d \in B THEN "raw" ELSE status[d]]
           /\ UNCHANGED <<mentions, vectors>>
    BY <1>1 DEF Ingest
  <2>2. \A m \in vectors : status'[m.doc] = "embedded" <=> status[m.doc] = "embedded"
    BY <2>1, <1>s
  <2>3. UNCHANGED Searchable
    BY <2>1, <2>2 DEF Searchable
  <2> QED
    BY <2>1, <2>3 DEF Lifecycle!Next, Lifecycle!Arrive, Lifecycle!Move, Searchable
<1>2. ASSUME NEW r \in Runners, NEW d \in Docs, PersistEnrichedDocument(r, d)
      PROVE  Lifecycle!Enrich(d)
  <2>1. PICK n \in 0..MaxMentions : mentions' = mentions \cup FreshMentions(d, n)
    BY <1>2, PipelineAssumption DEF PersistEnrichedDocument, PipelineAssumption
  <2>2. \A m \in FreshMentions(d, n) : m.doc = d
    BY FreshMentionsType, PipelineAssumption
  <2>3. status[d] = "raw"
    BY <1>2 DEF PersistEnrichedDocument, SettlesNext, LocalStateIsCurrent
  <2>4. UNCHANGED vectors /\ status' = [status EXCEPT ![d] = "enriched"]
    BY <1>2 DEF PersistEnrichedDocument
  <2>5. UNCHANGED Searchable
    BY <2>3, <2>4, <1>s DEF Searchable
  <2> QED
    BY <2>1, <2>2, <2>3, <2>4, <2>5, <1>s
       DEF Lifecycle!Enrich, Lifecycle!Move, Lifecycle!Mine, MentionsOf
<1>3. ASSUME NEW r \in Runners, NEW d \in Docs, MarkFailed(r, d)
      PROVE  Lifecycle!Reject(d)
  <2>1. /\ status[d] = "raw" /\ status' = [status EXCEPT ![d] = "failed"]
        /\ UNCHANGED <<mentions, vectors>>
    BY <1>3 DEF MarkFailed, SettlesNext, LocalStateIsCurrent
  <2>2. UNCHANGED Searchable
    BY <2>1, <1>s DEF Searchable
  <2> QED
    BY <2>1, <2>2, <1>s DEF Lifecycle!Reject, Lifecycle!Move, Lifecycle!Mine, MentionsOf
<1>4. ASSUME NEW r \in Runners, NEW D \in SUBSET Docs,
             BulkUpdateStatus(D, "embedded"), UNCHANGED <<mentions, vectors>>,
             \A d \in D : status[d] = "enriched" /\ MentionsOf(d) \subseteq vectors
      PROVE  Lifecycle!Publish(D)
  <2>1. status' = [d \in Docs |-> IF d \in D THEN "embedded" ELSE status[d]]
    BY <1>4 DEF BulkUpdateStatus
  <2>2. {m \in mentions : m.doc \in D} \subseteq vectors
    BY <1>4 DEF MentionsOf
  <2>3. \A m \in vectors : status'[m.doc] = "embedded"
                            <=> m.doc \in D \/ status[m.doc] = "embedded"
    BY <2>1, <1>s
  <2>4. Searchable' = Searchable \cup {m \in mentions : m.doc \in D}
    BY <1>4, <2>2, <2>3, <1>s DEF Searchable
  <2> QED
    BY <1>4, <2>1, <2>4 DEF Lifecycle!Publish, Lifecycle!Move, Searchable
<1>5. ASSUME NEW r \in Runners, MarkEmptyEmbedded(r)
      PROVE  \E D \in SUBSET Docs : Lifecycle!Publish(D)
  <2> DEFINE D == fetched[r] \ DocsOf(rows[r])
  <2>1. BulkUpdateStatus(D, "embedded") /\ UNCHANGED <<mentions, vectors>>
    BY <1>5 DEF MarkEmptyEmbedded
  <2>2. \A d \in D : status[d] = "enriched" /\ MentionsOf(d) = {}
    BY <1>5 DEF MarkEmptyEmbedded, LocalStateIsCurrent, DocsOf, MentionsOf
  <2> QED
    BY <2>1, <2>2, <1>4
<1>6. ASSUME NEW r \in Runners, MarkDocumentsEmbedded(r)
      PROVE  \E D \in SUBSET Docs : Lifecycle!Publish(D)
  <2> DEFINE D == DocsOf(rows[r])
  <2>1. BulkUpdateStatus(D, "embedded") /\ UNCHANGED <<mentions, vectors>>
    BY <1>6 DEF MarkDocumentsEmbedded
  <2>2. \A d \in D : status[d] = "enriched" /\ MentionsOf(d) \subseteq vectors
    BY <1>6 DEF MarkDocumentsEmbedded, LocalStateIsCurrent, DocsOf, MentionsOf
  <2>3. D \in SUBSET Docs
    BY DEF DocsOf, MentionIds
  <2> QED
    BY <2>1, <2>2, <2>3, <1>4
<1>7. ASSUME NEW r \in Runners, UpsertVectors(r)
      PROVE  UNCHANGED <<status, mentions, Searchable>>
  <2>1. PICK B \in SUBSET pending[r] : vectors' = vectors \cup B
    BY <1>7 DEF UpsertVectors
  <2>2. \A m \in B : status[m.doc] = "enriched"
    BY <1>7, <2>1 DEF UpsertVectors, LocalStateIsCurrent
  <2>3. UNCHANGED <<status, mentions>>
    BY <1>7 DEF UpsertVectors
  <2> QED
    BY <2>1, <2>2, <2>3 DEF Searchable
<1>8. ASSUME NEW r \in Runners,
             \/ FetchUnprocessed(r) \/ EnrichmentDone(r) \/ FetchEnriched(r)
             \/ FetchMentions(r) \/ RunnerFault(r)
      PROVE  UNCHANGED <<status, mentions, Searchable>>
  BY <1>8 DEF FetchUnprocessed, EnrichmentDone, FetchEnriched, FetchMentions, RunnerFault,
              JobEnds, DocumentWriteFails, stores, Searchable
<1>9. CASE UNCHANGED vars
  BY <1>9 DEF vars, stores, Searchable
<1> QED
  BY <1>1, <1>2, <1>3, <1>5, <1>6, <1>7, <1>8, <1>9 DEF Next, RunnerStep, Lifecycle!Next

\* With one runner every behaviour of the job, with its stages, batches, faults and
\* two stores, is a behaviour of the document lifecycle.
THEOREM PipelineImplementsLifecycle == SingleRunner => (Spec => ImplementsLifecycle)
<1> SUFFICES ASSUME SingleRunner PROVE Spec => ImplementsLifecycle
  OBVIOUS
<1>1. Init => Lifecycle!Init
  BY DEF Init, Lifecycle!Init
<1>2. SingleInv /\ [Next]_vars => SingleInv'
  BY SingleInvStep
<1>3. SingleInv /\ [Next]_vars
        => [Lifecycle!Next]_<<status, mentions, {m \in vectors : status[m.doc] = "embedded"}>>
  BY LifecycleStep DEF Searchable
<1> QED
  BY <1>1, <1>2, <1>3, SingleInvInit, PTL DEF Spec, ImplementsLifecycle, Lifecycle!Spec

-----------------------------------------------------------------------------
(* Both stores beside any number of runners.  A mention is committed before  *)
(* its vector is upserted and the vector before its embed_text is; nothing   *)
(* is ever deleted.                                                          *)

\* What a runner holds is in Milvus except for what is pending.
UpsertsInv ==
    \A r \in Runners :
        /\ pc[r] \in {"upsert", "mark_embedded"} => rows[r] \ pending[r] \subseteq vectors
        /\ pc[r] = "mark_embedded" => pending[r] = {}

StoresInv == SharedInv /\ IsFiniteSet(mentions) /\ UpsertsInv /\ embedText \subseteq vectors

LEMMA FreshMentionsFinite ==
    ASSUME PipelineAssumption, TypeOK, NEW d \in Docs, NEW n \in 0..MaxMentions
    PROVE  IsFiniteSet(FreshMentions(d, n))
<1> DEFINE f == [i \in 1..n |-> [doc |-> d, gen |-> inserts[d] + 1, k |-> i]]
<1>1. f \in Surjection(1..n, FreshMentions(d, n))
  <2>1. \A i \in 1..n : f[i] \in FreshMentions(d, n)
    BY DEF FreshMentions
  <2>2. \A m \in FreshMentions(d, n) : m.k \in 1..n /\ f[m.k] = m
    BY DEF FreshMentions
  <2> HIDE DEF f
  <2>3. f \in [1..n -> FreshMentions(d, n)]
    BY <2>1 DEF f
  <2> QED
    BY <2>2, <2>3 DEF Surjection
<1>2. IsFiniteSet(1..n)
  BY FS_Interval DEF PipelineAssumption
<1> QED
  BY <1>1, <1>2, FS_Surjection

LEMMA MentionsStayFinite ==
    SharedInv /\ IsFiniteSet(mentions) /\ [Next]_vars => IsFiniteSet(mentions')
<1> SUFFICES ASSUME SharedInv, IsFiniteSet(mentions), [Next]_vars PROVE IsFiniteSet(mentions')
  OBVIOUS
<1>1. CASE mentions' = mentions
  BY <1>1
<1>2. ASSUME NEW r \in Runners, NEW d \in Docs, PersistEnrichedDocument(r, d)
      PROVE  IsFiniteSet(mentions')
  <2>1. PICK n \in 0..MaxMentions : mentions' = mentions \cup FreshMentions(d, n)
    BY <1>2, PipelineAssumption DEF PersistEnrichedDocument, PipelineAssumption
  <2> QED
    BY <2>1, FreshMentionsFinite, FS_Union, PipelineAssumption DEF SharedInv
<1>3. ASSUME NEW r \in Runners, RunnerStep(r) \/ RunnerFault(r),
             ~ \E d \in Docs : PersistEnrichedDocument(r, d)
      PROVE  mentions' = mentions
  BY <1>3 DEF RunnerStep, RunnerFault, FetchUnprocessed, MarkFailed, EnrichmentDone,
              FetchEnriched, FetchMentions, MarkEmptyEmbedded, UpsertVectors,
              MarkDocumentsEmbedded, JobEnds, DocumentWriteFails, stores
<1>4. CASE Ingest \/ UNCHANGED vars
  BY <1>4 DEF Ingest, vars, stores
<1> QED
  BY <1>1, <1>2, <1>3, <1>4 DEF Next

LEMMA StoresInvInit == Init => StoresInv
BY SharedInvInit, FS_EmptySet DEF Init, StoresInv, UpsertsInv

LEMMA StoresInvStep == StoresInv /\ [Next]_vars => StoresInv' /\ vectors \subseteq vectors'
<1> SUFFICES ASSUME StoresInv, [Next]_vars
             PROVE  UpsertsInv' /\ embedText' \subseteq vectors' /\ vectors \subseteq vectors'
  BY SharedInvStep, MentionsStayFinite DEF StoresInv
<1> USE DEF StoresInv, SharedInv, TypeOK, UpsertsInv
<1>1. CASE Ingest
  BY <1>1 DEF Ingest, locals
<1>2. ASSUME NEW r \in Runners, RunnerStep(r)
      PROVE  UpsertsInv' /\ embedText' \subseteq vectors' /\ vectors \subseteq vectors'
  <2>1. CASE FetchUnprocessed(r)
    BY <2>1 DEF FetchUnprocessed, stores
  <2>2. ASSUME NEW d \in Docs, PersistEnrichedDocument(r, d) \/ MarkFailed(r, d)
        PROVE  UpsertsInv' /\ embedText' \subseteq vectors' /\ vectors \subseteq vectors'
    BY <2>2 DEF PersistEnrichedDocument, MarkFailed
  <2>3. CASE EnrichmentDone(r)
    BY <2>3 DEF EnrichmentDone, stores, locals
  <2>4. CASE FetchEnriched(r)
    BY <2>4 DEF FetchEnriched, stores
  <2>5. CASE FetchMentions(r)
    BY <2>5 DEF FetchMentions, stores
  <2>6. CASE MarkEmptyEmbedded(r)
    BY <2>6 DEF MarkEmptyEmbedded, StartUpsert, Return
  <2>7. CASE UpsertVectors(r)
    BY <2>7 DEF UpsertVectors
  <2>8. CASE MarkDocumentsEmbedded(r)
    BY <2>8 DEF MarkDocumentsEmbedded, Return
  <2> QED
    BY <1>2, <2>1, <2>2, <2>3, <2>4, <2>5, <2>6, <2>7, <2>8 DEF RunnerStep
<1>3. ASSUME NEW r \in Runners, RunnerFault(r)
      PROVE  UpsertsInv' /\ embedText' \subseteq vectors' /\ vectors \subseteq vectors'
  BY <1>3 DEF RunnerFault, JobEnds, Return, DocumentWriteFails, stores
<1>4. CASE UNCHANGED vars
  BY <1>4 DEF vars, stores, locals
<1> QED
  BY <1>1, <1>2, <1>3, <1>4 DEF Next

-----------------------------------------------------------------------------
(* What embedded means when runners overlap.  The mentions a runner reads    *)
(* are all there are of the documents it read before, so they are those up   *)
(* to some insert, and later inserts do not change that.                     *)

Reading == {"mark_empty", "upsert", "mark_embedded"}

IndexInv ==
    /\ \A d \in Docs : status[d] \in {"enriched", "embedded"} => inserts[d] # 0
    /\ \A r \in Runners :
          /\ pc[r] = "fetch_mentions" => \A d \in fetched[r] : inserts[d] # 0
          /\ pc[r] \in Reading => /\ DocsOf(rows[r]) \subseteq fetched[r]
                                  /\ \A d \in fetched[r] : WholeUpToAnInsert(d, rows[r])
    /\ IndexedUpToAnInsert

\* Mentions of a document come with a generation of their own, after all earlier ones.
LEMMA InsertsGrow ==
    ASSUME TypeOK, [Next]_vars
    PROVE  /\ \A d \in Docs : inserts'[d] \in Nat /\ inserts[d] <= inserts'[d]
           /\ \A m \in mentions' \ mentions : m.doc \in Docs /\ m.gen = inserts[m.doc] + 1
<1>1. ASSUME NEW r \in Runners, NEW d \in Docs, PersistEnrichedDocument(r, d)
      PROVE  /\ \A e \in Docs : inserts'[e] \in Nat /\ inserts[e] <= inserts'[e]
             /\ \A m \in mentions' \ mentions : m.doc \in Docs /\ m.gen = inserts[m.doc] + 1
  <2>1. PICK n \in 0..MaxMentions : mentions' = mentions \cup FreshMentions(d, n)
    BY <1>1, PipelineAssumption DEF PersistEnrichedDocument, PipelineAssumption
  <2>2. \A m \in mentions' \ mentions : m.doc = d /\ m.gen = inserts[d] + 1
    BY <2>1, FreshMentionsType, PipelineAssumption
  <2>3. \A e \in Docs : inserts'[e] \in Nat /\ inserts[e] <= inserts'[e]
    BY <1>1 DEF PersistEnrichedDocument, TypeOK
  <2> QED
    BY <2>2, <2>3
<1>2. ASSUME UNCHANGED <<inserts, mentions>>
      PROVE  /\ \A e \in Docs : inserts'[e] \in Nat /\ inserts[e] <= inserts'[e]
             /\ \A m \in mentions' \ mentions : m.doc \in Docs /\ m.gen = inserts[m.doc] + 1
  BY <1>2 DEF TypeOK
<1>3. ASSUME NEW r \in Runners, RunnerStep(r) \/ RunnerFault(r),
             ~ \E d \in Docs : PersistEnrichedDocument(r, d)
      PROVE  UNCHANGED <<inserts, mentions>>
  BY <1>3 DEF RunnerStep, RunnerFault, FetchUnprocessed, MarkFailed, EnrichmentDone,
              FetchEnriched, FetchMentions, MarkEmptyEmbedded, UpsertVectors,
              MarkDocumentsEmbedded, JobEnds, DocumentWriteFails, stores
<1>4. CASE Ingest \/ UNCHANGED vars
  BY <1>2, <1>4 DEF Ingest, vars, stores
<1> QED
  BY <1>1, <1>2, <1>3, <1>4 DEF Next

LEMMA EmbedTextGrows ==
    ASSUME [Next]_vars
    PROVE  embedText \subseteq embedText'
BY DEF Next, RunnerStep, RunnerFault, Ingest, FetchUnprocessed, PersistEnrichedDocument,
   MarkFailed, EnrichmentDone, FetchEnriched, FetchMentions, MarkEmptyEmbedded, UpsertVectors,
   MarkDocumentsEmbedded, JobEnds, DocumentWriteFails, stores, vars

LEMMA WholeKept ==
    ASSUME TypeOK, [Next]_vars, NEW d \in Docs, NEW T, NEW U, T \subseteq U,
           WholeUpToAnInsert(d, T)
    PROVE  \E g \in 1..inserts'[d] : \A m \in mentions' : m.doc = d /\ m.gen <= g => m \in U
<1>1. PICK g \in 1..inserts[d] : \A m \in MentionsOf(d) : m.gen <= g => m \in T
  BY DEF WholeUpToAnInsert
<1>2. inserts[d] \in Nat /\ inserts'[d] \in Nat /\ inserts[d] <= inserts'[d]
  BY InsertsGrow DEF TypeOK
<1>3. g \in 1..inserts'[d]
  BY <1>2
<1>4. ASSUME NEW m \in mentions', m.doc = d, m.gen <= g PROVE m \in U
  <2>1. CASE m \in mentions
    BY <1>1, <1>4, <2>1 DEF MentionsOf
  <2>2. CASE m \notin mentions
    <3>1. m.gen = inserts[d] + 1
      BY <1>4, <2>2, InsertsGrow
    <3> QED
      BY <1>2, <1>4, <3>1
  <2> QED
    BY <2>1, <2>2
<1> QED
  BY <1>3, <1>4

\* Who makes a document embedded, or enriched.
LEMMA StatusFrom ==
    ASSUME TypeOK, [Next]_vars, NEW d \in Docs
    PROVE  /\ status'[d] = "embedded" =>
                 \/ status[d] = "embedded"
                 \/ \E r \in Runners : MarkEmptyEmbedded(r) /\ d \in fetched[r] \ DocsOf(rows[r])
                 \/ \E r \in Runners : MarkDocumentsEmbedded(r) /\ d \in DocsOf(rows[r])
           /\ status'[d] = "enriched" => status[d] = "enriched" \/ inserts'[d] # 0
<1> DEFINE Goal ==
       /\ status'[d] = "embedded" =>
             \/ status[d] = "embedded"
             \/ \E r \in Runners : MarkEmptyEmbedded(r) /\ d \in fetched[r] \ DocsOf(rows[r])
             \/ \E r \in Runners : MarkDocumentsEmbedded(r) /\ d \in DocsOf(rows[r])
       /\ status'[d] = "enriched" => status[d] = "enriched" \/ inserts'[d] # 0
<1>1. ASSUME UNCHANGED status PROVE Goal
  BY <1>1
<1>2. CASE Ingest
  BY <1>2 DEF Ingest
<1>3. ASSUME NEW r \in Runners, NEW e \in Docs, PersistEnrichedDocument(r, e) PROVE Goal
  BY <1>3 DEF PersistEnrichedDocument, TypeOK
<1>4. ASSUME NEW r \in Runners, NEW e \in Docs, MarkFailed(r, e) PROVE Goal
  BY <1>4 DEF MarkFailed, TypeOK
<1>5. ASSUME NEW r \in Runners, MarkEmptyEmbedded(r) PROVE Goal
  <2>1. status'[d] = IF d \in fetched[r] \ DocsOf(rows[r]) THEN "embedded" ELSE status[d]
    BY <1>5 DEF MarkEmptyEmbedded, BulkUpdateStatus
  <2> QED
    BY <1>5, <2>1
<1>6. ASSUME NEW r \in Runners, MarkDocumentsEmbedded(r) PROVE Goal
  <2>1. status'[d] = IF d \in DocsOf(rows[r]) THEN "embedded" ELSE status[d]
    BY <1>6 DEF MarkDocumentsEmbedded, BulkUpdateStatus
  <2> QED
    BY <1>6, <2>1
<1>7. ASSUME NEW r \in Runners,
             \/ FetchUnprocessed(r) \/ EnrichmentDone(r) \/ FetchEnriched(r)
             \/ FetchMentions(r) \/ UpsertVectors(r) \/ RunnerFault(r)
      PROVE  Goal
  <2>1. UNCHANGED status
    BY <1>7 DEF FetchUnprocessed, EnrichmentDone, FetchEnriched, FetchMentions, UpsertVectors,
                RunnerFault, JobEnds, DocumentWriteFails, stores
  <2> QED
    BY <1>1, <2>1
<1>8. CASE UNCHANGED vars
  BY <1>1, <1>8 DEF vars, stores
<1> QED
  BY <1>2, <1>3, <1>4, <1>5, <1>6, <1>7, <1>8 DEF Next, RunnerStep

\* What a runner holds between its reads and its marks is what it read.
LEMMA LocalsFrom ==
    ASSUME TypeOK, [Next]_vars, NEW q \in Runners
    PROVE  /\ pc'[q] = "fetch_mentions" =>
                 \/ pc[q] = "fetch_mentions" /\ fetched'[q] = fetched[q]
                 \/ FetchEnriched(q)
           /\ pc'[q] \in Reading =>
                 \/ pc[q] \in Reading /\ fetched'[q] = fetched[q] /\ rows'[q] = rows[q]
                 \/ FetchMentions(q)
<1> DEFINE Goal ==
       /\ pc'[q] = "fetch_mentions" =>
             \/ pc[q] = "fetch_mentions" /\ fetched'[q] = fetched[q]
             \/ FetchEnriched(q)
       /\ pc'[q] \in Reading =>
             \/ pc[q] \in Reading /\ fetched'[q] = fetched[q] /\ rows'[q] = rows[q]
             \/ FetchMentions(q)
<1> USE DEF TypeOK, Reading
<1>1. CASE Ingest \/ UNCHANGED vars
  BY <1>1 DEF Ingest, vars, locals
<1>2. ASSUME NEW r \in Runners, RunnerStep(r) \/ RunnerFault(r) PROVE Goal
  <2>1. CASE q # r
    <3>1. pc'[q] = pc[q] /\ fetched'[q] = fetched[q] /\ rows'[q] = rows[q]
      BY <1>2, <2>1 DEF RunnerStep, RunnerFault, FetchUnprocessed, PersistEnrichedDocument,
         MarkFailed, EnrichmentDone, FetchEnriched, FetchMentions, MarkEmptyEmbedded,
         StartUpsert, UpsertVectors, MarkDocumentsEmbedded, JobEnds, DocumentWriteFails,
         Return, locals
    <3> QED
      BY <3>1
  <2>2. CASE q = r
    <3>1. ASSUME NEW d \in Docs,
                 PersistEnrichedDocument(r, d) \/ MarkFailed(r, d) \/ DocumentWriteFails(r, d)
          PROVE  Goal
      BY <3>1 DEF PersistEnrichedDocument, MarkFailed, DocumentWriteFails
    <3>2. CASE FetchUnprocessed(r) \/ EnrichmentDone(r)
      BY <2>2, <3>2 DEF FetchUnprocessed, EnrichmentDone
    <3>3. CASE FetchEnriched(r)
      BY <2>2, <3>3 DEF FetchEnriched
    <3>4. CASE FetchMentions(r)
      BY <2>2, <3>4 DEF FetchMentions
    <3>5. CASE MarkEmptyEmbedded(r)
      BY <2>2, <3>5 DEF MarkEmptyEmbedded, StartUpsert, Return
    <3>6. CASE UpsertVectors(r)
      BY <2>2, <3>6 DEF UpsertVectors
    <3>7. CASE MarkDocumentsEmbedded(r) \/ JobEnds(r)
      BY <2>2, <3>7 DEF MarkDocumentsEmbedded, JobEnds, Return
    <3> QED
      BY <1>2, <3>1, <3>2, <3>3, <3>4, <3>5, <3>6, <3>7 DEF RunnerStep, RunnerFault
  <2> QED
    BY <2>1, <2>2
<1> QED
  BY <1>1, <1>2 DEF Next

\* What a runner reads of a document that has been inserted is all there is of it.
LEMMA ReadIsWhole ==
    ASSUME TypeOK, InsertsInv, IndexInv, NEW r \in Runners, FetchMentions(r)
    PROVE  /\ DocsOf(rows'[r]) \subseteq fetched'[r]
           /\ \A d \in fetched'[r] : WholeUpToAnInsert(d, rows'[r])
<1>1. fetched'[r] = fetched[r] /\ rows'[r] = {m \in mentions : m.doc \in fetched[r]}
  BY DEF FetchMentions, TypeOK
<1>2. ASSUME NEW d \in fetched[r] PROVE WholeUpToAnInsert(d, rows'[r])
  <2>1. inserts[d] \in Nat \ {0}
    BY <1>2 DEF FetchMentions, IndexInv, TypeOK
  <2>2. inserts[d] \in 1..inserts[d]
    BY <2>1
  <2>3. \A m \in MentionsOf(d) : m \in rows'[r]
    BY <1>1, <1>2 DEF MentionsOf
  <2> QED
    BY <2>2, <2>3 DEF WholeUpToAnInsert
<1> QED
  BY <1>1, <1>2 DEF DocsOf

LEMMA IndexInvInit == Init => IndexInv
BY DEF Init, IndexInv, IndexedUpToAnInsert, Reading

LEMMA IndexInvStep ==
    ASSUME StoresInv, InsertsInv, IndexInv, [Next]_vars
    PROVE  IndexInv'
<1>0. TypeOK /\ StoresInv'
  BY StoresInvStep DEF StoresInv, SharedInv
<1>1. ASSUME NEW d \in Docs, inserts[d] # 0 PROVE inserts'[d] # 0
  BY <1>0, <1>1, InsertsGrow DEF TypeOK
<1>2. ASSUME NEW d \in Docs, NEW T, WholeUpToAnInsert(d, T) PROVE inserts[d] # 0
  BY <1>0, <1>2 DEF WholeUpToAnInsert, TypeOK
<1>3. ASSUME NEW d \in Docs, status'[d] \in {"enriched", "embedded"} PROVE inserts'[d] # 0
  <2>1. CASE status[d] \in {"enriched", "embedded"}
    BY <1>1, <2>1 DEF IndexInv
  <2>2. ASSUME NEW r \in Runners,
               \/ MarkEmptyEmbedded(r) /\ d \in fetched[r] \ DocsOf(rows[r])
               \/ MarkDocumentsEmbedded(r) /\ d \in DocsOf(rows[r])
        PROVE  inserts'[d] # 0
    <3>1. d \in fetched[r] /\ WholeUpToAnInsert(d, rows[r])
      BY <2>2 DEF IndexInv, Reading, MarkEmptyEmbedded, MarkDocumentsEmbedded
    <3> QED
      BY <1>1, <1>2, <3>1
  <2> QED
    BY <1>0, <1>3, <2>1, <2>2, StatusFrom
<1>4. ASSUME NEW r \in Runners, pc'[r] = "fetch_mentions", NEW d \in fetched'[r]
      PROVE  inserts'[d] # 0
  <2>1. CASE pc[r] = "fetch_mentions" /\ fetched'[r] = fetched[r]
    BY <1>0, <1>1, <1>4, <2>1 DEF IndexInv, TypeOK
  <2>2. CASE FetchEnriched(r)
    <3>1. d \in Docs /\ status[d] = "enriched"
      BY <1>0, <1>4, <2>2 DEF FetchEnriched, ByStatus, TypeOK
    <3> QED
      BY <1>1, <3>1 DEF IndexInv
  <2> QED
    BY <1>0, <1>4, <2>1, <2>2, LocalsFrom
<1>5. ASSUME NEW r \in Runners, pc'[r] \in Reading
      PROVE  /\ DocsOf(rows'[r]) \subseteq fetched'[r]
             /\ \A d \in fetched'[r] : d \in Docs /\ WholeUpToAnInsert(d, rows'[r])
  <2>1. CASE pc[r] \in Reading /\ fetched'[r] = fetched[r] /\ rows'[r] = rows[r]
    BY <1>0, <2>1 DEF IndexInv, TypeOK
  <2>2. CASE FetchMentions(r)
    <3>1. fetched'[r] \subseteq Docs
      BY <1>0, <2>2 DEF FetchMentions, TypeOK
    <3> QED
      BY <1>0, <2>2, <3>1, ReadIsWhole
  <2> QED
    BY <1>0, <1>5, <2>1, <2>2, LocalsFrom
<1>6. ASSUME NEW r \in Runners, pc'[r] \in Reading, NEW d \in fetched'[r]
      PROVE  WholeUpToAnInsert(d, rows[r])'
  <2>1. d \in Docs /\ WholeUpToAnInsert(d, rows'[r])
    BY <1>5, <1>6
  <2>2. \E g \in 1..inserts'[d] :
           \A m \in mentions' : m.doc = d /\ m.gen <= g => m \in rows'[r]
    BY <1>0, <2>1, WholeKept
  <2> QED
    BY <2>2 DEF WholeUpToAnInsert, MentionsOf
<1>7. ASSUME NEW d \in Docs, status'[d] = "embedded"
      PROVE  WholeUpToAnInsert(d, vectors \cap embedText)'
  <2>1. PICK T : WholeUpToAnInsert(d, T) /\ T \subseteq vectors' \cap embedText'
    <3>1. CASE status[d] = "embedded"
      <4>1. WholeUpToAnInsert(d, vectors \cap embedText)
        BY <3>1 DEF IndexInv, IndexedUpToAnInsert
      <4>2. vectors \subseteq vectors' /\ embedText \subseteq embedText'
        BY <1>0, StoresInvStep, EmbedTextGrows
      <4> QED
        BY <4>1, <4>2
    <3>2. ASSUME NEW r \in Runners, MarkEmptyEmbedded(r), d \in fetched[r] \ DocsOf(rows[r])
          PROVE  WholeUpToAnInsert(d, {})
      <4>1. WholeUpToAnInsert(d, rows[r])
        BY <3>2 DEF IndexInv, Reading, MarkEmptyEmbedded
      <4>2. \A m \in rows[r] : m.doc # d
        BY <3>2 DEF DocsOf
      <4> QED
        BY <4>1, <4>2 DEF WholeUpToAnInsert, MentionsOf
    <3>3. ASSUME NEW r \in Runners, MarkDocumentsEmbedded(r), d \in DocsOf(rows[r])
          PROVE  WholeUpToAnInsert(d, rows[r]) /\ rows[r] \subseteq vectors' \cap embedText'
      <4>1. WholeUpToAnInsert(d, rows[r])
        BY <3>3 DEF IndexInv, Reading, MarkDocumentsEmbedded
      <4>2. rows[r] \subseteq vectors
        BY <3>3 DEF StoresInv, UpsertsInv, MarkDocumentsEmbedded
      <4> QED
        BY <3>3, <4>1, <4>2 DEF MarkDocumentsEmbedded
    <3> QED
      BY <1>0, <1>7, <3>1, <3>2, <3>3, StatusFrom
  <2>2. \E g \in 1..inserts'[d] :
           \A m \in mentions' : m.doc = d /\ m.gen <= g => m \in vectors' \cap embedText'
    BY <1>0, <2>1, WholeKept
  <2> QED
    BY <2>2 DEF WholeUpToAnInsert, MentionsOf
<1> QED
  BY <1>3, <1>4, <1>5, <1>6, <1>7 DEF IndexInv, IndexedUpToAnInsert

\* However many runners overlap, embedded is true of a document up to an insert.
THEOREM IndexedAlways == Spec => []IndexedUpToAnInsert
<1>1. StoresInv /\ [Next]_vars => StoresInv'
  BY StoresInvStep
<1>2. StoresInv /\ InsertsInv /\ IndexInv /\ [Next]_vars => IndexInv'
  BY IndexInvStep
<1>3. IndexInv => IndexedUpToAnInsert
  BY DEF IndexInv
<1> QED
  BY <1>1, <1>2, <1>3, StoresInvInit, IndexInvInit, InsertsAlways, PTL DEF Spec

-----------------------------------------------------------------------------
(* Searches of the agent beside any number of runners: a search reads the    *)
(* vectors before the mentions.                                              *)

\* The hits so far are vectors of the asked SKUs, and hold what was indexed of the SKUs
\* already searched, or enough.
HitsInv ==
    /\ hits \subseteq vectors
    /\ indexed \subseteq vectors
    /\ \A m \in hits \cup indexed : SkuOf[m.doc] \in asked
    /\ at = "idle" => hits = {} /\ evidence = {}
    /\ at = "hydrate" => left = {}
    /\ at \in {"search", "hydrate"} =>
          \A m \in indexed : \/ SkuOf[m.doc] \in left
                             \/ m \in hits
                             \/ Cardinality(hits) >= topK

SearchInv == StoresInv /\ RetrievalTypeOK /\ HitsInv /\ SearchesAgree

LEMMA VectorsFinite ==
    ASSUME StoresInv, NEW S \in SUBSET vectors
    PROVE  IsFiniteSet(S) /\ Cardinality(S) \in Nat
BY FS_Subset, FS_CardinalityType DEF StoresInv, SharedInv, NoOrphanVectors

LEMMA SearchInvInit == RetrievalInit => SearchInv
<1> SUFFICES ASSUME RetrievalInit PROVE SearchInv
  OBVIOUS
<1>1. StoresInv
  BY StoresInvInit DEF RetrievalInit
<1>2. RetrievalTypeOK
  BY <1>1, RetrievalAssumption DEF RetrievalInit, RetrievalTypeOK, StoresInv, SharedInv,
     RetrievalAssumption
<1> QED
  BY <1>1, <1>2 DEF RetrievalInit, SearchInv, HitsInv, SearchesAgree, NothingDropped,
     IndexedIsFound

LEMMA JobKeepsSearch ==
    ASSUME SearchInv, [Next]_vars, UNCHANGED searchVars
    PROVE  SearchInv'
<1>1. StoresInv' /\ vectors \subseteq vectors'
  BY StoresInvStep DEF SearchInv
<1>2. TypeOK'
  BY <1>1 DEF StoresInv, SharedInv
<1> QED
  BY <1>1, <1>2 DEF SearchInv, RetrievalTypeOK, HitsInv, SearchesAgree, NothingDropped,
     IndexedIsFound, searchVars

LEMMA StartKeepsSearch ==
    ASSUME SearchInv, NEW S \in SUBSET Skus, NEW k \in 1..MaxTopK, StartSearch(S, k)
    PROVE  SearchInv'
<1> USE DEF SearchInv, StartSearch
<1>1. StoresInv' /\ vectors' = vectors
  BY DEF StoresInv, SharedInv, vars, stores, locals, TypeOK, NoOrphanVectors,
     RetryStartsClean, ReadMentionsExist, UpsertsInv, MentionsOf
<1>2. RetrievalTypeOK'
  BY <1>1 DEF RetrievalTypeOK, StoresInv, SharedInv, TypeOK
<1>3. hits = {} /\ evidence = {}
  BY DEF HitsInv
<1> QED
  BY <1>1, <1>2, <1>3 DEF HitsInv, SearchesAgree, NothingDropped, IndexedIsFound, StoresInv


LEMMA SearchSkuKeepsSearch ==
    ASSUME SearchInv, NEW s \in Skus, SearchSku(s)
    PROVE  SearchInv'
<1> USE DEF SearchInv
<1>1. StoresInv' /\ TypeOK' /\ vectors' = vectors
  BY DEF SearchSku, StoresInv, SharedInv, vars, stores, locals, TypeOK, NoOrphanVectors,
     RetryStartsClean, ReadMentionsExist, UpsertsInv, MentionsOf
<1>2. PICK B \in SUBSET OfSku(s) : Best(B, OfSku(s), topK) /\ hits' = hits \cup B
  BY DEF SearchSku
<1>3. B \subseteq vectors /\ hits' \subseteq vectors /\ vectors \subseteq MentionIds
  BY <1>2 DEF OfSku, HitsInv, RetrievalTypeOK, TypeOK
<1>4. RetrievalTypeOK'
  BY <1>1, <1>2, <1>3 DEF RetrievalTypeOK, SearchSku
<1>5. \A m \in hits' : SkuOf[m.doc] \in asked
  BY <1>2 DEF OfSku, HitsInv, SearchSku, RetrievalTypeOK
<1>6. /\ IsFiniteSet(hits') /\ Cardinality(hits') \in Nat
      /\ Cardinality(hits) \in Nat /\ Cardinality(B) \in Nat
      /\ Cardinality(hits) <= Cardinality(hits')
      /\ Cardinality(B) <= Cardinality(hits')
  BY <1>2, <1>3, VectorsFinite, FS_Subset DEF HitsInv
<1>7. ASSUME NEW m \in indexed
      PROVE  SkuOf[m.doc] \in left' \/ m \in hits' \/ Cardinality(hits') >= topK
  <2>1. CASE SkuOf[m.doc] \in left \ {s} \/ m \in hits
    BY <2>1, <1>2 DEF SearchSku
  <2>2. CASE Cardinality(hits) >= topK
    BY <2>2, <1>6, RetrievalAssumption DEF RetrievalTypeOK, RetrievalAssumption
  <2>3. CASE SkuOf[m.doc] = s
    <3>1. m \in OfSku(s)
      BY <2>3 DEF OfSku, HitsInv
    <3>2. B = OfSku(s) \/ Cardinality(B) = topK
      BY <1>2 DEF Best
    <3> QED
      BY <3>1, <3>2, <1>2, <1>6, RetrievalAssumption DEF RetrievalTypeOK, RetrievalAssumption
  <2> QED
    BY <2>1, <2>2, <2>3 DEF HitsInv, SearchSku
<1>8. HitsInv'
  BY <1>1, <1>3, <1>5, <1>7 DEF HitsInv, SearchSku
<1>9. SearchesAgree'
  BY <1>1 DEF SearchesAgree, NothingDropped, IndexedIsFound, SearchSku
<1> QED
  BY <1>1, <1>4, <1>8, <1>9

LEMMA HydrateKeepsSearch == ASSUME SearchInv, Hydrate PROVE SearchInv'
<1> USE DEF SearchInv
<1>1. StoresInv' /\ TypeOK' /\ vectors' = vectors
  BY DEF Hydrate, StoresInv, SharedInv, vars, stores, locals, TypeOK, NoOrphanVectors,
     RetryStartsClean, ReadMentionsExist, UpsertsInv, MentionsOf
<1>2. PICK R \in SUBSET hits :
          /\ Best(R, hits, topK)
          /\ evidence' = Hydrated(R)
          /\ at' = IF Hydrated(R) = {} THEN "empty"
                   ELSE IF Hydrated(R) # R THEN "partial"
                   ELSE "success"
  BY DEF Hydrate
<1>3. Hydrated(R) = R
  BY DEF Hydrated, HitsInv, RetrievalTypeOK, StoresInv, SharedInv, NoOrphanVectors
<1>4. R = hits \/ Cardinality(R) = topK
  BY <1>2 DEF Best
<1>5. R = {} => hits = {}
  BY <1>4, FS_EmptySet, RetrievalAssumption DEF RetrievalTypeOK, RetrievalAssumption
<1>6. RetrievalTypeOK'
  BY <1>1, <1>2, <1>3 DEF RetrievalTypeOK, Hydrate
<1>7. HitsInv'
  BY <1>1, <1>2, <1>3 DEF HitsInv, Hydrate
<1>8. NothingDropped'
  BY <1>1, <1>2, <1>3, <1>5 DEF NothingDropped, HitsInv, Hydrate
<1>9. ASSUME NEW m \in indexed PROVE m \in R \/ Cardinality(R) = topK
  <2>1. m \in hits \/ Cardinality(hits) >= topK
    BY DEF Hydrate, HitsInv
  <2>2. hits \subseteq vectors
    BY DEF HitsInv
  <2>3. Cardinality(hits) = topK \/ Cardinality(hits) < topK \/ R # hits
    BY <1>2, <2>2, VectorsFinite, RetrievalAssumption
       DEF Best, RetrievalTypeOK, RetrievalAssumption
  <2> QED
    BY <1>4, <2>1, <2>2, <2>3, VectorsFinite, RetrievalAssumption
       DEF RetrievalTypeOK, RetrievalAssumption
<1>10. IndexedIsFound'
  BY <1>2, <1>3, <1>9 DEF IndexedIsFound, Hydrate
<1> QED
  BY <1>1, <1>6, <1>7, <1>8, <1>10 DEF SearchesAgree

LEMMA EndKeepsSearch == ASSUME SearchInv, EndSearch PROVE SearchInv'
<1> USE DEF SearchInv, EndSearch
<1>1. StoresInv' /\ TypeOK'
  BY DEF StoresInv, SharedInv, vars, stores, locals, TypeOK, NoOrphanVectors,
     RetryStartsClean, ReadMentionsExist, UpsertsInv, MentionsOf
<1>2. RetrievalTypeOK'
  BY <1>1, RetrievalAssumption DEF RetrievalTypeOK, Forgotten, RetrievalAssumption
<1> QED
  BY <1>1, <1>2 DEF Forgotten, HitsInv, SearchesAgree, NothingDropped, IndexedIsFound

\* A search of the agent tells the truth about both stores while any number of runners
\* write them, and the runners' own invariant survives the searches.
THEOREM SearchesTellTheTruth == RetrievalSpec => [](RetrievalTypeOK /\ SearchesAgree)
<1>1. SearchInv /\ [RetrievalNext]_retrievalVars => SearchInv'
  <2> SUFFICES ASSUME SearchInv, [RetrievalNext]_retrievalVars PROVE SearchInv'
    OBVIOUS
  <2>1. CASE Next /\ UNCHANGED searchVars
    BY <2>1, JobKeepsSearch
  <2>2. CASE UNCHANGED retrievalVars
    BY <2>2, JobKeepsSearch DEF retrievalVars
  <2>3. CASE SearchStep
    BY <2>3, StartKeepsSearch, SearchSkuKeepsSearch, HydrateKeepsSearch, EndKeepsSearch
       DEF SearchStep
  <2> QED
    BY <2>1, <2>2, <2>3 DEF RetrievalNext
<1>2. SearchInv => RetrievalTypeOK /\ SearchesAgree
  BY DEF SearchInv
<1> QED
  BY <1>1, <1>2, SearchInvInit, PTL DEF RetrievalSpec
=============================================================================
