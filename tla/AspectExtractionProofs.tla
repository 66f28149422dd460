------------------------- MODULE AspectExtractionProofs -------------------------
(* What holds of the extraction for any batches, documents and limits, with  *)
(* any number of batches at work.                                            *)
EXTENDS AspectExtraction, FiniteSetTheorems, TLAPS

Untouched(d) == delivered[d] = 0 /\ errors[d] = "none"

Recorded(d) ==
    /\ delivered[d] \in {0, 1}
    /\ delivered[d] = 1 <=> errors[d] \in {"none", "rejected"}

\* Where a batch is tells which of its documents are recorded.
Progress ==
    \A d \in Docs :
        LET b == BatchOf[d]
        IN  /\ phase[b] \in {"queued", "batch"} => Untouched(d)
            /\ phase[b] \in {"next", "single"} =>
                  /\ d \in todo[b] => Untouched(d)
                  /\ phase[b] = "single" /\ d = current[b] => d \notin todo[b] /\ Untouched(d)
                  /\ d \notin todo[b] /\ (phase[b] = "next" \/ d # current[b]) => Recorded(d)
            /\ outcome[b] = "result" => Recorded(d)
            /\ delivered[d] <= 1
            /\ kept[d] > 0 => delivered[d] = 1 /\ errors[d] = "none"

\* A batch asks for documents of its own, and its outcome is known when it is done.
Bookkeeping ==
    \A b \in Batches :
        /\ phase[b] # "done" => outcome[b] = "none"
        /\ phase[b] \in {"next", "single"} => todo[b] \subseteq DocsIn(b)
        /\ phase[b] = "single" => current[b] \in DocsIn(b)

\* The cause of an error lies with the document itself or with the provider.
Causal ==
    \A d \in Docs \ Poison :
        /\ errors[d] \in {"none", "unavailable"}
        /\ outcome[BatchOf[d]] = "unusable" => failFast
        /\ phase[BatchOf[d]] = "done" => outcome[BatchOf[d]] # "none"

ExtractionInv == TypeOK /\ Progress /\ Bookkeeping /\ Causal

-----------------------------------------------------------------------------
\* A batch of at most one document has no peer.
LEMMA NoPeers ==
    ASSUME ExtractionAssumption, NEW b \in Batches, ~(Cardinality(DocsIn(b)) > 1),
           NEW d \in DocsIn(b), NEW e \in DocsIn(b)
    PROVE  d = e
<1> SUFFICES ASSUME d # e PROVE FALSE
  OBVIOUS
<1>1. IsFiniteSet(DocsIn(b))
  BY FS_Subset DEF ExtractionAssumption, DocsIn
<1>2. IsFiniteSet({d, e}) /\ Cardinality({d, e}) = 2
  <2>1. IsFiniteSet({d}) /\ Cardinality({d}) = 1
    BY FS_Singleton
  <2>2. e \notin {d}
    OBVIOUS
  <2>3. IsFiniteSet({d} \cup {e}) /\ Cardinality({d} \cup {e}) = Cardinality({d}) + 1
    BY <2>1, <2>2, FS_AddElement
  <2>4. Cardinality({d} \cup {e}) = 2
    BY <2>1, <2>3
  <2>5. {d} \cup {e} = {d, e}
    BY Zenon
  <2> QED
    BY <2>3, <2>4, <2>5, Zenon
<1>3. Cardinality({d, e}) <= Cardinality(DocsIn(b))
  BY <1>1, FS_Subset
<1>4. Cardinality(DocsIn(b)) \in Nat
  BY <1>1, FS_CardinalityType
<1> QED
  BY <1>2, <1>3, <1>4

LEMMA InitExtraction == ASSUME ExtractionAssumption PROVE Init => ExtractionInv
BY DEF Init, ExtractionInv, TypeOK, Progress, Bookkeeping, Causal, Untouched, Recorded,
       Phases, Outcomes, Causes, ExtractionAssumption

\* Recording a reply over documents none of which was recorded yet.
LEMMA RecordReply ==
    ASSUME ExtractionAssumption, ExtractionInv, NEW b \in Batches, Asking(b),
           \A d \in Asked(b) : d \in DocsIn(b) /\ Untouched(d),
           NEW reply \in [Asked(b) -> Aspects],
           \A d \in Asked(b) \ Poison : ~Rejected(reply[d]),
           Record(reply)
    PROVE  /\ delivered' \in [Docs -> Nat]
           /\ errors' \in [Docs -> Causes]
           /\ kept' \in [Docs -> 0..MaxKept]
           /\ \A d \in Docs \ Asked(b) : /\ delivered'[d] = delivered[d]
                                         /\ errors'[d] = errors[d]
                                         /\ kept'[d] = kept[d]
           /\ \A d \in Asked(b) : /\ delivered'[d] = 1
                                  /\ errors'[d] \in {"none", "rejected"}
                                  /\ kept'[d] > 0 => errors'[d] = "none"
                                  /\ d \notin Poison => errors'[d] = "none"
<1>1. Asked(b) \subseteq Docs
  BY DEF DocsIn
<1>2. \A d \in Asked(b) : reply[d].valid \in 0..MaxKept /\ reply[d] \in Aspects
  BY DEF Aspects
<1>3. \A d \in Asked(b) : Rejected(reply[d]) => reply[d].valid = 0
  BY DEF Rejected
<1> QED
  BY <1>1, <1>2, <1>3 DEF Record, ExtractionInv, TypeOK, Untouched, Causes

LEMMA SentType ==
    ASSUME ExtractionAssumption, TypeOK, NEW b \in Batches, Sent(b)
    PROVE  requests' \in [Batches -> Nat] /\ resent' \in [Batches -> 0..SdkRetries]
BY DEF ExtractionAssumption, TypeOK, Sent

\* No action disturbs a type.
LEMMA TypeStep ==
    ASSUME ExtractionAssumption, ExtractionInv, [Next]_vars
    PROVE  TypeOK'
<1> USE DEF ExtractionInv, TypeOK, Phases, Outcomes
<1>1. ASSUME NEW b \in Batches, Begin(b) PROVE TypeOK'
  BY <1>1 DEF Begin, sending, extracted
<1>2. ASSUME NEW b \in Batches, Usable(b) PROVE TypeOK'
  <2>1. PICK reply \in [Asked(b) -> Aspects] :
           /\ \A d \in Asked(b) \ Poison : ~Rejected(reply[d])
           /\ Record(reply)
    BY <1>2 DEF Usable
  <2>2. \A d \in Asked(b) : d \in DocsIn(b) /\ Untouched(d)
    BY <1>2 DEF Usable, Asking, Asked, Progress, Bookkeeping, DocsIn
  <2>3. /\ delivered' \in [Docs -> Nat]
        /\ errors' \in [Docs -> Causes]
        /\ kept' \in [Docs -> 0..MaxKept]
    BY <1>2, <2>1, <2>2, RecordReply DEF Usable
  <2>4. requests' \in [Batches -> Nat] /\ resent' \in [Batches -> 0..SdkRetries]
    BY <1>2, SentType DEF Usable
  <2>5. /\ attempt' \in [Batches -> 0..MaxRetries]
        /\ phase' \in [Batches -> Phases]
        /\ outcome' \in [Batches -> Outcomes]
    BY <1>2 DEF Usable, Answered, End, ExtractionAssumption
  <2> QED
    BY <1>2, <2>3, <2>4, <2>5 DEF Usable
<1>3. ASSUME NEW b \in Batches, Retry(b) PROVE TypeOK'
  BY <1>3 DEF Retry, Sent, extracted, ExtractionAssumption
<1>4. ASSUME NEW b \in Batches, Unusable(b) PROVE TypeOK'
  BY <1>4 DEF Unusable, Sent, StartFallback, SingleFails, Answered, End, DocsIn, Causes,
              ExtractionAssumption
<1>5. ASSUME NEW b \in Batches, Unavailable(b) PROVE TypeOK'
  BY <1>5, SentType DEF Unavailable, SingleFails, Answered, End, Causes, ExtractionAssumption
<1>6. ASSUME NEW b \in Batches, Escape(b) PROVE TypeOK'
  BY <1>6 DEF Escape, Sent, End, extracted
<1>7. ASSUME NEW b \in Batches, NextSingle(b) PROVE TypeOK'
  BY <1>7 DEF NextSingle, End, sending, extracted
<1>8. ASSUME NEW b \in Batches, Resend(b) PROVE TypeOK'
  BY <1>8 DEF Resend, extracted, ExtractionAssumption
<1>9. CASE UNCHANGED vars
  BY <1>9 DEF vars, sending, extracted
<1> QED
  BY <1>1, <1>2, <1>3, <1>4, <1>5, <1>6, <1>7, <1>8, <1>9 DEF Next, BatchStep, Gathered

\* Each action leaves every batch where its progress accounts for its documents.
LEMMA ProgressStep ==
    ASSUME ExtractionAssumption, ExtractionInv, [Next]_vars
    PROVE  Progress' /\ Bookkeeping'
<1> USE DEF ExtractionInv, TypeOK, Progress, Bookkeeping, Untouched, Recorded, DocsIn
<1>1. ASSUME NEW b \in Batches, Begin(b) PROVE Progress' /\ Bookkeeping'
  BY <1>1 DEF Begin, sending, extracted
<1>2. ASSUME NEW b \in Batches, Usable(b) PROVE Progress' /\ Bookkeeping'
  <2>1. PICK reply \in [Asked(b) -> Aspects] :
           /\ \A d \in Asked(b) \ Poison : ~Rejected(reply[d])
           /\ Record(reply)
    BY <1>2 DEF Usable
  <2>2. \A d \in Asked(b) : d \in DocsIn(b) /\ Untouched(d)
    BY <1>2 DEF Usable, Asking, Asked
  <2>3. /\ \A d \in Docs \ Asked(b) : /\ delivered'[d] = delivered[d]
                                      /\ errors'[d] = errors[d]
                                      /\ kept'[d] = kept[d]
        /\ \A d \in Asked(b) : /\ delivered'[d] = 1
                               /\ errors'[d] \in {"none", "rejected"}
                               /\ kept'[d] > 0 => errors'[d] = "none"
    BY <1>2, <2>1, <2>2, RecordReply DEF Usable
  <2>4. CASE phase[b] = "batch"
    BY <1>2, <2>3, <2>4 DEF Usable, Asked, Answered, End
  <2>5. CASE phase[b] = "single"
    BY <1>2, <2>3, <2>5 DEF Usable, Asked, Answered
  <2> QED
    BY <1>2, <2>4, <2>5 DEF Usable, Asking
<1>3. ASSUME NEW b \in Batches, Retry(b) PROVE Progress' /\ Bookkeeping'
  BY <1>3 DEF Retry, extracted
<1>4. ASSUME NEW b \in Batches, Unusable(b) PROVE Progress' /\ Bookkeeping'
  <2>1. CASE FallsBack(b)
    BY <1>4, <2>1 DEF Unusable, FallsBack, StartFallback
  <2>2. CASE ~FallsBack(b) /\ phase[b] = "single"
    BY <1>4, <2>2 DEF Unusable, SingleFails, Answered
  <2>3. CASE ~FallsBack(b) /\ phase[b] = "batch"
    BY <1>4, <2>3 DEF Unusable, End
  <2> QED
    BY <1>4, <2>1, <2>2, <2>3 DEF Unusable, Asking
<1>5. ASSUME NEW b \in Batches, Unavailable(b) PROVE Progress' /\ Bookkeeping'
  <2>1. CASE phase[b] = "single"
    BY <1>5, <2>1 DEF Unavailable, SingleFails, Answered
  <2>2. CASE phase[b] = "batch"
    BY <1>5, <2>2 DEF Unavailable, End
  <2> QED
    BY <1>5, <2>1, <2>2 DEF Unavailable, Asking
<1>6. ASSUME NEW b \in Batches, Escape(b) PROVE Progress' /\ Bookkeeping'
  BY <1>6 DEF Escape, End, extracted, Asking
<1>7. ASSUME NEW b \in Batches, NextSingle(b) PROVE Progress' /\ Bookkeeping'
  <2>1. CASE todo[b] = {}
    BY <1>7, <2>1 DEF NextSingle, End, sending, extracted
  <2>2. CASE todo[b] # {}
    <3>1. PICK d \in todo[b] : /\ current' = [current EXCEPT ![b] = d]
                              /\ todo' = [todo EXCEPT ![b] = @ \ {d}]
      BY <1>7, <2>2 DEF NextSingle
    <3>2. /\ phase[b] = "next" /\ phase' = [phase EXCEPT ![b] = "single"]
          /\ UNCHANGED <<outcome, delivered, kept, errors>>
      BY <1>7, <2>2 DEF NextSingle, sending, extracted
    <3>3. d \in DocsIn(b)
      BY <3>1, <3>2
    <3>4. Bookkeeping'
      BY <3>1, <3>2, <3>3
    <3>5. Progress'
      BY <3>1, <3>2, <3>3
    <3> QED
      BY <3>4, <3>5
  <2> QED
    BY <2>1, <2>2
<1>8. ASSUME NEW b \in Batches, Resend(b) PROVE Progress' /\ Bookkeeping'
  BY <1>8 DEF Resend, extracted
<1>9. CASE UNCHANGED vars
  BY <1>9 DEF vars, sending, extracted
<1> QED
  BY <1>1, <1>2, <1>3, <1>4, <1>5, <1>6, <1>7, <1>8, <1>9 DEF Next, BatchStep, Gathered

\* An error is never put down to a document the model has a proper reply to.
LEMMA CausalStep ==
    ASSUME ExtractionAssumption, ExtractionInv, [Next]_vars
    PROVE  Causal'
<1> USE DEF ExtractionInv, TypeOK, Causal, DocsIn
<1>1. ASSUME NEW b \in Batches, Begin(b) PROVE Causal'
  BY <1>1 DEF Begin, sending, extracted
<1>2. ASSUME NEW b \in Batches, Usable(b) PROVE Causal'
  <2>1. PICK reply \in [Asked(b) -> Aspects] :
           /\ \A d \in Asked(b) \ Poison : ~Rejected(reply[d])
           /\ Record(reply)
    BY <1>2 DEF Usable
  <2>2. \A d \in Asked(b) : d \in DocsIn(b) /\ Untouched(d)
    BY <1>2 DEF Usable, Asking, Asked, Progress, Bookkeeping
  <2>3. /\ \A d \in Docs \ Asked(b) : errors'[d] = errors[d]
        /\ \A d \in Asked(b) : d \notin Poison => errors'[d] = "none"
    BY <1>2, <2>1, <2>2, RecordReply DEF Usable
  <2> QED
    BY <1>2, <2>3 DEF Usable, Answered, End
<1>3. ASSUME NEW b \in Batches, Retry(b) PROVE Causal'
  BY <1>3 DEF Retry, extracted
<1>4. ASSUME NEW b \in Batches, Unusable(b) PROVE Causal'
  <2>1. CASE FallsBack(b)
    BY <1>4, <2>1 DEF Unusable, StartFallback
  <2>2. CASE ~FallsBack(b) /\ phase[b] = "single"
    BY <1>4, <2>2 DEF Unusable, SingleFails, Answered, Asked
  <2>3. CASE ~FallsBack(b) /\ phase[b] = "batch"
    <3>1. PICK e \in DocsIn(b) : e \in Poison
      BY <1>4, <2>3 DEF Unusable, Asked
    <3>2. failFast \/ \A d \in DocsIn(b) : d = e
      BY <2>3, <3>1, NoPeers DEF FallsBack
    <3> QED
      BY <1>4, <2>3, <3>1, <3>2 DEF Unusable, End
  <2> QED
    BY <1>4, <2>1, <2>2, <2>3 DEF Unusable, Asking
<1>5. ASSUME NEW b \in Batches, Unavailable(b) PROVE Causal'
  BY <1>5 DEF Unavailable, SingleFails, Answered, End, Causes
<1>6. ASSUME NEW b \in Batches, Escape(b) PROVE Causal'
  BY <1>6 DEF Escape, End, extracted
<1>7. ASSUME NEW b \in Batches, NextSingle(b) PROVE Causal'
  BY <1>7 DEF NextSingle, End, sending, extracted
<1>8. ASSUME NEW b \in Batches, Resend(b) PROVE Causal'
  BY <1>8 DEF Resend, extracted
<1>9. CASE UNCHANGED vars
  BY <1>9 DEF vars, sending, extracted
<1> QED
  BY <1>1, <1>2, <1>3, <1>4, <1>5, <1>6, <1>7, <1>8, <1>9 DEF Next, BatchStep, Gathered

-----------------------------------------------------------------------------
(* The number of requests. *)

\* The calls of create() for which the documents the fallback has begun with allow, but
\* for one document, and those of a whole batch.
Allowed(b, T) == (MaxRetries + 1) * (Cardinality(DocsIn(b)) - Cardinality(T))

Bound(b) == (MaxRetries + 1) * (1 + Cardinality(DocsIn(b)))

\* The requests that n calls of create() may send.
Worth(n) == (SdkRetries + 1) * n

\* What a batch has sent is accounted for by its place, its documents left, the calls made
\* for the request it waits for and what the client has repeated of the current one.
AccountedFor(b) ==
    /\ failFast => /\ attempt[b] = 0 /\ resent[b] = 0
                   /\ phase[b] \notin {"next", "single"}
    /\ phase[b] \in {"queued", "next"} => attempt[b] = 0 /\ resent[b] = 0
    /\ phase[b] = "queued" => requests[b] = 0
    /\ phase[b] = "batch" => /\ requests[b] <= Worth(attempt[b]) + resent[b]
                             /\ failFast => requests[b] = 0
    /\ phase[b] = "next" => requests[b] <= Worth(Allowed(b, todo[b]) + (MaxRetries + 1))
    /\ phase[b] = "single" => requests[b] <= Worth(Allowed(b, todo[b]) + attempt[b]) + resent[b]
    /\ phase[b] = "done" => requests[b] <= IF failFast THEN 1 ELSE Worth(Bound(b))

Accounted == \A b \in Batches : AccountedFor(b)

LEMMA WorthGrows ==
    ASSUME ExtractionAssumption
    PROVE  /\ Worth(0) = 0
           /\ \A n \in Nat : Worth(n) \in Nat /\ Worth(n + 1) = Worth(n) + SdkRetries + 1
           /\ \A m, n \in Nat : m <= n => Worth(m) <= Worth(n)
<1>1. \A k, n \in Nat : (k + 1) * n \in Nat /\ (k + 1) * (n + 1) = (k + 1) * n + k + 1
  OBVIOUS
<1>2. \A k, m, n \in Nat : m <= n => (k + 1) * m <= (k + 1) * n
  OBVIOUS
<1>3. \A k \in Nat : (k + 1) * 0 = 0
  OBVIOUS
<1> QED
  BY <1>1, <1>2, <1>3 DEF Worth, ExtractionAssumption

\* One call more, if what the client has repeated of it is counted apart.
LEMMA OneCallMore ==
    ASSUME ExtractionAssumption, ExtractionInv, NEW b \in Batches, NEW n \in Nat,
           requests[b] <= Worth(n) + resent[b]
    PROVE  /\ requests[b] + 1 <= Worth(n + 1)
           /\ \A m \in Nat : n + 1 <= m => requests[b] + 1 <= Worth(m)
<1>1. /\ requests[b] \in Nat /\ resent[b] \in Nat /\ resent[b] <= SdkRetries
      /\ SdkRetries \in Nat
  BY DEF ExtractionAssumption, ExtractionInv, TypeOK
<1>2. PICK w \in Nat : w = Worth(n) /\ Worth(n + 1) = w + SdkRetries + 1
  BY WorthGrows
<1>3. requests[b] + 1 <= Worth(n + 1) /\ Worth(n + 1) \in Nat
  BY <1>1, <1>2
<1>4. ASSUME NEW m \in Nat, n + 1 <= m PROVE requests[b] + 1 <= Worth(m)
  <2>0. n + 1 \in Nat
    OBVIOUS
  <2>1. Worth(n + 1) <= Worth(m) /\ Worth(m) \in Nat
    BY <1>4, <2>0, WorthGrows
  <2> QED
    BY <1>1, <1>3, <2>1
<1> QED
  BY <1>3, <1>4

LEMMA AllowedRange ==
    ASSUME ExtractionAssumption, NEW b \in Batches, NEW T \in SUBSET DocsIn(b)
    PROVE  /\ Allowed(b, T) \in Nat
           /\ Bound(b) \in Nat
           /\ Allowed(b, T) + (MaxRetries + 1) <= Bound(b)
<1>1. IsFiniteSet(DocsIn(b)) /\ IsFiniteSet(T) /\ Cardinality(T) <= Cardinality(DocsIn(b))
  BY FS_Subset DEF ExtractionAssumption, DocsIn
<1>2. Cardinality(DocsIn(b)) \in Nat /\ Cardinality(T) \in Nat
  BY <1>1, FS_CardinalityType
<1>3. \A m, n, t \in Nat : t <= n =>
         /\ (m + 1) * (n - t) \in Nat
         /\ (m + 1) * (1 + n) \in Nat
         /\ (m + 1) * (n - t) + (m + 1) <= (m + 1) * (1 + n)
  OBVIOUS
<1> QED
  BY <1>1, <1>2, <1>3 DEF Allowed, Bound, ExtractionAssumption

LEMMA AllowedAll ==
    ASSUME ExtractionAssumption, NEW b \in Batches
    PROVE  Allowed(b, DocsIn(b)) = 0
<1>1. Cardinality(DocsIn(b)) \in Nat
  BY FS_Subset, FS_CardinalityType DEF ExtractionAssumption, DocsIn
<1>2. \A m, n \in Nat : (m + 1) * (n - n) = 0
  OBVIOUS
<1> QED
  BY <1>1, <1>2 DEF Allowed, ExtractionAssumption

LEMMA AllowedNext ==
    ASSUME ExtractionAssumption, NEW b \in Batches, NEW T \in SUBSET DocsIn(b), NEW d \in T
    PROVE  Allowed(b, T \ {d}) = Allowed(b, T) + (MaxRetries + 1)
<1>1. IsFiniteSet(DocsIn(b)) /\ IsFiniteSet(T)
  BY FS_Subset DEF ExtractionAssumption, DocsIn
<1>2. Cardinality(T \ {d}) = Cardinality(T) - 1
  BY <1>1, FS_RemoveElement
<1>3. Cardinality(DocsIn(b)) \in Nat /\ Cardinality(T) \in Nat
  BY <1>1, FS_CardinalityType
<1>4. \A m, n, t \in Nat : (m + 1) * (n - (t - 1)) = (m + 1) * (n - t) + (m + 1)
  OBVIOUS
<1> QED
  BY <1>2, <1>3, <1>4 DEF Allowed, ExtractionAssumption

\* A call that ends a request: what it may have sent, by the place of the batch.
LEMMA LastCall ==
    ASSUME ExtractionAssumption, ExtractionInv, Accounted, NEW b \in Batches, Asking(b)
    PROVE  /\ requests[b] + 1 <= IF failFast THEN 1 ELSE Worth(Bound(b))
           /\ failFast => phase[b] = "batch"
           /\ phase[b] = "batch" => requests[b] + 1 <= Worth(MaxRetries + 1)
           /\ phase[b] = "single" =>
                 requests[b] + 1 <= Worth(Allowed(b, todo[b]) + (MaxRetries + 1))
<1>1. /\ MaxRetries \in Nat /\ attempt[b] \in Nat /\ attempt[b] <= MaxRetries
      /\ phase[b] \in {"batch", "single"} /\ requests[b] \in Nat
  BY DEF ExtractionAssumption, ExtractionInv, TypeOK, Asking
<1>2. CASE phase[b] = "batch"
  <2>1. requests[b] <= Worth(attempt[b]) + resent[b] /\ (failFast => requests[b] = 0)
    BY <1>2 DEF Accounted, AccountedFor
  <2>2. MaxRetries + 1 <= Bound(b) /\ Bound(b) \in Nat
    BY <1>1, AllowedAll, AllowedRange
  <2>3. attempt[b] + 1 <= MaxRetries + 1 /\ attempt[b] + 1 <= Bound(b) /\ MaxRetries + 1 \in Nat
    BY <1>1, <2>2
  <2>4. requests[b] + 1 <= Worth(MaxRetries + 1) /\ requests[b] + 1 <= Worth(Bound(b))
    BY <1>1, <2>1, <2>2, <2>3, OneCallMore
  <2> QED
    BY <1>1, <1>2, <2>1, <2>4
<1>3. CASE phase[b] = "single"
  <2>1. ~failFast /\ requests[b] <= Worth(Allowed(b, todo[b]) + attempt[b]) + resent[b]
    BY <1>3 DEF Accounted, AccountedFor
  <2>2. PICK a \in Nat : /\ a = Allowed(b, todo[b]) /\ Bound(b) \in Nat
                         /\ a + (MaxRetries + 1) <= Bound(b)
    BY <1>3, AllowedRange DEF ExtractionInv, Bookkeeping
  <2>3. /\ a + attempt[b] \in Nat /\ a + (MaxRetries + 1) \in Nat
        /\ (a + attempt[b]) + 1 <= a + (MaxRetries + 1)
        /\ (a + attempt[b]) + 1 <= Bound(b)
    BY <1>1, <2>2
  <2>4. /\ requests[b] + 1 <= Worth(a + (MaxRetries + 1))
        /\ requests[b] + 1 <= Worth(Bound(b))
    BY <2>1, <2>2, <2>3, OneCallMore
  <2> QED
    BY <1>3, <2>1, <2>2, <2>4
<1> QED
  BY <1>1, <1>2, <1>3

\* The other batches are accounted for as before.
LEMMA OneBatchMoves ==
    ASSUME Accounted, NEW b \in Batches, AccountedFor(b)',
           \A c \in Batches \ {b} :
              /\ phase'[c] = phase[c] /\ attempt'[c] = attempt[c] /\ resent'[c] = resent[c]
              /\ todo'[c] = todo[c] /\ requests'[c] = requests[c],
           failFast' = failFast
    PROVE  Accounted'
BY DEF Accounted, AccountedFor

\* The last call of a request ends the extraction of its batch.
LEMMA EndAccounted ==
    ASSUME ExtractionAssumption, ExtractionInv, Accounted, NEW b \in Batches, Asking(b),
           Sent(b), phase' = [phase EXCEPT ![b] = "done"],
           UNCHANGED <<failFast, todo>>,
           attempt' = attempt \/ attempt' = [attempt EXCEPT ![b] = 0]
    PROVE  Accounted'
<1>1. requests[b] + 1 <= IF failFast THEN 1 ELSE Worth(Bound(b))
  BY LastCall
<1>2. AccountedFor(b)'
  BY <1>1 DEF ExtractionInv, TypeOK, Accounted, AccountedFor, Sent, Asking
<1> QED
  BY <1>2, OneBatchMoves DEF ExtractionInv, TypeOK, Sent

\* It ends the request for one document, or for a batch that is asked for one by one.
LEMMA NextAccounted ==
    ASSUME ExtractionAssumption, ExtractionInv, Accounted, NEW b \in Batches, Asking(b),
           ~failFast, Sent(b), phase' = [phase EXCEPT ![b] = "next"],
           attempt' = [attempt EXCEPT ![b] = 0], failFast' = failFast,
           IF phase[b] = "single" THEN todo' = todo
                                  ELSE todo' = [todo EXCEPT ![b] = DocsIn(b)]
    PROVE  Accounted'
<1>1. requests[b] + 1 <= Worth(Allowed(b, todo'[b]) + (MaxRetries + 1))
  <2>1. CASE phase[b] = "single"
    BY <2>1, LastCall
  <2>2. CASE phase[b] = "batch"
    <3>1. todo'[b] = DocsIn(b)
      BY <2>2 DEF ExtractionInv, TypeOK
    <3>2. Allowed(b, todo'[b]) + (MaxRetries + 1) = MaxRetries + 1
      BY <3>1, AllowedAll DEF ExtractionAssumption
    <3> QED
      BY <2>2, <3>2, LastCall
  <2> QED
    BY <2>1, <2>2 DEF Asking
<1>2. AccountedFor(b)'
  BY <1>1 DEF ExtractionInv, TypeOK, AccountedFor, Sent
<1> QED
  BY <1>2, OneBatchMoves DEF ExtractionInv, TypeOK, Sent

LEMMA ResendAccounted ==
    ASSUME ExtractionAssumption, ExtractionInv, Accounted, NEW b \in Batches, Resend(b)
    PROVE  Accounted'
<1>1. PICK w \in Nat : \/ phase[b] = "batch" /\ w = Worth(attempt[b])
                       \/ phase[b] = "single" /\ w = Worth(Allowed(b, todo[b]) + attempt[b])
  <2>1. CASE phase[b] = "batch"
    BY <2>1, WorthGrows DEF ExtractionInv, TypeOK
  <2>2. CASE phase[b] = "single"
    <3>1. Allowed(b, todo[b]) \in Nat /\ attempt[b] \in Nat
      BY <2>2, AllowedRange DEF ExtractionInv, TypeOK, Bookkeeping
    <3>2. Allowed(b, todo[b]) + attempt[b] \in Nat
      BY <3>1
    <3> QED
      BY <2>2, <3>2, WorthGrows
  <2> QED
    BY <2>1, <2>2 DEF Resend, Asking
<1>2. AccountedFor(b)'
  BY <1>1 DEF ExtractionInv, TypeOK, Accounted, AccountedFor, Resend
<1> QED
  BY <1>2, OneBatchMoves DEF ExtractionInv, TypeOK, Resend

LEMMA RetryAccounted ==
    ASSUME ExtractionAssumption, ExtractionInv, Accounted, NEW b \in Batches, Retry(b)
    PROVE  Accounted'
<1> DEFINE k == attempt[b]
<1>1. k \in Nat /\ ~failFast
  BY DEF ExtractionInv, TypeOK, Retry
<1>2. /\ phase[b] = "batch" => requests[b] + 1 <= Worth(k + 1)
      /\ phase[b] = "single" => requests[b] + 1 <= Worth(Allowed(b, todo[b]) + (k + 1))
  <2>1. CASE phase[b] = "batch"
    BY <1>1, <2>1, OneCallMore DEF Accounted, AccountedFor
  <2>2. CASE phase[b] = "single"
    <3>1. PICK a \in Nat : a = Allowed(b, todo[b])
      BY <2>2, AllowedRange DEF ExtractionInv, Bookkeeping
    <3>2. a + k \in Nat /\ (a + k) + 1 = a + (k + 1)
      BY <1>1, <3>1
    <3>3. requests[b] <= Worth(a + k) + resent[b]
      BY <2>2, <3>1 DEF Accounted, AccountedFor
    <3>4. requests[b] + 1 <= Worth((a + k) + 1)
      BY <3>2, <3>3, OneCallMore
    <3> QED
      BY <2>2, <3>1, <3>2, <3>4
  <2> QED
    BY <2>1, <2>2
<1>3. /\ attempt'[b] = k + 1 /\ resent'[b] = 0 /\ requests'[b] = requests[b] + 1
      /\ phase' = phase /\ todo' = todo /\ failFast' = failFast
      /\ phase[b] \in {"batch", "single"}
  BY DEF ExtractionInv, TypeOK, Retry, Sent, Asking
<1>4. \A n \in Nat : Worth(n) + 0 = Worth(n)
  BY WorthGrows
<1>5. k + 1 \in Nat /\ (phase[b] = "single" => Allowed(b, todo[b]) + (k + 1) \in Nat)
  BY <1>1, AllowedRange DEF ExtractionInv, Bookkeeping
<1> HIDE DEF k
<1>6. AccountedFor(b)'
  BY <1>1, <1>2, <1>3, <1>4, <1>5 DEF Accounted, AccountedFor
<1> QED
  BY <1>6, OneBatchMoves DEF ExtractionInv, TypeOK, Retry, Sent

\* The fallback asks for one document more, and may spend a request's calls on it.
LEMMA SingleAccounted ==
    ASSUME ExtractionAssumption, ExtractionInv, Accounted, NEW b \in Batches, NextSingle(b)
    PROVE  Accounted'
<1>1. phase[b] = "next" /\ ~failFast /\ attempt[b] = 0 /\ resent[b] = 0
  BY DEF NextSingle, Accounted, AccountedFor
<1>2. todo[b] \in SUBSET DocsIn(b)
  BY <1>1 DEF ExtractionInv, Bookkeeping
<1>3. requests[b] <= Worth(Allowed(b, todo[b]) + (MaxRetries + 1)) /\ requests[b] \in Nat
  BY <1>1 DEF Accounted, AccountedFor, ExtractionInv, TypeOK
<1>4. CASE todo[b] = {}
  <2>1. PICK a \in Nat : /\ a = Allowed(b, todo[b]) + (MaxRetries + 1)
                         /\ a <= Bound(b) /\ Bound(b) \in Nat
    BY <1>2, AllowedRange DEF ExtractionAssumption
  <2>2. Worth(a) <= Worth(Bound(b)) /\ Worth(a) \in Nat /\ Worth(Bound(b)) \in Nat
    BY <2>1, WorthGrows
  <2>3. requests[b] <= Worth(Bound(b))
    BY <1>3, <2>1, <2>2
  <2>4. AccountedFor(b)'
    BY <1>1, <1>4, <2>3 DEF NextSingle, End, AccountedFor, sending, ExtractionInv, TypeOK
  <2> QED
    BY <1>4, <2>4, OneBatchMoves DEF NextSingle, End, sending, ExtractionInv, TypeOK
<1>5. CASE todo[b] # {}
  <2>1. PICK d \in todo[b] : todo' = [todo EXCEPT ![b] = @ \ {d}]
    BY <1>5 DEF NextSingle
  <2>2. PICK a \in Nat : /\ a = Allowed(b, todo[b] \ {d})
                         /\ a = Allowed(b, todo[b]) + (MaxRetries + 1)
    BY <1>2, <2>1, AllowedNext, AllowedRange
  <2>3. Worth(a + 0) + 0 = Worth(a)
    BY <2>2, WorthGrows
  <2>4. requests[b] <= Worth(Allowed(b, todo[b] \ {d}) + attempt[b]) + resent[b]
    BY <1>1, <1>3, <2>2, <2>3
  <2>5. AccountedFor(b)'
    BY <1>1, <1>5, <2>1, <2>4 DEF NextSingle, AccountedFor, sending, ExtractionInv, TypeOK
  <2> QED
    BY <1>5, <2>1, <2>5, OneBatchMoves DEF NextSingle, sending, ExtractionInv, TypeOK
<1> QED
  BY <1>4, <1>5

LEMMA AccountedStep ==
    ASSUME ExtractionAssumption, ExtractionInv, Accounted, [Next]_vars
    PROVE  Accounted'
<1>1. ASSUME NEW b \in Batches, Begin(b) PROVE Accounted'
  <2>1. Worth(0) + 0 = 0
    BY WorthGrows
  <2>2. AccountedFor(b)'
    BY <1>1, <2>1 DEF Begin, sending, ExtractionInv, TypeOK, Accounted, AccountedFor
  <2> QED
    BY <1>1, <2>2, OneBatchMoves DEF Begin, sending, ExtractionInv, TypeOK
<1>2. ASSUME NEW b \in Batches, Usable(b) PROVE Accounted'
  <2>1. CASE phase[b] = "batch"
    BY <1>2, <2>1, EndAccounted DEF Usable, Answered, End
  <2>2. CASE phase[b] = "single"
    BY <1>2, <2>2, NextAccounted DEF Usable, Answered, Accounted, AccountedFor
  <2> QED
    BY <1>2, <2>1, <2>2 DEF Usable, Asking
<1>3. ASSUME NEW b \in Batches, Retry(b) PROVE Accounted'
  BY <1>3, RetryAccounted
<1>4. ASSUME NEW b \in Batches, Unusable(b) PROVE Accounted'
  <2>1. CASE FallsBack(b)
    BY <1>4, <2>1, NextAccounted DEF Unusable, FallsBack, StartFallback
  <2>2. CASE ~FallsBack(b) /\ phase[b] = "single"
    BY <1>4, <2>2, NextAccounted DEF Unusable, SingleFails, Answered, Accounted, AccountedFor
  <2>3. CASE ~FallsBack(b) /\ phase[b] = "batch"
    BY <1>4, <2>3, EndAccounted DEF Unusable, End
  <2> QED
    BY <1>4, <2>1, <2>2, <2>3 DEF Unusable, Asking
<1>5. ASSUME NEW b \in Batches, Unavailable(b) PROVE Accounted'
  <2>1. CASE phase[b] = "single"
    BY <1>5, <2>1, NextAccounted DEF Unavailable, SingleFails, Answered, Accounted, AccountedFor
  <2>2. CASE phase[b] = "batch"
    BY <1>5, <2>2, EndAccounted DEF Unavailable, End
  <2> QED
    BY <1>5, <2>1, <2>2 DEF Unavailable, Asking
<1>6. ASSUME NEW b \in Batches, Escape(b) PROVE Accounted'
  BY <1>6, EndAccounted DEF Escape, End
<1>7. ASSUME NEW b \in Batches, NextSingle(b) PROVE Accounted'
  BY <1>7, SingleAccounted
<1>8. ASSUME NEW b \in Batches, Resend(b) PROVE Accounted'
  BY <1>8, ResendAccounted
<1>9. CASE UNCHANGED vars
  BY <1>9 DEF vars, sending, Accounted, AccountedFor
<1> QED
  BY <1>1, <1>2, <1>3, <1>4, <1>5, <1>6, <1>7, <1>8, <1>9 DEF Next, BatchStep, Gathered

\* The bound on requests at every place, not only when a batch is done.
LEMMA AccountedBounds ==
    ASSUME ExtractionAssumption, ExtractionInv, Accounted
    PROVE  RequestsBounded
<1> SUFFICES ASSUME NEW b \in Batches
             PROVE  requests[b] <= IF failFast THEN 1 ELSE Worth(Bound(b))
  BY DEF RequestsBounded, Worth, Bound
<1>1. requests[b] \in Nat /\ phase[b] \in Phases
  BY DEF ExtractionInv, TypeOK
<1>2. CASE phase[b] = "queued"
  <2>1. Worth(Bound(b)) \in Nat
    BY AllowedAll, AllowedRange, WorthGrows
  <2> QED
    BY <1>2, <2>1 DEF Accounted, AccountedFor
<1>3. CASE Asking(b)
  <2>1. requests[b] + 1 <= IF failFast THEN 1 ELSE Worth(Bound(b))
    BY <1>3, LastCall
  <2>2. Worth(Bound(b)) \in Nat
    BY AllowedAll, AllowedRange, WorthGrows
  <2> QED
    BY <1>1, <2>1, <2>2
<1>4. CASE phase[b] = "next"
  <2>1. PICK a \in Nat : /\ a = Allowed(b, todo[b]) + (MaxRetries + 1)
                         /\ a <= Bound(b) /\ Bound(b) \in Nat
    BY <1>4, AllowedRange DEF ExtractionInv, Bookkeeping, ExtractionAssumption
  <2>2. Worth(a) <= Worth(Bound(b)) /\ Worth(a) \in Nat /\ Worth(Bound(b)) \in Nat
    BY <2>1, WorthGrows
  <2> QED
    BY <1>1, <1>4, <2>1, <2>2 DEF Accounted, AccountedFor
<1>5. CASE phase[b] = "done"
  BY <1>5 DEF Accounted, AccountedFor
<1> QED
  BY <1>1, <1>2, <1>3, <1>4, <1>5 DEF Phases, Asking

-----------------------------------------------------------------------------
LEMMA Invariance == ExtractionAssumption => (Spec => []ExtractionInv)
<1> SUFFICES ASSUME ExtractionAssumption PROVE Spec => []ExtractionInv
  OBVIOUS
<1>1. ExtractionInv /\ [Next]_vars => ExtractionInv'
  BY TypeStep, ProgressStep, CausalStep DEF ExtractionInv
<1> QED
  BY <1>1, InitExtraction, PTL DEF Spec

\* Every variable of the extraction keeps its type.
THEOREM TypeCorrect == Spec => []TypeOK
<1>1. ExtractionInv => TypeOK
  BY DEF ExtractionInv
<1> QED
  BY <1>1, Invariance, ExtractionAssumption, PTL

\* Whatever replies and failures the batches meet, retries and fallback neither lose a
\* document nor deliver one twice.
THEOREM DocumentsOnce == Spec => []EachDocumentOnce
<1>1. ExtractionInv => EachDocumentOnce
  BY DEF ExtractionInv, Progress, EachDocumentOnce, Recorded, TypeOK
<1> QED
  BY <1>1, Invariance, ExtractionAssumption, PTL

\* No number of documents that spoil replies fails a document that does not.
THEOREM PeersStayIsolated == Spec => []PeersIsolated
<1>1. ExtractionInv => PeersIsolated
  BY ExtractionAssumption
     DEF ExtractionInv, Causal, PeersIsolated, TypeOK, Outcomes, ExtractionAssumption
<1> QED
  BY <1>1, Invariance, ExtractionAssumption, PTL

\* What a stage delivers is whole and spoiled by no peer, for any batches.
THEOREM ResultsCorrect == Spec => []ResultsAreSound
  BY DocumentsOnce, PeersStayIsolated, PTL DEF ResultsAreSound

\* Counting what the client itself repeats, retries and fallback send at most
\* (SdkRetries + 1) * (MaxRetries + 1) requests per document and as many for the batch,
\* and an acceptance run one, for any batches and limits.
THEOREM RequestsStayBounded == Spec => []RequestsBounded
<1>1. Init => Accounted
  <2>1. ExtractionAssumption => Worth(0) + 0 = 0
    BY WorthGrows
  <2> QED
    BY <2>1, ExtractionAssumption DEF Init, Accounted, AccountedFor
<1>2. ExtractionInv /\ Accounted /\ [Next]_vars => Accounted'
  BY AccountedStep, ExtractionAssumption
<1>3. ExtractionInv /\ Accounted => RequestsBounded
  BY AccountedBounds, ExtractionAssumption
<1> QED
  BY <1>1, <1>2, <1>3, Invariance, ExtractionAssumption, PTL DEF Spec
=============================================================================
