------------------------------- MODULE Retrieval -------------------------------
(***************************************************************************)
(* RagRetrievalService.execute (backend/app/agent/tool_rag.py): searches of *)
(* the agent, one after the other, while the weekly job writes the two      *)
(* stores they read.                                                        *)
(*                                                                          *)
(* The steps of a search are its reads of what the job writes: one Milvus   *)
(* search per requested SKU, and the hydration of the best hits from        *)
(* PostgreSQL.  Between them the job may do anything.  The similarity of a  *)
(* hit is a free choice; the other filters of a request (aspect, sentiment, *)
(* weeks, quality) are copied with a mention from PostgreSQL to Milvus and  *)
(* never change, so the SKU stands for all of them.                         *)
(***************************************************************************)
EXTENDS Pipeline

CONSTANT MaxTopK     \* max_rag_top_k

ASSUME RetrievalAssumption == MaxTopK \in Nat \ {0}

VARIABLES
    at,         \* where the search is; its status once it is over
    asked,      \* sku_codes as resolved
    topK,       \* top_k
    left,       \* SKUs not searched yet
    hits,       \* hits_by_id
    evidence,   \* what is delivered
    indexed     \* ids of the asked SKUs with an embed_text when the search began

searchVars == <<at, asked, topK, left, hits, evidence, indexed>>
retrievalVars == <<vars, searchVars>>

RetrievalTypeOK ==
    /\ TypeOK
    /\ at \in {"idle", "search", "hydrate", "success", "partial", "empty"}
    /\ asked \subseteq Enabled
    /\ topK \in 1..MaxTopK
    /\ left \subseteq asked
    /\ hits \subseteq MentionIds
    /\ evidence \subseteq hits
    /\ indexed \subseteq MentionIds

Forgotten ==
    /\ at' = "idle"
    /\ asked' = {}
    /\ topK' = 1
    /\ left' = {}
    /\ hits' = {}
    /\ evidence' = {}
    /\ indexed' = {}

RetrievalInit ==
    /\ Init
    /\ at = "idle"
    /\ asked = {}
    /\ topK = 1
    /\ left = {}
    /\ hits = {}
    /\ evidence = {}
    /\ indexed = {}

-----------------------------------------------------------------------------
\* The arguments are checked, the SKUs resolved (none named: all enabled ones) and the
\* query embedded.  What ends here in an error has read nothing and is left out.
StartSearch(S, k) ==
    /\ at = "idle"
    /\ k <= MaxTopK
    /\ asked' = IF S = {} THEN Enabled ELSE S
    /\ asked' # {} /\ asked' \subseteq Enabled
    /\ at' = "search"
    /\ topK' = k
    /\ left' = asked'
    /\ indexed' = {m \in embedText : SkuOf[m.doc] \in asked'}
    /\ UNCHANGED <<vars, hits, evidence>>

\* The k best of S, or all of S.
Best(B, S, k) ==
    /\ B \subseteq S
    /\ Cardinality(B) = k \/ (Cardinality(B) < k /\ B = S)

OfSku(s) == {m \in vectors : SkuOf[m.doc] = s}

\* Mutant: the hits of a SKU replace those of the SKU before.
SearchLastSku(s) ==
    /\ at = "search"
    /\ s \in left
    /\ left' = left \ {s}
    /\ at' = IF left = {s} THEN "hydrate" ELSE at
    /\ \E B \in SUBSET OfSku(s) : Best(B, OfSku(s), topK) /\ hits' = B
    /\ UNCHANGED <<vars, asked, topK, evidence, indexed>>

\* MilvusRepository.search in the partition of one SKU.
SearchSku(s) ==
    /\ at = "search"
    /\ s \in left
    /\ left' = left \ {s}
    /\ at' = IF left = {s} THEN "hydrate" ELSE at
    /\ \E B \in SUBSET OfSku(s) : Best(B, OfSku(s), topK) /\ hits' = hits \cup B
    /\ UNCHANGED <<vars, asked, topK, evidence, indexed>>

\* hydrate_mentions joins a mention to its document and its enabled SKU; one that is not
\* of the request is left out afterwards.
Hydrated(R) == {m \in R \cap mentions : SkuOf[m.doc] \in Enabled \cap asked}

\* The best top_k hits are hydrated.  What is left out makes the result partial, or empty.
Hydrate ==
    /\ at = "hydrate"
    /\ \E R \in SUBSET hits :
          /\ Best(R, hits, topK)
          /\ evidence' = Hydrated(R)
          /\ at' = IF Hydrated(R) = {} THEN "empty"
                   ELSE IF Hydrated(R) # R THEN "partial"
                   ELSE "success"
    /\ UNCHANGED <<vars, asked, topK, left, hits, indexed>>

\* A read of either store raises or times out and nothing is delivered; or the search is
\* over and the next one may begin.
EndSearch ==
    /\ at # "idle"
    /\ Forgotten
    /\ UNCHANGED vars

SearchStep ==
    \/ \E S \in SUBSET Skus, k \in 1..MaxTopK : StartSearch(S, k)
    \/ \E s \in Skus : SearchSku(s)
    \/ Hydrate
    \/ EndSearch

RetrievalNext == (Next /\ UNCHANGED searchVars) \/ SearchStep

RetrievalSpec == RetrievalInit /\ [][RetrievalNext]_retrievalVars

-----------------------------------------------------------------------------
\* Both stores as the search needs them: every hit has its row when it is hydrated, for
\* the job commits a mention before it upserts its vector and the search reads in the
\* other order.  So no result is partial, nor empty though there were hits.
NothingDropped ==
    /\ at # "partial"
    /\ at = "empty" => hits = {}
    /\ \A m \in evidence : m \in vectors /\ SkuOf[m.doc] \in asked

\* What was marked as embedded when the search began is found: every such mention of a
\* requested SKU is delivered, unless top_k others are.
IndexedIsFound ==
    at \in {"success", "partial", "empty"} =>
        \A m \in indexed : SkuOf[m.doc] \in asked =>
            m \in evidence \/ Cardinality(evidence) = topK

\* Both together: a search tells the truth about both stores, however many runners
\* of the job overlap with it.
SearchesAgree == NothingDropped /\ IndexedIsFound
=============================================================================
