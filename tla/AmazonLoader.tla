----------------------------- MODULE AmazonLoader -----------------------------
(***************************************************************************)
(* The offline import of pipelines/ingestion/amazon_loader.py and the seed  *)
(* of the SKU catalogue it depends on.  A loader reads the review file line *)
(* by line, keeps the usable rows in a batch, and inserts and commits every *)
(* full batch with ON CONFLICT (platform, external_id) DO NOTHING.  It may  *)
(* be stopped anywhere and is started again from the first line; two of     *)
(* them may run at the same time.                                           *)
(*                                                                          *)
(* The insert and its commit are one step: a second loader that proposes an *)
(* external_id of an open transaction waits for its outcome on the unique   *)
(* index, so the outcome is always as if one batch came after the other.    *)
(***************************************************************************)
EXTENDS Integers, Sequences, FiniteSetsExt

CONSTANTS
    Skus,       \* sku_code values of seed.py
    Seeded,     \* SKUs an earlier seed has enabled
    NoSku,      \* neither asin nor parent_asin is a target
    File,       \* the review file: what the loader makes of each line
    Loaders,    \* processes that may run the loader
    BatchSize,  \* BATCH_SIZE
    Limits,     \* values of --limit (0: not given)
    MaxStops    \* bound on loaders that are stopped or fail

\* A line: does it parse, the SKU its ASINs name, is the body long enough, and
\* its external_id (review_id, or asin and user together).
Line == [json : BOOLEAN, sku : Skus \cup {NoSku}, long : BOOLEAN, ext : Nat]

ASSUME LoaderAssumption ==
    /\ IsFiniteSet(Skus)
    /\ NoSku \notin Skus
    /\ Seeded \subseteq Skus
    /\ File \in Seq(Line)
    /\ BatchSize \in Nat \ {0}
    /\ IsFiniteSet(Loaders)
    /\ Limits \subseteq Nat
    /\ MaxStops \in Nat

VARIABLES
    enabled,    \* SKUs with a row and dashboard_enabled
    documents,  \* external_id of each row of documents
    load,       \* what each loader holds in memory
    stops,      \* loaders stopped so far
    earlier     \* rows inserted by runs that were stopped

loaderVars == <<enabled, documents, load, stops, earlier>>

Idle == [pc |-> "idle", next |-> 1, limit |-> 0, dry |-> FALSE, skus |-> {},
         batch |-> {}, scanned |-> 0, noMatch |-> 0, tooShort |-> 0,
         inserted |-> 0, skipped |-> 0]

Load == [pc : {"idle", "scan", "flush", "last", "done"}, next : Nat \ {0},
         limit : Nat, dry : BOOLEAN, skus : SUBSET Skus,
         batch : SUBSET DOMAIN File, scanned : Nat, noMatch : Nat,
         tooShort : Nat, inserted : Nat, skipped : Int]

LoaderTypeOK ==
    /\ enabled \subseteq Skus
    /\ documents \subseteq Nat
    /\ load \in [Loaders -> Load]
    /\ stops \in 0..MaxStops
    /\ earlier \in Nat

LoaderInit ==
    /\ enabled = Seeded
    /\ documents = {}
    /\ load = [l \in Loaders |-> Idle]
    /\ stops = 0
    /\ earlier = 0

-----------------------------------------------------------------------------
\* seed.py: every SKU is upserted and enabled in one transaction.
Seed ==
    /\ enabled # Skus
    /\ enabled' = Skus
    /\ UNCHANGED <<documents, load, stops, earlier>>

\* The sku_code -> id map is read once, before the first line.
StartLoad(l) ==
    /\ load[l].pc = "idle"
    /\ \E limit \in Limits, dry \in BOOLEAN :
          load' = [load EXCEPT ![l] = [Idle EXCEPT !.pc = "scan", !.limit = limit,
                                                   !.dry = dry, !.skus = enabled]]
    /\ UNCHANGED <<enabled, documents, stops, earlier>>

Usable(l, i) == File[i].sku \in load[l].skus /\ File[i].long

\* One line: unparsable, past the limit, no target, unknown SKU (which no
\* counter records), too short, or one more row of the batch.
ScanLine(l) ==
    LET me == load[l]
        i == me.next
        counted == [me EXCEPT !.next = i + 1, !.scanned = @ + 1]
    IN  /\ me.pc = "scan"
        /\ i <= Len(File)
        /\ load' = [load EXCEPT ![l] =
              IF ~File[i].json THEN [me EXCEPT !.next = i + 1]
              ELSE IF me.limit # 0 /\ counted.scanned > me.limit
                   THEN [counted EXCEPT !.pc = "last"]
              ELSE IF File[i].sku = NoSku THEN [counted EXCEPT !.noMatch = @ + 1]
              ELSE IF File[i].sku \notin me.skus THEN counted
              ELSE IF ~File[i].long THEN [counted EXCEPT !.tooShort = @ + 1]
              ELSE [counted EXCEPT
                      !.batch = @ \cup {i},
                      !.pc = IF Cardinality(me.batch) + 1 >= BatchSize /\ ~me.dry
                             THEN "flush" ELSE "scan"]]
        /\ UNCHANGED <<enabled, documents, stops, earlier>>

EndOfFile(l) ==
    /\ load[l].pc = "scan"
    /\ load[l].next > Len(File)
    /\ load' = [load EXCEPT ![l].pc = "last"]
    /\ UNCHANGED <<enabled, documents, stops, earlier>>

\* ON CONFLICT DO NOTHING lets in the ids that have no row yet, each once.
NewIds(B) == {File[i].ext : i \in B} \ documents

\* Mutant: the statistics count the ids of the batch, not those the statement let in.
InsertBatchCountingIds(l, then) ==
    LET B == load[l].batch
        n == Cardinality({File[i].ext : i \in B})
    IN  /\ documents' = documents \cup NewIds(B)
        /\ load' = [load EXCEPT ![l].inserted = @ + n,
                                ![l].skipped = @ + (Cardinality(B) - n),
                                ![l].batch = {}, ![l].pc = then]

InsertBatch(l, then) ==
    LET B == load[l].batch
        n == Cardinality(NewIds(B))
    IN  /\ documents' = documents \cup NewIds(B)
        /\ load' = [load EXCEPT ![l].inserted = @ + n,
                                ![l].skipped = @ + (Cardinality(B) - n),
                                ![l].batch = {}, ![l].pc = then]

Flush(l) ==
    /\ load[l].pc = "flush"
    /\ InsertBatch(l, "scan")
    /\ UNCHANGED <<enabled, stops, earlier>>

\* Mutant: the rows left over after the last full batch are forgotten.
LastBatchForgotten(l) ==
    /\ load[l].pc = "last"
    /\ load' = [load EXCEPT ![l].pc = "done", ![l].batch = {}]
    /\ UNCHANGED <<enabled, documents, stops, earlier>>

LastBatch(l) ==
    /\ load[l].pc = "last"
    /\ IF load[l].batch # {} /\ ~load[l].dry
       THEN InsertBatch(l, "done")
       ELSE load' = [load EXCEPT ![l].pc = "done"] /\ UNCHANGED documents
    /\ UNCHANGED <<enabled, stops, earlier>>

\* The process is stopped, or an insert raises and is rolled back: the batch
\* and the statistics are lost, the committed batches stay.
StopLoad(l) ==
    /\ load[l].pc \in {"scan", "flush", "last"}
    /\ stops < MaxStops
    /\ stops' = stops + 1
    /\ earlier' = earlier + load[l].inserted
    /\ load' = [load EXCEPT ![l] = Idle]
    /\ UNCHANGED <<enabled, documents>>

LoaderStep(l) ==
    \/ StartLoad(l) \/ ScanLine(l) \/ EndOfFile(l) \/ Flush(l) \/ LastBatch(l)
    \/ StopLoad(l)

LoaderNext == Seed \/ \E l \in Loaders : LoaderStep(l)
=============================================================================
