------------------------------- MODULE Analytics -------------------------------
(***************************************************************************)
(* The reading side: the dashboard endpoints of api/dashboard.py and the    *)
(* analytics tool of agent/tool_sql.py over the aspect mentions that the    *)
(* weekly job goes on inserting (documents come from AmazonLoader).         *)
(*                                                                          *)
(* A request runs several SELECTs in one READ COMMITTED transaction: each   *)
(* statement sees what is committed when it runs.  A request keeps, for     *)
(* each statement, the set of mentions its WHERE clause selected; the rows  *)
(* of the statement are aggregates of that set, computed when the response  *)
(* is built.                                                                *)
(***************************************************************************)
EXTENDS AmazonLoader

CONSTANTS
    Mentions,   \* rows the weekly job may insert into aspect_mentions
    Tier,       \* capacity_tier of a SKU, or NoTier
    NoTier,
    Scopes,     \* what requests of each kind may ask for
    Readers     \* concurrent requests

Sentiments == {"positive", "negative", "neutral"}
Weeks == {m.week : m \in Mentions}
Aspects == {m.aspect : m \in Mentions}

\* good: quality_score >= aspect_quality_threshold.  Aspects are numbered in
\* the order of their labels.
Mention == [doc : Nat, k : Nat, sku : Skus, week : Nat, aspect : Nat,
            sentiment : Sentiments, good : BOOLEAN]

\* Five endpoints of the dashboard; the operations of the analytics tool
\* ("trend" is also aspect_trend, "compare_skus" also serves GET /compare).
Tool == {"review_count", "sentiment_distribution", "aspect_distribution",
         "trend", "compare_skus"}
Kinds == {"weeks", "overview", "detail", "evidence", "sku_trends"} \cup Tool

\* What a request asks for.  skus = {} is "all of them"; limit bounds buckets,
\* evidence or weeks; iso: are the ends of the week range ISO weeks.
Scope == [skus : SUBSET Skus, weeks : SUBSET Nat, aspects : SUBSET Nat,
          sentiments : SUBSET Sentiments, limit : Nat \ {0}, iso : BOOLEAN]
Everything == [skus |-> {}, weeks |-> Weeks, aspects |-> Aspects,
               sentiments |-> Sentiments, limit |-> 1, iso |-> TRUE]

ASSUME AnalyticsAssumption ==
    /\ Mentions \subseteq Mention
    /\ IsFiniteSet(Mentions)
    /\ DOMAIN Tier = Skus
    /\ Scopes \in [Kinds -> SUBSET Scope]
    /\ Scopes["weeks"] \subseteq {Everything}
    /\ \A c \in Scopes["compare_skus"] : Cardinality(c.skus) >= 2
    /\ \A kind \in {"detail", "evidence", "sku_trends"} :
          \A c \in Scopes[kind] : Cardinality(c.skus) = 1

VARIABLES
    stored,  \* committed rows of aspect_mentions
    req,     \* what each request holds
    shown    \* mentions some response has counted so far

readVars == <<req, shown>>
analyticsVars == <<loaderVars, stored, readVars>>

\* The statements of each handler, in its order.
WeeksPlan == <<"aggregations">>
OverviewPlan == <<"week_ids", "breakdown", "aspects", "rankings">>
DetailPlan == <<"enabled", "week_ids", "summary", "breakdown", "aspects">>
EvidencePlan == <<"enabled", "week_ids", "evidence">>
TrendsPlan == <<"enabled", "week_ids", "trends">>
ToolPlan(operation) ==
    IF operation = "review_count" THEN <<"enabled", "counts">>
    ELSE <<"enabled", "counts", "rows">>

Plan == [kind \in Kinds |->
            CASE kind = "weeks" -> WeeksPlan
              [] kind = "overview" -> OverviewPlan
              [] kind = "detail" -> DetailPlan
              [] kind = "evidence" -> EvidencePlan
              [] kind = "sku_trends" -> TrendsPlan
              [] OTHER -> ToolPlan(kind)]

Statements == {"aggregations", "enabled", "week_ids", "summary", "breakdown",
               "aspects", "rankings", "evidence", "trends", "counts", "rows"}
Outcomes == {"ok", "partial", "empty", "not_found", "bad_request", "unavailable",
             "raised"}

\* began and known only serve the properties: what the dashboard could show
\* when the request began, and what responses had shown by then.
Request == [pc : {"idle", "run"} \cup Outcomes, kind : Kinds, scope : Scope,
            at : 1..6, saw : [Statements -> SUBSET Mentions],
            began : SUBSET Mentions, known : SUBSET Mentions]

AnalyticsTypeOK ==
    /\ LoaderTypeOK
    /\ stored \subseteq Mentions
    /\ shown \subseteq Mentions
    /\ req \in [Readers -> Request]
    /\ \A r \in Readers : req[r].at <= Len(Plan[req[r].kind])

Nothing == [s \in Statements |-> {}]
NoScope == [skus |-> {}, weeks |-> {}, aspects |-> {}, sentiments |-> {},
            limit |-> 1, iso |-> TRUE]
NoRequest == [pc |-> "idle", kind |-> "weeks", scope |-> NoScope, at |-> 1,
              saw |-> Nothing, began |-> {}, known |-> {}]

AnalyticsInit ==
    /\ LoaderInit
    /\ stored = {}
    /\ req = [r \in Readers |-> NoRequest]
    /\ shown = {}

-----------------------------------------------------------------------------
(* The writer: the weekly job commits the mentions of one loaded document   *)
(* together with its status (module Pipeline has the details).              *)

MentionsOf(d) == {m \in Mentions : m.doc = d}

CommitMentions(d) ==
    /\ ~(MentionsOf(d) \subseteq stored)
    /\ stored' = stored \cup MentionsOf(d)
    /\ UNCHANGED <<loaderVars, readVars>>

-----------------------------------------------------------------------------
(* The WHERE clauses. *)

InScope(m, scope) ==
    /\ scope.skus = {} \/ m.sku \in scope.skus
    /\ m.week \in scope.weeks
    /\ m.aspect \in scope.aspects
    /\ m.sentiment \in scope.sentiments

\* _apply_scope: the quality threshold, the join that keeps disabled SKUs out,
\* and the caller's filters.
Select(scope) == {m \in stored : m.good /\ m.sku \in enabled /\ InScope(m, scope)}

Shown == Select(Everything)

\* Mutant: the list of weeks does not apply the quality threshold.
ListedUnqualified == {m \in stored : m.sku \in enabled}

\* get_week_aggregations has no caller's filter and a WHERE of its own.
Listed == {m \in stored : m.good /\ m.sku \in enabled}

-----------------------------------------------------------------------------
(* The aggregates: what the SELECT lists and GROUP BYs make of a selection. *)

Reviews(M) == Cardinality({m.doc : m \in M})
OfSku(M, s) == {m \in M : m.sku = s}
OfAspect(M, a) == {m \in M : m.aspect = a}
OfWeek(M, w) == {m \in M : m.week = w}

SentimentBreakdown(M) ==
    [x \in Sentiments |-> Cardinality({m \in M : m.sentiment = x})]

\* ORDER BY count DESC, aspect_label LIMIT n.
TopAspects(M, n) ==
    LET size(a) == Cardinality(OfAspect(M, a))
        before(a, b) == size(a) > size(b) \/ (size(a) = size(b) /\ a < b)
        labels == {m.aspect : m \in M}
        top == {a \in labels : Cardinality({b \in labels : before(b, a)}) < n}
    IN  [a \in top |-> size(a)]

\* Mutant: the ranking counts the mentions that move the score.
SkuRankingsScored(M) ==
    [s \in {m.sku : m \in M} |->
        Cardinality({m \in OfSku(M, s) : m.sentiment # "neutral"})]

SkuRankings(M) == [s \in {m.sku : m \in M} |-> Cardinality(OfSku(M, s))]

WeekAggregations(M) == [w \in {m.week : m \in M} |-> Cardinality(OfWeek(M, w))]

\* get_sku_trends groups by week and aspect, get_trend by week.
SkuTrends(M) ==
    [g \in {<<m.week, m.aspect>> : m \in M} |->
        Cardinality(OfAspect(OfWeek(M, g[1]), g[2]))]
Trend(M) == WeekAggregations(M)

\* get_week_ids(limit=n): the latest n weeks.
LatestWeeks(M, n) ==
    LET weeks == {m.week : m \in M}
    IN  {w \in weeks : Cardinality({v \in weeks : v > w}) < n}

Total(rows) == MapThenSumSet(LAMBDA g : rows[g], DOMAIN rows)
TopLimit == 10

\* The total is the sum of the count rows, the buckets are a later statement.
AspectBuckets(q) ==
    [total   |-> Total(SkuRankings(q.saw["counts"])),
     buckets |-> TopAspects(q.saw["rows"], q.scope.limit)]

\* AspectBucket.proportion is declared with le=1: a larger one is a
\* ValidationError, which execute does not catch.
InUnit(n, total) == total = 0 \/ n <= total
BucketsValid(q) ==
    LET page == AspectBuckets(q)
    IN  \A a \in DOMAIN page.buckets : InUnit(page.buckets[a], page.total)

\* _sample_warnings: requested SKUs without a review in the count rows.
WithoutSample(q) == {s \in q.scope.skus : Reviews(OfSku(q.saw["counts"], s)) = 0}

ToolOutcome(q) ==
    IF q.kind = "aspect_distribution" /\ ~BucketsValid(q) THEN "raised"
    ELSE IF WithoutSample(q) # {} THEN "partial" ELSE "ok"

-----------------------------------------------------------------------------
(* The requests. *)

Runs(r, statement) ==
    req[r].pc = "run" /\ Plan[req[r].kind][req[r].at] = statement

\* The handler returns or raises: the response counts what it has selected.
Answer(r, q, outcome) ==
    /\ req' = [req EXCEPT ![r] = [q EXCEPT !.pc = outcome]]
    /\ shown' = IF outcome \in {"ok", "partial"}
                THEN shown \cup UNION {q.saw[s] : s \in Statements}
                ELSE shown
    /\ UNCHANGED <<loaderVars, stored>>

Continue(r, q) ==
    /\ req' = [req EXCEPT ![r] = [q EXCEPT !.at = @ + 1]]
    /\ UNCHANGED <<loaderVars, stored, shown>>

Begin(r, kind) ==
    /\ req[r].pc # "run"
    /\ \E scope \in Scopes[kind] :
          req' = [req EXCEPT ![r] = [NoRequest EXCEPT !.pc = "run", !.kind = kind,
                     !.scope = scope, !.began = Shown, !.known = shown]]
    /\ UNCHANGED <<loaderVars, stored, shown>>

\* _validate_capacity_tier
TiersDiffer(skus) == \E s, t \in skus : Tier[s] = NoTier \/ Tier[s] # Tier[t]

\* get_enabled_skus, then the checks that need nothing else.  Without codes the
\* tool takes every enabled SKU.
ReadEnabled(r) ==
    LET me == req[r]
        asked == IF me.scope.skus = {} THEN enabled ELSE me.scope.skus
        q == [me EXCEPT !.scope.skus = asked]
    IN  /\ Runs(r, "enabled")
        /\ IF \/ ~(asked \subseteq enabled)
              \/ me.kind \in Tool /\ ~me.scope.iso
              \/ me.kind = "compare_skus" /\ TiersDiffer(asked)
           THEN Answer(r, q, "bad_request")
           ELSE Continue(r, q)

\* get_week_ids: a page of a week without data is a 404; the trends take the
\* latest weeks instead.
ReadWeekIds(r) ==
    LET found == Select([Everything EXCEPT !.skus = req[r].scope.skus])
        me == [req[r] EXCEPT !.saw["week_ids"] = found]
        q == IF me.kind = "sku_trends"
             THEN [me EXCEPT !.scope.weeks = LatestWeeks(found, me.scope.limit)]
             ELSE me
    IN  /\ Runs(r, "week_ids")
        /\ IF q.kind # "sku_trends" /\ \A m \in found : m.week \notin q.scope.weeks
           THEN Answer(r, q, "not_found")
           ELSE Continue(r, q)

\* Mutant: the review count goes on to a statement of its own.
ReadCountsContinued(r) ==
    LET q == [req[r] EXCEPT !.saw["counts"] = Select(req[r].scope)]
    IN  /\ Runs(r, "counts")
        /\ IF q.saw["counts"] = {} THEN Answer(r, q, "empty") ELSE Continue(r, q)

\* get_counts
ReadCounts(r) ==
    LET q == [req[r] EXCEPT !.saw["counts"] = Select(req[r].scope)]
    IN  /\ Runs(r, "counts")
        /\ IF q.saw["counts"] = {} THEN Answer(r, q, "empty")
           ELSE IF q.kind = "review_count" THEN Answer(r, q, ToolOutcome(q))
           ELSE Continue(r, q)

\* get_sku_evidence: at most limit mentions, by quality.
Evidence(scope) ==
    {E \in SUBSET Select(scope) :
        \/ Cardinality(E) = scope.limit
        \/ E = Select(scope) /\ Cardinality(E) <= scope.limit}

\* Every other statement: the one of the tool's operation, the parts of a page.
ReadPart(r) ==
    LET me == req[r]
        statement == Plan[me.kind][me.at]
    IN  /\ me.pc = "run"
        /\ statement \notin {"enabled", "week_ids", "counts"}
        /\ \E M \in IF statement = "evidence" THEN Evidence(me.scope)
                    ELSE IF statement = "aggregations" THEN {Listed}
                    ELSE {Select(me.scope)} :
             LET q == [me EXCEPT !.saw[statement] = M]
             IN  IF me.at < Len(Plan[me.kind]) THEN Continue(r, q)
                 ELSE Answer(r, q, IF me.kind \in Tool THEN ToolOutcome(q) ELSE "ok")

\* A statement raises SQLAlchemyError, ConnectionError or TimeoutError: 503, or
\* the tool's retryable error.
QueryFails(r) == req[r].pc = "run" /\ Answer(r, req[r], "unavailable")

ReaderStep(r) ==
    ReadEnabled(r) \/ ReadWeekIds(r) \/ ReadCounts(r) \/ ReadPart(r)

AnalyticsNext ==
    \/ LoaderNext /\ UNCHANGED <<stored, readVars>>
    \/ \E d \in documents : CommitMentions(d)
    \/ \E r \in Readers : \/ \E kind \in Kinds : Begin(r, kind)
                          \/ ReaderStep(r) \/ QueryFails(r)

AnalyticsSpec == AnalyticsInit /\ [][AnalyticsNext]_analyticsVars

-----------------------------------------------------------------------------
(* Properties. *)

Answered(q) == q.pc \in {"ok", "partial"}
PartsOf(q) == {s \in Statements \ {"enabled"} :
                  \E i \in DOMAIN Plan[q.kind] : Plan[q.kind][i] = s}

\* The pages agree with each other: a mention that some response has counted is
\* in every later response whose scope it meets, in every part of it; such a
\* page is never "not found", "empty" or refused because of its SKU.  (The week
\* list, the overview, the SKU page and the tool each write their own WHERE.)
PagesAgree ==
    \A r \in Readers :
        LET q == req[r]
            due == {m \in q.known : InScope(m, q.scope)}
        IN  /\ q.pc \in {"not_found", "empty"} => due = {}
            /\ q.pc = "bad_request" /\ q.kind \notin Tool => due = {}
            /\ Answered(q) =>
                  \A s \in PartsOf(q) :
                      \/ due \subseteq q.saw[s]
                      \/ s = "evidence" /\ Cardinality(q.saw[s]) = q.scope.limit

\* The number of mentions a part of a response adds up to; lists that were cut
\* at their limit have no total.
PartTotal(q, s) ==
    LET M == q.saw[s]
    IN  CASE s = "breakdown" -> Total(SentimentBreakdown(M))
          [] s \in {"counts", "rankings"} -> Total(SkuRankings(M))
          [] s = "aggregations" -> Total(WeekAggregations(M))
          [] s = "trends" -> Total(SkuTrends(M))
          [] s = "aspects" -> Total(TopAspects(M, TopLimit))
          [] s = "summary" -> Cardinality(M)
          [] s = "rows" /\ q.kind = "aspect_distribution" ->
                Total(TopAspects(M, q.scope.limit))
          [] s = "rows" /\ q.kind = "trend" -> Total(Trend(M))
          [] s = "rows" /\ q.kind = "sentiment_distribution" ->
                Total(SentimentBreakdown(M))
          [] OTHER -> Total(SkuRankings(M))

Uncut(q, s) ==
    /\ s \notin {"evidence", "week_ids"}
    /\ s = "aspects" => Cardinality(Aspects) <= TopLimit
    /\ s = "rows" /\ q.kind = "aspect_distribution" =>
          Cardinality({m.aspect : m \in q.saw[s]}) <= q.scope.limit

\* A page is made of several statements, yet every part of it adds up to a
\* number between what the dashboard could show when the request began and what
\* it can show now: nothing is counted twice or left out, and if nothing was
\* committed meanwhile all parts show the same total.
PartsBracketed ==
    \A r \in Readers :
        LET q == req[r]
            size(M) == Cardinality({m \in M : InScope(m, q.scope)})
        IN  Answered(q) =>
              \A s \in PartsOf(q) :
                  Uncut(q, s) => /\ size(q.began) <= PartTotal(q, s)
                                 /\ PartTotal(q, s) <= size(Shown)

\* The aspect distribution divides a later statement's counts by an earlier
\* statement's total.  The request fails with a validation error only if
\* mentions were committed between the two.
RaisedOnlyBehindACommit ==
    \A r \in Readers :
        req[r].pc = "raised" =>
            /\ req[r].saw["counts"] # req[r].saw["rows"]
            /\ req[r].saw["counts"] \subseteq req[r].saw["rows"]

\* A comparison reported as complete has reviews of every compared SKU in its
\* rows, although the completeness was decided by an earlier statement.
CompleteComparison ==
    \A r \in Readers :
        req[r].pc = "ok" /\ req[r].kind = "compare_skus" =>
            \A s \in req[r].scope.skus : Reviews(OfSku(req[r].saw["rows"], s)) > 0

\* Both together: no statement of a response contradicts an earlier one.
ResponsesAgree == PagesAgree /\ CompleteComparison

\* Both together: what a commit between two statements of a response can do to it.
RacesBounded == PartsBracketed /\ RaisedOnlyBehindACommit

\* A loader that ran to the end without a limit has left no usable line of its
\* file without a row, whatever batches it or others were stopped in before.
LoadIsComplete ==
    \A l \in Loaders :
        load[l].pc = "done" /\ load[l].limit = 0 /\ ~load[l].dry =>
            \A i \in DOMAIN File :
                File[i].json /\ Usable(l, i) => File[i].ext \in documents

\* The rows that the loaders report as inserted are exactly the rows there are: a line
\* that two loaders over the same file propose, or one before and after it was stopped,
\* is counted by the one whose insert let it in.
InsertedAddsUp ==
    Cardinality(documents) =
        earlier + Total([l \in Loaders |-> load[l].inserted])
=============================================================================
