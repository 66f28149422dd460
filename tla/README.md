# Verification of Voc-Agent

TLA+ models of Voc-Agent's concurrent and failure-prone parts, TLC runs on small
instances, and TLAPS proofs that hold for every value of the constants. Paths are
relative to the repository unless they name a module of this directory.

How to run: `tlc -config pipeline_single.cfg MCPipeline` (and so on, one configuration
per run, table below), `tlapm PipelineProofs.tla` (and the seven other `*Proofs`
modules). `PROJECT.json` maps every definition to the source lines it stands for.

## 1. The system

Voc-Agent turns product reviews into statistics, weekly reports and answers. A loader
inserts reviews into PostgreSQL. A weekly job has a language model extract *mentions*
(aspect, sentiment, exact quotation) and puts their vectors into Milvus. A FastAPI
server answers questions with a function-calling agent over fixed statistics, retrieval
and stored reports, generates weekly reports, and streams both as server-sent events to
a Next.js frontend. An acceptance harness runs the whole of it once under a guard that
bounds what it may send to the paid provider.

```
 loader --> documents --+                         +--> Milvus <--- tool_rag --+
                        v                         |                           |
              weekly job (worker, script) --------+--> aspect_mentions <- tool_sql
                 | extractor -> model provider                                |
                                                                              v
 frontend <== SSE == ask API -- ConversationService -- router -- tool_report -- weekly_reports
 frontend <== SSE == report API -- ReportGenerationService ------------------------^
 acceptance workflow: one guard around every provider call of one job and one API
```

### Components

| Component | State | Operations | What is hard | What makes it correct |
|---|---|---|---|---|
| Weekly job `backend/worker/jobs.py` | local lists of documents, mentions, vectors between awaits | fetch, enrich, embed, record | several processes, two stores without a common transaction, crashes, stale lists | statuses are true of both stores; every document settles; nothing is inserted twice |
| Aspect extractor `pipelines/enrichment/aspect_extractor.py` | attempts, documents still to ask for | extract with retries and a fallback to single documents | what a failure of one request does to the documents of others | each document once in the result; bounded requests |
| Embedder, Milvus repository | vectors by SKU partition | embed, upsert in batches, search | partial upserts | a vector belongs to a stored mention |
| Loader, targets, seed `pipelines/ingestion/amazon_loader.py` | documents; a batch and statistics in memory | scan, batched inserts, dry runs | restart in the middle, two loaders, duplicates within and across batches | a finished load has a row for every usable line; the reported rows are those there are |
| Quality scorer | none | weights | floating point | range of the score |
| Agent router `backend/app/agent/router.py` | rounds, attempted and executed calls, results, evidence, flags | one loop of model and tool calls | budgets, reprompts, refusals, a model that replies anything | the budget suffices, no call twice, answers are grounded, failures disclosed |
| Tools `tool_sql`, `tool_rag`, `tool_report` | none | read-only queries of several statements, or of two stores | what is written between their statements | the status tells what the payload is; a search drops no hit and misses none |
| Conversation service and repository | `chat_sessions`, `chat_messages` | create session, read history, persist a turn | overlapping turns, clocks of several servers | turns do not interleave |
| Ask API `backend/app/api/ask.py` | queue, turn task, transaction | stream events, commit, roll back | cancellation, commit in doubt, slow clients | `done` means committed; nothing is left running |
| Report service, API and repository | `weekly_reports` | collect, retrieve, synthesize, stream, persist | overlapping regenerations, the ORM's partial updates | the stored report is one that was validated |
| Acceptance harness `shared/acceptance` | latch, counters, record of stages | six stages under a deadline | swallowed failures, gathered calls, cancellation, handlers that outlive the server | nothing is sent after a failure; completion means none |
| Dashboard API, analytics and evidence repositories | none | pages of several aggregating statements | commits between the statements of a page | pages agree with each other; totals are bracketed |
| Authentication, settings, start-up | none | token checks; startup probe | order of resources | no start without the probe |
| Evaluation `shared/eval` | files | golden cases, checks, scores, gates | what was not measured; what a trace shows of refused calls | a release passes only what was evaluated completely |
| Ask page `ask-workspace.tsx`, `lib/api/ask.ts` | visible conversation, session id, status of each answer | submit, stop, new conversation, read a stream | the server goes on with what the page gave up | follow-ups know exactly the visible conversation |
| Report page `report-dashboard.tsx`, `lib/api/reports.ts` | query cache, own completed report, running generation | fetch, generate, stop, leave and come back | fetches and streams that overtake each other | what is shown was saved; the page never goes back |
| Scripts, deployment | files | diagnostics, containers, smoke tests | none | not modelled |

`PROJECT.json` lists each with its status. The hazards — what a test would hardly
reach, at its line — are listed there too, with the properties that cover them.

### How components interact

* The job and the API share PostgreSQL and Milvus and nothing else. The job's steps are
  single transactions or Milvus batches (`Pipeline`), so that readers see any prefix.
* The job calls the extractor for batches of ten, at most `MAX_EXTRACTION_CONCURRENCY`
  at a time, and applies the results afterwards one document at a time. Extraction
  touches no shared state; `Pipeline` therefore chooses its answer in the step that
  writes it down, and `AspectExtraction` shows what answers there are: mentions, an
  error of the document, or an error of its whole batch.
* The loader inserts documents, which the job enriches; nothing else of the loader is
  visible to the job (`Pipeline`'s `Ingest`). Readers, that is the dashboard and the
  analytics tool, see both at work between two statements (`Analytics`).
* The retrieval tool reads Milvus and then PostgreSQL, the job writes PostgreSQL and then
  Milvus; `Retrieval` runs the search inside `Pipeline`.
* The ask API runs a turn as a task and relays its lifecycle events through an unbounded
  queue (`Conversation`); inside the turn the router runs (`AgentRouter`), which in
  `Conversation` only emits events and ends. The Ask page sends these requests and reads
  their streams (`AskPage` on top of `Conversation`).
* A report request is one transaction from loading the row to the commit
  (`ReportGeneration`). The report page sends such requests and fetches the stored report
  independently of them (`ReportPage` on top of `ReportGeneration`).
* The evaluation judges the router's results by their traces (`SemanticEvaluation` on top
  of `AgentRouter`).
* In an acceptance run the extractor (with `fail_fast`), the router and the report
  service call the provider through one guard (`Acceptance`). The plan it enforces
  (`shared/acceptance/planning.py`) counts on one request per document
  (`AspectExtraction`, `RequestsBounded`) and on eight rounds and three tool calls per
  question (`AgentRouter`, `BudgetsHold`);
  `MCAcceptance` checks that these bounds fit the allowances 72 and 24 exactly.

## 2. Modules

### Pipeline, DocumentLifecycle

`Pipeline` is `weekly_pipeline_job` with any number of runners: the scheduler (one, as
`max_instances=1`) and scripts. `pc` is the place in the job, `work`, `fetched`, `rows`
and `pending` are its local variables, `status`, `mentions`, `inserts`, `embedText` the
columns and rows of PostgreSQL, `vectors` the keys in Milvus. `FetchUnprocessed`,
`PersistEnrichedDocument`, `MarkFailed`, `FetchEnriched`, `FetchMentions`,
`MarkEmptyEmbedded` and `MarkDocumentsEmbedded` are one transaction each;
`UpsertVectors` is one Milvus batch of one SKU; `DocumentWriteFails` is a rolled-back
transaction after which the loop goes on; `JobEnds` is a crash, an exception that
leaves the job, or a deferred embedding, which differ only in what is logged. `Blank`
are the documents for which the model quotes whitespace: `build_embed_text` then raises
before the `try`. A mention's id is a record with the number of the insert, so that two
inserts never share one, as with UUIDs.

When runners overlap, no status update looks at the status it replaces: a document that one
has embedded can be set back to enriched or failed by another that fetched it earlier, and a
list of mentions can be stale when its documents are marked. `SetbacksAreBounded` says how
often and by whom (each runner once, with what it fetched before the document was settled),
`IndexedUpToAnInsert` what embedded is still worth: every mention up to one of the document's
inserts has its vector and its embed text, which for one runner is all of them
(`EmbeddedIsSearchable`).

`DocumentLifecycle` is what the job promises without runners, stages or two stores: raw,
enriched, embedded, or failed; mentions appear once and atomically, and become
searchable all at once. `Pipeline` implements it (`ImplementsLifecycle`), with the
searchable mentions being those with a vector whose document is embedded.

### Retrieval

`RagRetrievalService.execute` inside `Pipeline`: one step per Milvus search (one
requested SKU each) and one for the hydration from PostgreSQL; between them any step of
any runner. The similarity of a hit is a free choice, so that `Best(B, S, k)` stands for
every ranking. Filters other than the SKU are values copied with a mention from
PostgreSQL to Milvus that never change. A SKU is enabled throughout.

### AmazonLoader, Analytics

`AmazonLoader` makes each line of the review file a step: unparsable, past `--limit`,
without a target, of a SKU that is not seeded, too short, or one more row of the batch.
`Flush` and `LastBatch` insert with ON CONFLICT DO NOTHING; `StopLoad` loses the batch and
the statistics; a stopped loader starts from the first line. Read from the code and kept:
with `--limit N` the statistics report N + 1 scanned lines; a line whose target SKU is not
seeded is counted nowhere; without a `review_id` two reviews of one user and product have
the same `external_id`, and the second is skipped.

`Analytics` adds the readers: five dashboard pages and five operations of the analytics
tool (the comparison page is one of them), each a sequence of SELECTs under READ COMMITTED
(`Plan`), and the mentions that the job commits in between. `saw` is what a statement's
WHERE clause selected; the aggregates (`SentimentBreakdown`, `TopAspects`, `SkuRankings`,
`Trend`, ...) are operators on it. `known` and `shown` are history variables. The aspect
distribution divides the counts of a later statement by the total of an earlier one: after
a commit in between a proportion may exceed 1, and the response model refuses it with an
exception that the tool does not catch (the outcome `raised`).
`RaisedOnlyBehindACommit` says that this is the only way. A tool that finds no enabled SKU
in its first statement runs without a SKU filter; the join still keeps disabled SKUs out.

### AspectExtraction

The batches of one enrichment stage. `Begin` takes the semaphore; `Usable`, `Retry`,
`Unusable`, `Unavailable` and `Escape` are the outcomes of one `create()` call and end it
as the exception handlers of `_request_with_retry` do; `NextSingle` is the loop of
`_request_documents_individually`. Inside one `create()` the client itself may send the
request again (`Resend`), up to `llm_max_retries` times (jobs.py:111-116), so that three
factors multiply: the client's retries, those of the extractor, and the fallback. `failFast`
is the acceptance extractor, whose client repeats nothing. `Poison` are
the documents that may make the model's reply unusable (no JSON, not the schema, a
missing or unknown document). `Record` is `_validate_payload`: three aspects are looked
at, and a document that has some and keeps none has failed with an empty list. API
errors that the handler does not name (a refused request, say) leave the retries *and*
the fallback, whose `except` names `ExtractionResponseError` only: documents the fallback
had already extracted go with the batch. That is the outcome `escaped`, and the job
marks the whole batch failed. No property objects to it: one that did would not hold.

### AgentRouter

`FunctionCallingRouter.run` for one request. A step is a reply of the model, one call of
a reply handled up to its await, the answer of a tool, or the end of a round; the order
of the checks in `Refusal` and in `Finalize` is the code's. The model may reply anything:
up to `MaxCallsPerReply` calls of any tool, a blank text, or an answer of which the
quoted texts and cited ids matter. `ReportResults`, `SqlResults` and `RagResults` are what
the tools can return when they do not raise.

### SemanticEvaluation

The release evaluation as pure operators on golden cases, results and evaluations: when
a case contradicts itself (`WellFormed`), the deterministic checks (`CheckRouting`, ...),
the judge's scores, the release gates and `OverallPassed`. What an answer says is reduced
to what a check looks for in it. Scores are compared as fractions of
whole numbers; the code's floating point is left out. Read from the code and kept: a failed citation
requirement of a case fails the case's category but no gate; a missing judge result is
accepted by the checks, while the dataset run marks a judge that failed as
infrastructure; a retrieval score of null is left out of its mean; a gate that nothing was
measured for fails.

### Conversation, TurnLog

`stream_ask_events` and `ConversationService.run_turn` for concurrent requests of any
number of sessions. A request either names a session or creates one: the session row is
then identified with the request that inserts it and is seen by others once its first turn
is committed. `turn` is the turn task, `stream` the generator; both share a transaction, whose
lock on the session row (`FOR UPDATE`) is `lock`. `stamp` is the date of the user message,
taken from the clock of one of several servers and moved past `updated_at`, which is read
under the lock; the session loaded earlier is only weakly referenced by the ORM and the
locked read refreshes it. `Commit`, `CommitInDoubt` and `Disconnect` are the ways a
transaction ends: done, done without the client knowing, or done or not under a
cancellation. `TurnLog` is what each session promises: turns are appended whole, each
once. `Conversation` implements it with the log of a session read off the stored messages
by date: `Position` counts the older messages, `At` is the one at a position, `Log` the
sequence of them (`ImplementsTurnLog`).
The history limit counts messages, not turns (docs/week3_handoff.md:194), so a history
may begin with an answer; `HistoryIsWhole` says it is the only one without a question.

### AskPage

The page that sends the requests of `Conversation`. It sends one at a time, keeps the
session id of the last `done`, and shows each answer as working, complete or over.
`GiveUp` is a stop, a stream that ends early or breaks; `NewConversation` clears the page
and the session id. The server's side of an aborted request goes on until it notices.
`asked` and `context` are history variables: the conversation a request was sent from, and
the answers shown as complete then.

### ReportGeneration

Requests that generate one SKU's report for one week. `loaded` is the row as a
transaction read it, without a lock; `Updated` is the UPDATE the ORM emits: the columns
whose value differs from the loaded one, and no others (a report is a body and a
summary here). `Flush` waits for the row, an
INSERT may meet another's (`InsertConflicts`), `Commit` and `CommitInDoubt` as above.

### ReportPage

The report page on top of `ReportGeneration`: the query cache, which outlives a visit, the
GET of the stored report with the moment the server reads it (`ServerAnswers`) apart from
the moment it arrives (`FetchEnds`), `StartGeneration`, `ReceiveTerminal`, `StreamEnds`,
`Stop`, and `Revisit`, after which the streams of the earlier visit run on and still
write to the cache. A request that the page did not send is another client's. `rows` is a
history variable. After `Stop` the page says that the saved report was not changed
(report-dashboard.tsx:91, docs/technical-guide.md:95). The request may have committed, or
may still do so: the model has these behaviours, no property relies on the sentence, and it
is listed as a hazard.

### Acceptance

`run_business_acceptance` and its guard. `stopped`, `holder`, `counts` are
`AcceptanceTransport`'s latch, lock and counters; `call` is where each provider call is:
waiting for the lock, on the wire, being parsed by its adapter, or over. Callbacks return
or raise as they like and may swallow anything, make several calls at a time, and leave
the handlers of the server running, which `acceptance_server` cancels (`LeaveServer`,
`CancelLands`). `Expire` and `CancelledOutside` raise a cancellation where the run
waits. Between a usable HTTP response and the adapter that finds nothing in it another
waiting call may be sent: the guard cannot know yet, and the model has this window.
Assumed: a callback returns when its own calls are over, and a cancelled handler comes to
its end while the lifespan closes the database. A record that was used before is refused
without a change, which is not a step.

## 3. Runs

| Run | Instance | Shows |
|---|---|---|
| `pipeline_single` | 3 documents (one noise), 2 SKUs, limit 2, up to 2 mentions, batches of 1, 2 faults, 1 runner | `StatusIsTrue`, `MentionsInsertedOnce`, `EverySettles`, refinement of `DocumentLifecycle` |
| `pipeline_overlap` (`MCRetrieval`) | 2 documents of 2 SKUs, limit 1, 2 runners, 1 fault, searches for the best hit | without row locks: `SearchesAgree`, `StoresMatch` (no orphan vectors, clean retries, at most one insert per runner), `IndexedUpToAnInsert` (embedded is true up to some insert), `SetbacksAreBounded` |
| `pipeline_idempotent` | 2 runners, no fault | finding: `MentionsInsertedOnce` is violated |
| `pipeline_peers` | 1 runner, one blank mention | finding: `PeersNotBlocked` is violated |
| `router` | 5 calls (each tool, an unapproved one, a malformed one), 2 mentions, 2 calls per reply, 3 tool calls, 3 or 8 rounds | `BudgetsHold`, `AnswersAreEarned`, `ReportMissReconsidered`, `CorrectionNeverSkipped`, `ChecksFitTheRouter`, an answer always |
| `router_disclosure` | 2 calls, 1 mention | finding: `FailuresDisclosed` is violated |
| `report_generation` | the page and 2 requests, its own or others', 2 bodies, with or without a stored report | `PageIsTruthful` (with `PartsWereValidated`), `ReportsMoveOn`, `EverythingEnds` |
| `report_torn` (`ReportGeneration`) | 2 requests, 2 bodies, 2 summaries | finding: `ReportIsACandidate` is violated |
| `conversation` (`AskPage`) | the page, a stored turn and 2 requests, clocks at 1 and 4, history of 3, 1 event each, 2 conversations | `TurnsDoNotInterleave`, `HistoryIsThePast`, `EndsCleanly`, `FollowUpsStayVisible`, `PageIsTrue`, `EverythingEnds`, refinement of `TurnLog` |
| `acceptance` | 1 chat call and 3 embedding calls, allowances 1 and 2 | `RecordIsTrue`, `StopsAtFailure`, `RunEnds`, and the plan fits the allowances |
| `extraction` | a batch of 3 with one spoiler and a batch of one spoiler, 2 retries of the extractor and 1 of the client, one at a time | `ResultsAreSound`, `RequestsBounded` |
| `analytics` | a file of 6 lines, batches of 3, limits none and 2, 1 stop, 2 SKUs of which one is seeded first, 4 mentions, 2 loaders, 1 reader that goes on asking | `ResponsesAgree`, `RacesBounded`, `LoadIsComplete`, `InsertedAddsUp` |

Each passing run also checks its module's type invariant, which says more than types where
a bound is meant to hold: no endpoint of an acceptance run is called more often than
allowed (`AcceptanceTypeOK`), no event is sent that was not emitted.
Properties whose name is a conjunction (`ResponsesAgree == PagesAgree /\
CompleteComparison`) have their parts above them, each with its comment.

`MCAgentRouter` and `MCAcceptance` also have TLC evaluate assumptions: `PassIsEarned` on
evaluations of ten cases of which two deviate, the golden cases that can be passed, and
the offline plan for every number of documents up to thirty.

Every property has a mutant of a modelled definition, written before it in its module,
which the run refutes; the mutants are plausible bugs (a dropped guard, an off-by-one, a
lost lock, a swapped order).

### Why the bounds are enough

* Pipeline: two runners are the two that exist (worker and script); two documents of
  different SKUs and a noise document reach every branch of the settling loop, and a limit
  below their number makes the limit bind. With batches of one, a document with two
  mentions or two documents have their upsert torn at every place. `MaxFaults` bounds the
  faults of a behaviour; two allow a fault and another in the retry.
* Retrieval: with two SKUs the hits of one search must survive the next; a `top_k` of one
  makes the cut between two hits bind. The runners, and the documents with their SKUs, are
  symmetric; the run checks no liveness, with which symmetry would be unsound.
* Router: the three tool calls and eight rounds are the code's. A budget of 3 reaches the
  exhaustion of rounds and the skipped correction. A reply of two calls crosses the tool
  limit in its middle.
* Conversation: the order properties relate two turns; the stored one and two requests
  show a turn next to two others. The two clocks are behind and ahead of `updated_at`.
  Two conversations separate what was visible from what is.
* Reports: two requests overlap in every way; the page leaves, stops and comes back any
  number of times. Texts are interchangeable, so one stored report to begin with stands for
  all. A torn report needs a second summary; that run leaves the page out.
* Acceptance: one call more than the allowance; gathered calls wait behind one on the wire.
* Extraction: a batch needs a spoiler and two peers, before and after it in the fallback's
  order; the second batch has no fallback. The order in which a batch is asked for is left
  open. `MaxKept` is 1 instead of 3, with one aspect beyond the limit. One repetition by the
  client is enough to tell a call from a request; `RequestsStayBounded` is proved for any
  number.
* Analytics: the file has a full batch with a repeated review in it, a rest, an unparsable
  and a too short line, and a SKU that is seeded only later; one mention is below the
  quality threshold and its week therefore not shown. The two loaders are symmetric, and the
  run has a constraint (`ReadersOrTwoLoaders`): once both have started, nobody reads and no
  mention is committed. A request sees rows and never a loader's memory, so pages beside one
  loader and two loaders alone are the two questions there are; the theorems need no such
  constraint.

Deadlock is checked where the modelled system never stops (the pipeline, the reading side;
the extraction, whose end is the explicit step `Gathered`). Router, requests and acceptance
runs end, and their runs say `CHECK_DEADLOCK FALSE`.

### Fairness

* `Pipeline`: weak fairness of each runner's steps. The cron trigger starts a run each
  week and a started job goes on; nothing is assumed of the loader, and faults are no
  obligation.
* `AgentRouter`: weak fairness of `Next`; the model client has a timeout, and tools
  return or raise.
* `ReportPage`: weak fairness of `Goes(r)` for each request: the database answers, the
  provider has a timeout, and the page reads what it is sent and notices the end of a
  stream. Nothing is assumed of a step that sends to another client, nor of the user.
* `AskPage`: weak fairness, per request, of the turn and the server (`Served`), of a client
  to whom something *is being sent*, who reads it or leaves (`ReadOrLeft`), and of the page
  noticing a terminal event or the end of a stream (`Noticed`). A client that does neither
  holds the session's row lock while the queue drains (ask.py:181-188) and blocks the
  other turns of its session: this is excluded by the assumption. A turn that waits for the
  row is not assumed to be given up, so that `EverythingEnds` does say that the lock is
  always given back.
* `Acceptance`: calls have timeouts, the workflow's own code goes on, the deadline
  expires, and callbacks end once it has ("cancellation is cooperative",
  workflow.py:62). Before that a callback may wait forever.
* `Analytics` and `AspectExtraction`: none; their properties are safety.

## 4. Findings

1. `pipeline_idempotent`: the docstring calls the workflow idempotent (jobs.py:379). Two
   overlapping runs fetch the same raw document, claim nothing, and both insert its
   mentions. Proved of the code: one runner inserts them once (`MentionsOnce`), and n
   overlapping ones at most n times (`StoresAgree`).
2. `pipeline_peers`: "one failed document does not block its peers"
   (docs/technical-guide.md:38). One mention of whitespace makes the text of the whole
   embedding stage raise outside the `try`, in this and every later run.
3. `router_disclosure`: the unavailable component is to be disclosed
   (docs/week3_codex_todo.md:785). A tool that raised leaves no result, and when the others
   have no data the plain no-data answer is given. Proved of the code: this answer is the
   only one that leaves a failure undisclosed (`UndisclosedOnlyWithoutData`).
4. `report_torn`: a transaction "atomically creates/replaces the report"
   (docs/arch.md:141). Of two overlapping regenerations one may contribute the body and the
   other the summary. Proved of the code: each of the two is that of a validated candidate of
   a committed request (`PartsAreValidated`).

## 5. Proofs

All theorems are about the specification of their module (safety), for any constants that
satisfy the modules' named assumptions. Each proof module has one inductive invariant, a
lemma per group of actions that it is preserved, and a theorem per property.

| Module | Inductive invariant | Why the property alone is not inductive | Theorems |
|---|---|---|---|
| `PipelineProofs` | `SharedInv`: types, no orphans, clean retries, and what a runner read still exists; `SingleInv` adds `LocalStateIsCurrent`; `InsertsInv` (the inserts of a document and the runners that hold it are together no more than the runners); `IndexInv` (what a runner read of a document is whole up to one of its inserts); `SearchInv` adds to the shared part `UpsertsInv` and `HitsInv` | a vector is written from rows read earlier; marking is right only if the rows read are still all there are; a mention is searchable once its `embed_text` is there, as it was upserted before | `TypeCorrect`, `StoresAgree`, `SetbacksUseUpClaims`, `IndexedAlways`, `SearchesTellTheTruth` for any runners; `SingleRunnerCorrect`, `MentionsOnce`, `PipelineImplementsLifecycle` for one |
| `AgentRouterProofs` | `RouterInv`: `RoundsAccounted` (each round before the last was a reprompt or attempted a call), `ExecutionsAccounted`, `ResultsAccounted`, `MissRemembered`, `CorrectionHasEvidence`; `WithinBudget` for the length of a request | the budget is a sum over the history of the request; a correction is asked for only when a round is left for it | `TypeCorrect`, `BudgetsSuffice`, `CorrectionsAsked`, `AnswersGrounded`, `MissesReconsidered`, `UndisclosedOnlyWithoutData`, `RequestsAreFinite` |
| `EvaluationProofs` | the router's, and what results with evidence have left in the trace | the evaluation sees the trace, the router the results | `PassIsSound`, `CasesPassable` (pure functions); `ChecksAgree` |
| `ConversationProofs` | `ConvInv`: `TasksAgree`, `LockIsWrite`, `DatesGrow`, `HistoryIsPast`, `TurnsDoNotInterleave`; `PageInv` adds `HistoryIsWhole`, `PageAgrees`, `SessionsApart`, `KnownIsVisible`, `ContextIsStored`; `OrderInv` (every position of a session's log has a message) for the log | a turn's dates are chosen before it is stored, and only the lock relates the two; the page knows a session only through the turns of one conversation | `TurnsStayTogether`, `HistoriesAreThePast`, `RequestsEndCleanly`, `PageTypeCorrect`, `FollowUpsVisible`, `PagesTrue`; `TurnsAreALog`, `PageImplementsTurnLog` (the refinement of `TurnLog`) |
| `ReportGenerationProofs` | `ReportInv`: `CompletingIsStored`, `LockOnlyToCommit`, `HasCandidate`, `RowStays`, `StagedFromRow`; `PageInv` adds `CommittedIsOver`, `RowIsKept`, `PageHasSaved`, `OwnInOrder`; `PartsInv` (no request that is about to write read an older row before the first commit; after it every column is a committed candidate's) | what is committed was staged in an earlier step, and the row must not have changed since; a fetched report was read in an earlier state | `CompletionCorrect`, `ReplacementIsWhole`, `PartsAreValidated` for any clients; `PageTypeCorrect`, `PagesAreTruthful`, `PagesMoveOn` with the page |
| `AcceptanceProofs` | `AcceptanceInv`: `OrderInv` (the place tells which stages are completed), `LatchInv` (every failure has latched; what is not settled settles before the end) | completion is decided at the end from two flags, and the failures happened earlier, elsewhere | `TypeCorrect`, `RecordsAreTrue`, `RunsStop` |
| `AspectExtractionProofs` | `ExtractionInv`: `Progress` (phase and list of remaining documents tell which are recorded), `Bookkeeping`, `Causal`; for the requests `Accounted` (the place, the documents left, the calls made and what the client repeated of the current one tell how many were sent) | the result is complete, and the allowance used up, only at the end of the fallback | `TypeCorrect`, `ResultsCorrect`, `RequestsStayBounded` |
| `AnalyticsProofs` | `AllInv`: `LoadsInv` (every usable line before the next one is inserted or in the batch), `ReadersInv` (what each statement of a running request has seen lies between what was shown before it and what is there now), `CountInv` (the loaders' statistics add up to the rows), `BracketsInv` (the same bracket for each part of a page) | a page is judged when it is complete, and its parts were read earlier, over a database that only grows | `TypeCorrect`, `ResponsesConsistent`, `RacesAreBounded`, `LoadsComplete`, `CountsAddUp` |

`CasesPassable` is worth a remark: a golden case that requires citations must allow
`tool_rag`, or no result passes it. `validate_expectations` does not ask for that.

The assumptions are the named ones of the modules, which every run evaluates. Three of them
were added for the proofs, and all three are true of any deployment: there are finitely many
loaders and runners, and the dashboard's list of weeks takes no filter (its only scope is
`Everything`).

Sums and counts over finite sets need induction, and the library's induction theorems take
an operator, which no prover here can instantiate. `AnalyticsProofs` uses what they rest on
instead (`SubsetInduction`): inclusion is well-founded on the subsets of a finite set,
so a set of counterexamples would have a smallest member.

`RequestsAreFinite` is the part of `EveryRequestAnswered` that needs no fairness: each step of
a request makes `StepsLeft` smaller, which is `max_model_rounds * (2 * MaxCallsPerReply + 2) + 1`
at most. That a step is taken at all is the assumption TLC makes.

Only model-checked: what needs fairness (`EverySettles`, `EveryRequestAnswered`,
`EverythingEnds` of both pages, `RunEnds`), which is out of the prover's reach, and the violated properties.

## 6. What is not modelled

* Texts, logs, metrics, and the content of payloads, prompts and reports.
* What makes one mention valid (exact excerpts, labels, duplicate scenarios) and the
  quality score, which is floating-point arithmetic on one document.
* The report tool: it reads one row. `list_skus`, the stored report and other single
  statements of the API.
* How the dashboard formats weeks, rates and names.
* The compacted tool results stored with a message, which nothing reads back.
* Set-up and deletion of the Milvus collection; nothing calls the deletion.
* How the loader formats the fields of a row.
* Validation of receipts and reports of an acceptance run, its audit queries, its browser.
* The chunks in which an answer is streamed, and the acceptance latch of the ask API.
* Sign-in and its context on the pages, charts, and pages that only render.
* Diagnostic scripts, migrations, containers and smoke tests: offline, sequential.

## 7. Plan

Done, in this order: the weekly job with its lifecycle; the router; the conversation with
its log of turns; the report generation; the acceptance guard and workflow; the
extraction; sessions and the Ask page; the loader and the reading side; the retrieval over
stores that are being written; the evaluation; the report page.

Next, by what a test reaches least:

1. The sentence "The saved report was not changed" after a stop, as a run that refutes it.
2. Composition of the extraction with the acceptance guard, whose latch then decides what
   the fallback may still ask for.
3. The sign-in of the pages: what a token that expires leaves on them.
4. Pure algorithms checked over bounded inputs: ISO weeks, duplicate scenarios, quality
   weights with integer arithmetic, validation of receipts.

Proofs next: the steps left of a turn, of a report request and of an acceptance run, as
`RequestsAreFinite` has them for the router; that a search which overlaps with no
settling document returns exactly the best hits.
