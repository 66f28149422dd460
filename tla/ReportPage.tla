------------------------------ MODULE ReportPage ------------------------------
(***************************************************************************)
(* The report page (frontend/components/reports/report-dashboard.tsx,       *)
(* lib/api/reports.ts) of one browser, for one SKU and week, composed with  *)
(* the requests of this and other clients (module ReportGeneration).        *)
(*                                                                          *)
(* Each visit mounts the component anew.  The query cache outlives it, and  *)
(* so does the stream of a generation, which nothing aborts when the user   *)
(* leaves.  A stream that was stopped or broke is still served until the    *)
(* server notices.                                                          *)
(***************************************************************************)
EXTENDS ReportGeneration

VARIABLES
    cached,      \* the report in the query cache
    completed,   \* the request whose report is completedReport in this visit
    generating,  \* the request that runs in this visit
    notice,      \* there is a message that the generation failed or was stopped
    heard,       \* the terminal event received on a stream that is still open
    reading,     \* requests whose stream is open
    fetch,       \* the GET of the stored report
    answer,      \* what the server read for it
    rows         \* history: every row there has been

pageVars == <<cached, completed, generating, notice, heard, reading, fetch, answer>>
allVars == <<vars, pageVars, rows>>

PageTypeOK ==
    /\ TypeOK
    /\ {cached, answer} \subseteq Reports \cup {NoReport}
    /\ {completed, generating} \subseteq Requests \cup {Nobody}
    /\ notice \in BOOLEAN
    /\ heard \in [Requests -> {"not asked"} \cup Events]
    /\ reading \subseteq Requests
    /\ fetch \in {"asked", "answered", "settled", "failed"}
    /\ rows \subseteq Reports

PageInit ==
    /\ Init
    /\ cached = NoReport /\ answer = NoReport
    /\ completed = Nobody /\ generating = Nobody
    /\ notice = FALSE
    /\ heard = [r \in Requests |-> "not asked"]
    /\ reading = {}
    /\ fetch = "asked"
    /\ rows = {row} \ {NoReport}

-----------------------------------------------------------------------------
(* The query of the stored report. *)

ServerAnswers ==
    /\ fetch = "asked"
    /\ answer' = row
    /\ fetch' = "answered"
    /\ UNCHANGED <<vars, cached, completed, generating, notice, heard, reading>>

\* A fetch that fails, or finds no report, leaves the cache as it is.
FetchEnds ==
    /\ \/ /\ fetch = "answered" /\ fetch' = "settled"
          /\ cached' = IF answer = NoReport THEN cached ELSE answer
       \/ fetch \in {"asked", "answered"} /\ fetch' = "failed" /\ UNCHANGED cached
    /\ answer' = NoReport
    /\ UNCHANGED <<vars, completed, generating, notice, heard, reading>>

\* "Try again", or another SKU or week is selected and then this one again, which is
\* disabled during a generation.
Refetch ==
    /\ fetch \notin {"asked", "answered"}
    /\ fetch = "failed" \/ generating = Nobody
    /\ fetch' = "asked"
    /\ UNCHANGED <<vars, cached, completed, generating, notice, heard, reading, answer>>

\* The user comes back to the page: a new component, the cache unless it has expired,
\* and a fetch unless one is under way.
Revisit ==
    /\ completed' = Nobody
    /\ generating' = Nobody
    /\ notice' = FALSE
    /\ cached' \in {cached, NoReport}
    /\ fetch' = IF fetch = "answered" THEN fetch ELSE "asked"
    /\ UNCHANGED <<vars, heard, reading, answer>>

-----------------------------------------------------------------------------
(* startGeneration. *)

\* The report on the page: the one that was completed there comes first.
Visible == IF completed # Nobody THEN candidate[completed] ELSE cached

\* Generate, Regenerate or Retry, each with its own condition to be shown.
StartGeneration(r) ==
    /\ generating = Nobody
    /\ pc[r] = "idle" /\ heard[r] = "not asked"
    /\ Visible # NoReport \/ fetch = "settled" \/ notice
    /\ generating' = r
    /\ notice' = FALSE
    /\ heard' = [heard EXCEPT ![r] = "none"]
    /\ reading' = reading \cup {r}
    /\ UNCHANGED <<vars, cached, completed, fetch, answer>>

\* Mutant: the streamed draft is taken for the report.
ReceiveDraft(r) ==
    /\ r \in reading /\ heard[r] = "none" /\ candidate[r] # NoReport
    /\ heard' = [heard EXCEPT ![r] = "report_completed"]
    /\ cached' = candidate[r]
    /\ completed' = IF generating = r THEN r ELSE completed
    /\ UNCHANGED <<vars, generating, notice, reading, fetch, answer>>

\* Mutant: a report goes to the component, whichever visit asked for it.
ReceiveAnywhere(r) ==
    /\ r \in reading /\ heard[r] = "none" /\ told[r] # "none"
    /\ heard' = [heard EXCEPT ![r] = told[r]]
    /\ IF told[r] = "report_completed"
       THEN cached' = candidate[r] /\ completed' = r
       ELSE UNCHANGED <<cached, completed>>
    /\ UNCHANGED <<vars, generating, notice, reading, fetch, answer>>

\* The terminal event.  The report of report_completed goes into the cache in any case,
\* and into the component if it is still the one that asked.
ReceiveTerminal(r) ==
    /\ r \in reading /\ heard[r] = "none" /\ told[r] # "none"
    /\ heard' = [heard EXCEPT ![r] = told[r]]
    /\ IF told[r] = "report_completed"
       THEN /\ cached' = candidate[r]
            /\ completed' = IF generating = r THEN r ELSE completed
       ELSE UNCHANGED <<cached, completed>>
    /\ UNCHANGED <<vars, generating, notice, reading, fetch, answer>>

\* The stream of r is over: the component that asked, if it is still there, is idle again.
Leave(r, failed) ==
    /\ reading' = reading \ {r}
    /\ heard' = [heard EXCEPT ![r] = "none"]
    /\ IF generating = r THEN generating' = Nobody /\ notice' = failed
                         ELSE UNCHANGED <<generating, notice>>
    /\ UNCHANGED <<vars, cached, completed, fetch, answer>>

\* The stream ends after report_completed, or it ends early, carried an error event or
\* breaks, which it may after report_completed too.
StreamEnds(r) ==
    /\ r \in reading
    /\ \/ heard[r] = "report_completed" /\ Leave(r, FALSE)
       \/ Leave(r, TRUE)

\* The user stops the generation of this visit.  The page then says that the saved report
\* was not changed (report-dashboard.tsx:91), which nothing here relies on: the request may
\* have committed, or may still do so.
Stop == generating # Nobody /\ Leave(generating, TRUE)

-----------------------------------------------------------------------------
PageStep ==
    \/ ServerAnswers \/ FetchEnds \/ Refetch \/ Revisit \/ Stop
    \/ \E r \in Requests : StartGeneration(r) \/ ReceiveTerminal(r) \/ StreamEnds(r)

KeepRows == rows' = rows \cup ({row'} \ {NoReport})

\* Requests that the page did not send are those of other clients.
PageNext ==
    /\ PageStep \/ (Next /\ UNCHANGED pageVars)
    /\ KeepRows

\* A request goes on by itself: the database answers, the provider has a timeout, and the
\* page reads what it is sent and notices the end of a stream.  Nothing is assumed of the
\* steps that send to other clients.
Goes(r) ==
    /\ \/ Persist(r) /\ UNCHANGED pageVars
       \/ r \in reading /\ (StageDone(r) \/ Synthesize(r) \/ Complete(r)) /\ UNCHANGED pageVars
       \/ ReceiveTerminal(r)
       \/ pc[r] = "ended" /\ StreamEnds(r)
    /\ KeepRows

PageFairness == \A r \in Requests : WF_allVars(Goes(r))

PageSpec == PageInit /\ [][PageNext]_allVars /\ PageFairness

-----------------------------------------------------------------------------
\* "Only a successfully saved report replaces the report shown above": what the page
\* has was stored at some time, or is what a request that committed was to store.
ShownWasSaved ==
    {cached, answer, Visible} \ {NoReport}
        \subseteq rows \cup {candidate[commits[i]] : i \in 1..Len(commits)}

\* Both sides are told the truth: a completed report is stored, every part of what is stored
\* was validated, and neither a draft nor the report of a request that failed is shown.
PageIsTruthful == CompletionIsSound /\ PartsWereValidated /\ ShownWasSaved

\* A request that committed no later than another.
NoLater(q, r) ==
    \E i, j \in 1..Len(commits) : commits[i] = q /\ commits[j] = r /\ i <= j

\* While the user stays on the page, the report of a generation is replaced by those of
\* later commits only, whatever was stopped before or runs on from an earlier visit.
ShownMovesOn ==
    [][completed # Nobody /\ completed' # Nobody =>
          NoLater(completed, completed') /\ Visible' = candidate[completed']]_allVars

\* Neither the row nor the page goes back: the stored report is replaced as a whole by a
\* request that saw it, the shown one by a later one.
ReportsMoveOn == ReplacedWholly /\ ShownMovesOn

\* A request that the page reads, or that persists, is left by the page and has persisted
\* or ended, whatever other clients and an impatient user do.
EverythingEnds ==
    \A r \in Requests :
        r \in reading \/ pc[r] \in {"persisting", "flushing", "committing"}
            ~> r \notin reading /\ pc[r] \notin {"persisting", "flushing", "committing"}
=============================================================================
