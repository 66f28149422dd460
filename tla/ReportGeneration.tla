--------------------------- MODULE ReportGeneration ---------------------------
(***************************************************************************)
(* POST /api/reports/generate (backend/app/api/reports.py) for one SKU and  *)
(* week: concurrent requests, each its own transaction on the one row that  *)
(* weekly_reports holds for them.                                           *)
(*                                                                          *)
(* PostgreSQL reads committed rows, and a second writer of the row waits    *)
(* for the first to end.  The ORM writes the columns whose value differs    *)
(* from what it loaded, and no others.                                      *)
(***************************************************************************)
EXTENDS Naturals, Sequences

CONSTANTS
    Requests,  \* requests to generate the report
    Bodies,    \* what the text of a report may be
    Summaries, \* and its summary
    NoReport,  \* no row
    Nobody     \* no request

Reports == [md : Bodies, summary : Summaries]

ASSUME ReportAssumption ==
    /\ NoReport \notin Reports
    /\ Nobody \notin Requests

VARIABLES
    row,        \* the committed row
    lock,       \* the request with an uncommitted write
    staged,     \* what that write makes of the row
    pc,         \* the stage a request is in
    candidate,  \* the synthesized report of a request
    loaded,     \* the row as its transaction loaded it
    told,       \* the terminal event its client was sent
    commits     \* the requests that committed, in order

vars == <<row, lock, staged, pc, candidate, loaded, told, commits>>

Stages == {"idle", "collecting_analytics", "retrieving_evidence", "synthesizing",
           "streaming", "persisting", "flushing", "committing", "completing", "ended"}
Events == {"none", "error", "report_completed"}

TypeOK ==
    /\ row \in Reports \cup {NoReport}
    /\ lock \in Requests \cup {Nobody}
    /\ staged \in Reports \cup {NoReport}
    /\ pc \in [Requests -> Stages]
    /\ candidate \in [Requests -> Reports \cup {NoReport}]
    /\ loaded \in [Requests -> Reports \cup {NoReport}]
    /\ told \in [Requests -> Events]
    /\ commits \in Seq(Requests)

Init ==
    /\ row \in Reports \cup {NoReport}
    /\ lock = Nobody
    /\ staged = NoReport
    /\ pc = [r \in Requests |-> "idle"]
    /\ candidate = [r \in Requests |-> NoReport]
    /\ loaded = [r \in Requests |-> NoReport]
    /\ told = [r \in Requests |-> "none"]
    /\ commits = << >>

-----------------------------------------------------------------------------
Goto(r, stage) == pc' = [pc EXCEPT ![r] = stage]

\* The transaction of r is over: its lock and its write are gone.
EndTransaction(r) ==
    /\ lock' = IF lock = r THEN Nobody ELSE lock
    /\ staged' = IF lock = r THEN NoReport ELSE staged

Fail(r) ==
    /\ Goto(r, "ended")
    /\ told' = [told EXCEPT ![r] = "error"]
    /\ EndTransaction(r)
    /\ UNCHANGED <<candidate, loaded>>

(* Collecting facts and synthesizing write nothing.                         *)

StageAfter == [idle |-> "collecting_analytics",
               collecting_analytics |-> "retrieving_evidence",
               retrieving_evidence |-> "synthesizing",
               streaming |-> "persisting"]

\* A stage succeeds, and its events are sent to the client.
StageDone(r) ==
    /\ pc[r] \in DOMAIN StageAfter
    /\ Goto(r, StageAfter[pc[r]])
    /\ UNCHANGED <<row, lock, staged, candidate, loaded, told, commits>>

Synthesize(r) ==
    /\ pc[r] = "synthesizing"
    /\ \E c \in Reports : candidate' = [candidate EXCEPT ![r] = c]
    /\ Goto(r, "streaming")
    /\ UNCHANGED <<row, lock, staged, loaded, told, commits>>

\* ReportGenerationFailure or another exception: roll back, send an error event.
StageFails(r) ==
    /\ pc[r] \in {"collecting_analytics", "retrieving_evidence", "synthesizing",
                  "persisting", "flushing", "committing"}
    /\ Fail(r)
    /\ UNCHANGED <<row, commits>>

-----------------------------------------------------------------------------
(* save_weekly_report and the commit.                                       *)

LoadReport(r) ==
    /\ pc[r] = "persisting"
    /\ loaded' = [loaded EXCEPT ![r] = row]
    /\ Goto(r, "flushing")
    /\ UNCHANGED <<row, lock, staged, candidate, told, commits>>

\* Mutant: the columns that are not set are lost.
UpdatedColumnsOnly(r) ==
    [col \in {c \in {"md", "summary"} : candidate[r][c] # loaded[r][c]} |-> candidate[r][col]]

\* The columns an UPDATE by r sets are those that differ from what it loaded.
Updated(r) ==
    [col \in {"md", "summary"} |->
        IF candidate[r][col] = loaded[r][col] THEN row[col] ELSE candidate[r][col]]

\* Mutant: the row is written before the deltas are streamed.
FlushBeforeStreaming(r) ==
    /\ pc[r] = "flushing"
    /\ lock = Nobody
    /\ lock' = r
    /\ staged' = IF loaded[r] = NoReport THEN candidate[r] ELSE Updated(r)
    /\ Goto(r, "streaming")
    /\ UNCHANGED <<row, candidate, loaded, told, commits>>

\* The INSERT or UPDATE, once no other transaction has a write to the row pending.
Flush(r) ==
    /\ pc[r] = "flushing"
    /\ lock = Nobody
    /\ loaded[r] = NoReport => row = NoReport
    /\ lock' = r
    /\ staged' = IF loaded[r] = NoReport THEN candidate[r] ELSE Updated(r)
    /\ Goto(r, "committing")
    /\ UNCHANGED <<row, candidate, loaded, told, commits>>

\* An INSERT meets the row of another request: uq_weekly_reports_sku_week.
InsertConflicts(r) ==
    /\ pc[r] = "flushing"
    /\ lock = Nobody
    /\ loaded[r] = NoReport /\ row # NoReport
    /\ Fail(r)
    /\ UNCHANGED <<row, commits>>

Store(r) ==
    /\ row' = staged
    /\ commits' = Append(commits, r)

Commit(r) ==
    /\ pc[r] = "committing"
    /\ Store(r)
    /\ EndTransaction(r)
    /\ Goto(r, "completing")
    /\ UNCHANGED <<candidate, loaded, told>>

\* The server committed, but its answer is lost: the client is told of an error.
CommitInDoubt(r) ==
    /\ pc[r] = "committing"
    /\ Store(r)
    /\ Fail(r)

Complete(r) ==
    /\ pc[r] = "completing"
    /\ told' = [told EXCEPT ![r] = "report_completed"]
    /\ Goto(r, "ended")
    /\ UNCHANGED <<row, lock, staged, candidate, loaded, commits>>

\* The client goes away: the generator is cancelled at the await it is in and rolls
\* back.  A commit under way is done or not.
Disconnect(r) ==
    /\ pc[r] # "ended"
    /\ Goto(r, "ended")
    /\ EndTransaction(r)
    /\ \/ UNCHANGED <<row, commits>>
       \/ pc[r] = "committing" /\ Store(r)
    /\ UNCHANGED <<candidate, loaded, told>>

-----------------------------------------------------------------------------
Persist(r) == LoadReport(r) \/ Flush(r) \/ InsertConflicts(r) \/ Commit(r)

Next == \E r \in Requests :
    \/ StageDone(r) \/ Synthesize(r) \/ StageFails(r)
    \/ Persist(r) \/ CommitInDoubt(r) \/ Complete(r) \/ Disconnect(r)

Spec == Init /\ [][Next]_vars

-----------------------------------------------------------------------------
\* report_completed is sent only for a report that is committed.
CompletedIsStored ==
    \A r \in Requests : told[r] = "report_completed" =>
        \E i \in 1..Len(commits) : commits[i] = r

\* The row is locked from the flush to the commit and at no other time: a request that
\* ended, was cancelled or waits for its client blocks nobody.
LockOnlyToCommit == \A r \in Requests : lock = r <=> pc[r] = "committing"

\* Both together: what a client is told is stored, and nobody was kept waiting for it.
CompletionIsSound == CompletedIsStored /\ LockOnlyToCommit

\* A request whose loaded row is still the stored one when it commits replaces the
\* report as a whole, and none replaces a report without having loaded one.
ReplacedWholly ==
    [][\A r \in Requests : commits' = Append(commits, r) =>
          /\ loaded[r] = row => row' = candidate[r]
          /\ row # NoReport => loaded[r] # NoReport]_vars

\* Whatever overlaps, no part of the stored report is made up: its text and its summary
\* were each validated as part of the candidate of a request that committed.
PartsWereValidated ==
    commits # << >> =>
        \A col \in {"md", "summary"} :
            \E i \in 1..Len(commits) : row[col] = candidate[commits[i]][col]

\* "A database transaction atomically creates/replaces the report before
\* report_completed" (docs/arch.md:141): the stored report is one that was validated.
ReportIsACandidate ==
    commits # << >> => \E i \in 1..Len(commits) : row = candidate[commits[i]]
=============================================================================
