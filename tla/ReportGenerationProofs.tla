------------------------- MODULE ReportGenerationProofs -------------------------
(***************************************************************************)
(* Proofs about ReportGeneration for any requests and any texts.             *)
(***************************************************************************)
EXTENDS ReportPage, TLAPS

-----------------------------------------------------------------------------
(* The inductive invariant.                                                 *)

Committed(r) == \E i \in 1..Len(commits) : commits[i] = r

CompletingIsStored ==
    \A r \in Requests :
        pc[r] = "completing" \/ told[r] = "report_completed" => Committed(r)

\* There is a candidate from the synthesis on.
Persists(r) == pc[r] \in {"streaming", "persisting", "flushing", "committing"}
HasCandidate == \A r \in Requests : Persists(r) => candidate[r] \in Reports

\* A row is never deleted.
RowStays == \A r \in Requests : loaded[r] # NoReport => row \in Reports

\* What waits for the commit was computed from the row as it still is.
StagedFromRow ==
    \A r \in Requests : pc[r] = "committing" =>
        \/ loaded[r] = NoReport /\ row = NoReport /\ staged = candidate[r]
        \/ loaded[r] # NoReport /\ staged = Updated(r)

ReportInv ==
    /\ TypeOK
    /\ CompletingIsStored
    /\ LockOnlyToCommit
    /\ HasCandidate
    /\ RowStays
    /\ StagedFromRow

-----------------------------------------------------------------------------
LEMMA AppendedIsCommitted ==
    ASSUME commits \in Seq(Requests), NEW r \in Requests, commits' = Append(commits, r)
    PROVE  /\ commits' \in Seq(Requests)
           /\ Committed(r)'
           /\ \A s \in Requests : Committed(s) => Committed(s)'
<1>1. /\ commits' \in Seq(Requests) /\ Len(commits') = Len(commits) + 1
      /\ commits'[Len(commits) + 1] = r
      /\ \A i \in 1..Len(commits) : commits'[i] = commits[i]
  OBVIOUS
<1>2. Len(commits) \in Nat
  OBVIOUS
<1> QED
  BY <1>1, <1>2 DEF Committed

LEMMA AppendsAreDistinct ==
    ASSUME commits \in Seq(Requests), NEW r \in Requests, NEW s \in Requests,
           Append(commits, r) = Append(commits, s)
    PROVE  r = s
<1>1. Append(commits, r)[Len(commits) + 1] = r
  OBVIOUS
<1>2. Append(commits, s)[Len(commits) + 1] = s
  OBVIOUS
<1> QED
  BY <1>1, <1>2

LEMMA AppendChanges ==
    ASSUME commits \in Seq(Requests), NEW r \in Requests
    PROVE  commits # Append(commits, r)
<1>1. Len(Append(commits, r)) = Len(commits) + 1 /\ Len(commits) \in Nat
  OBVIOUS
<1> QED
  BY <1>1

\* An update by a request with a candidate makes a report of a report.
LEMMA UpdateIsReport ==
    ASSUME NEW r \in Requests, candidate[r] \in Reports, row \in Reports
    PROVE  Updated(r) \in Reports
<1>1. /\ candidate[r].md \in Bodies /\ row.md \in Bodies
      /\ candidate[r].summary \in Summaries /\ row.summary \in Summaries
  BY DEF Reports
<1>2. Updated(r) = [md |-> Updated(r).md, summary |-> Updated(r).summary]
  BY DEF Updated
<1>3. Updated(r).md \in Bodies /\ Updated(r).summary \in Summaries
  BY <1>1 DEF Updated
<1> QED
  BY <1>2, <1>3 DEF Reports

\* An update by a request whose loaded row is the stored one sets every column.
LEMMA UpdateIsWhole ==
    ASSUME NEW r \in Requests, candidate[r] \in Reports, row \in Reports, loaded[r] = row
    PROVE  Updated(r) = candidate[r]
<1>1. Updated(r) = [col \in {"md", "summary"} |-> candidate[r][col]]
  BY DEF Updated
<1>2. candidate[r] = [col \in {"md", "summary"} |-> candidate[r][col]]
  BY DEF Reports
<1> QED
  BY <1>1, <1>2

LEMMA ReportInitially == Init => ReportInv
  BY ReportAssumption
     DEF ReportAssumption, Init, ReportInv, TypeOK, CompletingIsStored, LockOnlyToCommit,
         HasCandidate, Persists, RowStays, StagedFromRow, Committed, Stages, Events

\* A step that leaves the row, the lock, the write and the commits alone.
LEMMA QuietSteps ==
    ASSUME ReportInv, NEW r \in Requests,
           StageDone(r) \/ Synthesize(r) \/ LoadReport(r) \/ Complete(r)
    PROVE  ReportInv'
<1> USE DEF ReportInv
<1>1. UNCHANGED <<row, lock, staged, commits>>
  BY DEF StageDone, Synthesize, LoadReport, Complete
<1>2. UNCHANGED <<candidate, loaded, told>> /\ StageDone(r) => ReportInv'
  <2> SUFFICES ASSUME StageDone(r), UNCHANGED <<candidate, loaded, told>> PROVE ReportInv'
    OBVIOUS
  <2>1. /\ pc[r] \in {"idle", "collecting_analytics", "retrieving_evidence", "streaming"}
        /\ pc' = [pc EXCEPT ![r] = StageAfter[pc[r]]]
        /\ StageAfter[pc[r]] \in Stages \ {"idle", "streaming", "flushing", "committing",
                                           "completing"}
        /\ StageAfter[pc[r]] = "persisting" => pc[r] = "streaming"
    BY DEF StageDone, Goto, StageAfter, Stages
  <2>2. TypeOK'
    BY <1>1, <2>1 DEF TypeOK
  <2>3. CompletingIsStored' /\ LockOnlyToCommit'
    BY <1>1, <2>1 DEF TypeOK, CompletingIsStored, LockOnlyToCommit, Committed
  <2>4. HasCandidate' /\ RowStays' /\ StagedFromRow'
    BY <1>1, <2>1 DEF TypeOK, HasCandidate, Persists, RowStays, StagedFromRow, Updated
  <2> QED
    BY <2>2, <2>3, <2>4
<1>3. ASSUME Synthesize(r) PROVE ReportInv'
  <2>1. TypeOK'
    BY <1>1, <1>3 DEF TypeOK, Synthesize, Goto, Stages
  <2>2. CompletingIsStored' /\ LockOnlyToCommit'
    BY <1>1, <1>3 DEF TypeOK, CompletingIsStored, LockOnlyToCommit, Committed, Synthesize, Goto
  <2>3. HasCandidate' /\ RowStays' /\ StagedFromRow'
    BY <1>1, <1>3 DEF TypeOK, HasCandidate, Persists, RowStays, StagedFromRow, Updated,
                      Synthesize, Goto
  <2> QED
    BY <2>1, <2>2, <2>3
<1>4. ASSUME LoadReport(r) PROVE ReportInv'
  <2>1. TypeOK'
    BY <1>1, <1>4 DEF TypeOK, LoadReport, Goto, Stages
  <2>2. CompletingIsStored' /\ LockOnlyToCommit'
    BY <1>1, <1>4 DEF TypeOK, CompletingIsStored, LockOnlyToCommit, Committed, LoadReport, Goto
  <2>3. HasCandidate' /\ RowStays' /\ StagedFromRow'
    BY <1>1, <1>4 DEF TypeOK, HasCandidate, Persists, RowStays, StagedFromRow, Updated,
                      LoadReport, Goto
  <2> QED
    BY <2>1, <2>2, <2>3
<1>5. ASSUME Complete(r) PROVE ReportInv'
  <2>1. TypeOK'
    BY <1>1, <1>5 DEF TypeOK, Complete, Goto, Stages, Events
  <2>2. CompletingIsStored' /\ LockOnlyToCommit'
    BY <1>1, <1>5 DEF TypeOK, CompletingIsStored, LockOnlyToCommit, Committed, Complete, Goto
  <2>3. HasCandidate' /\ RowStays' /\ StagedFromRow'
    BY <1>1, <1>5 DEF TypeOK, HasCandidate, Persists, RowStays, StagedFromRow, Updated,
                      Complete, Goto
  <2> QED
    BY <2>1, <2>2, <2>3
<1> QED
  BY <1>2, <1>3, <1>4, <1>5 DEF StageDone

LEMMA FlushKeeps ==
    ASSUME ReportInv, NEW r \in Requests, Flush(r)
    PROVE  ReportInv'
<1> USE DEF ReportInv
<1>1. candidate[r] \in Reports /\ (loaded[r] # NoReport => Updated(r) \in Reports)
  BY UpdateIsReport DEF HasCandidate, Persists, RowStays, Flush
<1>2. TypeOK'
  BY <1>1 DEF TypeOK, Flush, Goto, Stages
<1>3. LockOnlyToCommit'
  BY ReportAssumption DEF ReportAssumption, TypeOK, LockOnlyToCommit, Flush, Goto
<1>4. CompletingIsStored' /\ HasCandidate' /\ RowStays'
  BY DEF TypeOK, CompletingIsStored, Committed, HasCandidate, Persists, RowStays, Flush, Goto
<1>5. \A s \in Requests : pc[s] # "committing"
  BY ReportAssumption DEF ReportAssumption, LockOnlyToCommit, Flush
<1>6. StagedFromRow'
  BY <1>5 DEF TypeOK, StagedFromRow, Updated, Flush, Goto
<1> QED
  BY <1>2, <1>3, <1>4, <1>6

\* A request ends, or goes on from its commit, without a commit.
LEMMA EndKeeps ==
    ASSUME ReportInv, NEW r \in Requests, Goto(r, "ended"), EndTransaction(r),
           told' \in {told, [told EXCEPT ![r] = "error"]},
           UNCHANGED <<row, commits, candidate, loaded>>
    PROVE  ReportInv'
<1> USE DEF ReportInv
<1>1. TypeOK'
  BY DEF TypeOK, EndTransaction, Goto, Stages, Events
<1>2. LockOnlyToCommit'
  BY ReportAssumption DEF ReportAssumption, TypeOK, LockOnlyToCommit, EndTransaction, Goto
<1>3. CompletingIsStored'
  BY DEF TypeOK, CompletingIsStored, Committed, Goto
<1>4. HasCandidate' /\ RowStays'
  BY DEF TypeOK, HasCandidate, Persists, RowStays, Goto
<1>5. ASSUME NEW s \in Requests, pc'[s] = "committing" PROVE pc[s] = "committing" /\ staged' = staged
  <2>1. s # r /\ pc[s] = "committing"
    BY <1>5 DEF TypeOK, Goto
  <2> QED
    BY <2>1 DEF LockOnlyToCommit, EndTransaction
<1>6. StagedFromRow'
  BY <1>5 DEF StagedFromRow, Updated
<1> QED
  BY <1>1, <1>2, <1>3, <1>4, <1>6

\* The commit of r, acknowledged or not.
LEMMA StoreKeeps ==
    ASSUME ReportInv, NEW r \in Requests, pc[r] = "committing", Store(r), EndTransaction(r),
           NEW to \in {"completing", "ended"}, Goto(r, to),
           told' \in {told, [told EXCEPT ![r] = "error"]},
           UNCHANGED <<candidate, loaded>>
    PROVE  ReportInv'
<1> USE DEF ReportInv
<1>1. lock = r /\ \A s \in Requests : pc[s] = "committing" => s = r
  BY DEF LockOnlyToCommit
<1>2. staged \in Reports
  BY UpdateIsReport DEF StagedFromRow, HasCandidate, Persists, RowStays
<1>3. /\ commits' \in Seq(Requests)
      /\ Committed(r)'
      /\ \A s \in Requests : Committed(s) => Committed(s)'
  BY AppendedIsCommitted DEF TypeOK, Store
<1>4. TypeOK'
  BY <1>2, <1>3 DEF TypeOK, EndTransaction, Store, Goto, Stages, Events
<1>5. CompletingIsStored'
  BY <1>3 DEF TypeOK, CompletingIsStored, Goto
<1>6. LockOnlyToCommit'
  BY <1>1, ReportAssumption
     DEF ReportAssumption, TypeOK, LockOnlyToCommit, EndTransaction, Goto
<1>7. HasCandidate' /\ RowStays'
  BY <1>2 DEF TypeOK, HasCandidate, Persists, RowStays, Store, Goto
<1>8. StagedFromRow'
  BY <1>1 DEF TypeOK, StagedFromRow, Goto
<1> QED
  BY <1>4, <1>5, <1>6, <1>7, <1>8

LEMMA ReportPreserved == ReportInv /\ [Next]_vars => ReportInv'
<1> SUFFICES ASSUME ReportInv, [Next]_vars PROVE ReportInv'
  OBVIOUS
<1>1. ASSUME NEW r \in Requests, StageFails(r) \/ InsertConflicts(r) PROVE ReportInv'
  BY <1>1, EndKeeps DEF StageFails, InsertConflicts, Fail
<1>2. ASSUME NEW r \in Requests, Commit(r) PROVE ReportInv'
  BY <1>2, StoreKeeps DEF Commit
<1>3. ASSUME NEW r \in Requests, CommitInDoubt(r) PROVE ReportInv'
  BY <1>3, StoreKeeps DEF CommitInDoubt, Fail
<1>4. ASSUME NEW r \in Requests, Disconnect(r) PROVE ReportInv'
  BY <1>4, EndKeeps, StoreKeeps DEF Disconnect
<1>5. CASE UNCHANGED vars
  BY <1>5 DEF vars, ReportInv, TypeOK, CompletingIsStored, Committed, LockOnlyToCommit,
              HasCandidate, Persists, RowStays, StagedFromRow, Updated
<1> QED
  BY <1>1, <1>2, <1>3, <1>4, <1>5, QuietSteps, FlushKeeps DEF Next, Persist

LEMMA ReportAlways == Spec => []ReportInv
  BY ReportInitially, ReportPreserved, PTL DEF Spec

-----------------------------------------------------------------------------
\* report_completed means committed, and the row is locked for no longer than the commit
\* takes, for any number of overlapping requests.
THEOREM CompletionCorrect == Spec => []CompletionIsSound
<1>1. ReportInv => CompletionIsSound
  BY DEF ReportInv, CompletionIsSound, CompletedIsStored, CompletingIsStored, Committed
<1> QED
  BY <1>1, ReportAlways, PTL

\* A commit by a request that saw the stored report replaces all of it.
LEMMA StoreIsWhole ==
    ASSUME ReportInv, NEW r \in Requests, pc[r] = "committing", Store(r)
    PROVE  /\ loaded[r] = row => row' = candidate[r]
           /\ row # NoReport => loaded[r] # NoReport
<1>1. candidate[r] \in Reports /\ row' = staged
  BY DEF ReportInv, HasCandidate, Persists, Store
<1>2. loaded[r] = row /\ loaded[r] # NoReport => Updated(r) = candidate[r]
  BY <1>1, UpdateIsWhole DEF ReportInv, RowStays
<1> QED
  BY <1>1, <1>2 DEF ReportInv, StagedFromRow

LEMMA WholeStep ==
    ASSUME ReportInv, [Next]_vars, NEW r \in Requests, commits' = Append(commits, r)
    PROVE  /\ loaded[r] = row => row' = candidate[r]
           /\ row # NoReport => loaded[r] # NoReport
<1>1. commits' # commits
  BY AppendChanges DEF ReportInv, TypeOK
<1>2. PICK s \in Requests : pc[s] = "committing" /\ Store(s)
  BY <1>1 DEF Next, vars, StageDone, Synthesize, StageFails, Persist, LoadReport, Flush,
              InsertConflicts, Commit, CommitInDoubt, Complete, Disconnect
<1>3. s = r
  BY <1>2, AppendsAreDistinct DEF ReportInv, TypeOK, Store
<1> QED
  BY <1>2, <1>3, StoreIsWhole

\* The stored report is replaced as a whole by a request that saw it.
THEOREM ReplacementIsWhole == Spec => ReplacedWholly
<1>1. ReportInv /\ [Next]_vars =>
        [\A r \in Requests : commits' = Append(commits, r) =>
          /\ loaded[r] = row => row' = candidate[r]
          /\ row # NoReport => loaded[r] # NoReport]_vars
  BY WholeStep
<1> QED
  BY <1>1, ReportAlways, PTL DEF Spec, ReplacedWholly

-----------------------------------------------------------------------------
(* The page.                                                                *)

Saved == rows \cup {candidate[commits[i]] : i \in 1..Len(commits)}

\* What is committed is not touched again.
CommittedIsOver ==
    \A r \in Requests : Committed(r) => pc[r] \in {"completing", "ended"}

RowIsKept == row # NoReport => row \in rows
PageHasSaved == {cached, answer} \ {NoReport} \subseteq Saved

\* The report shown is committed, and before that of the generation that runs.
OwnInOrder ==
    completed # Nobody =>
        /\ Committed(completed)
        /\ generating # Nobody /\ Committed(generating) => NoLater(completed, generating)

PageInv ==
    /\ ReportInv
    /\ PageTypeOK
    /\ CommittedIsOver
    /\ RowIsKept
    /\ PageHasSaved
    /\ OwnInOrder

LEMMA PageInitially == PageInit => PageInv
<1> SUFFICES ASSUME PageInit PROVE PageInv
  OBVIOUS
<1>1. ReportInv
  BY ReportInitially DEF PageInit
<1>2. PageTypeOK
  BY <1>1, ReportAssumption
     DEF PageInit, PageTypeOK, ReportInv, TypeOK, Events
<1>3. CommittedIsOver /\ RowIsKept /\ PageHasSaved /\ OwnInOrder
  <2>1. Len(commits) = 0
    BY DEF PageInit, Init
  <2>2. CommittedIsOver
    BY <2>1 DEF CommittedIsOver, Committed
  <2> QED
    BY <2>2 DEF PageInit, RowIsKept, PageHasSaved, OwnInOrder
<1> QED
  BY <1>1, <1>2, <1>3 DEF PageInv

\* A step of the page is none of a request.
LEMMA PageStepsAreQuiet == PageStep => UNCHANGED vars
  BY DEF PageStep, ServerAnswers, FetchEnds, Refetch, Revisit, Stop, Leave, StartGeneration,
         ReceiveTerminal, StreamEnds

\* A step of a request: who commits was about to, and no committed report changes.
LEMMA RequestSteps ==
    ASSUME ReportInv, CommittedIsOver, [Next]_vars
    PROVE  /\ CommittedIsOver'
           /\ \A r \in Requests : Committed(r) => Committed(r)' /\ candidate'[r] = candidate[r]
           /\ \A i \in 1..Len(commits) : i \in 1..Len(commits') /\ commits'[i] = commits[i]
           /\ \A r \in Requests : ~Committed(r) /\ Committed(r)' =>
                 Len(commits') \in 1..Len(commits') /\ commits'[Len(commits')] = r
           /\ \A i \in 1..Len(commits) : i <= Len(commits')
<1> USE DEF ReportInv
<1>1. CASE \E r \in Requests : pc[r] = "committing" /\ Store(r)
  <2>1. PICK r \in Requests : pc[r] = "committing" /\ Store(r)
    BY <1>1
  <2>2. /\ commits' \in Seq(Requests) /\ Len(commits') = Len(commits) + 1
        /\ Len(commits) \in Nat
        /\ commits'[Len(commits) + 1] = r
        /\ \A i \in 1..Len(commits) : commits'[i] = commits[i]
    BY <2>1 DEF Store, TypeOK
  <2>3. ~Committed(r)
    BY <2>1 DEF CommittedIsOver
  <2>4. \A s \in Requests : Committed(s)' => Committed(s) \/ s = r
    BY <2>2 DEF Committed
  <2>5. \A s \in Requests : Committed(s) => Committed(s)'
    BY <2>2 DEF Committed
  <2>6. UNCHANGED candidate /\ \E to \in {"completing", "ended"} : Goto(r, to)
    <3>1. commits' # commits
      BY <2>2
    <3>2. PICK s \in Requests : Commit(s) \/ CommitInDoubt(s) \/ (Disconnect(s) /\ Store(s))
      BY <3>1 DEF Next, vars, StageDone, Synthesize, StageFails, Persist, LoadReport, Flush,
                  InsertConflicts, Complete, Disconnect
    <3>3. s = r
      BY <3>2, <2>1, AppendsAreDistinct DEF Commit, CommitInDoubt, Store, TypeOK
    <3> QED
      BY <3>2, <3>3 DEF Commit, CommitInDoubt, Disconnect, Fail
  <2>7. CommittedIsOver'
    BY <2>4, <2>6 DEF CommittedIsOver, Goto, TypeOK
  <2> QED
    BY <2>2, <2>4, <2>5, <2>6, <2>7
<1>2. CASE ~\E r \in Requests : pc[r] = "committing" /\ Store(r)
  <2>1. UNCHANGED commits
    BY <1>2 DEF Next, vars, StageDone, Synthesize, StageFails, Persist, LoadReport, Flush,
                InsertConflicts, Commit, CommitInDoubt, Complete, Disconnect
  <2>2. \A r \in Requests : Committed(r)' <=> Committed(r)
    BY <2>1 DEF Committed
  <2>3. \A r \in Requests : pc[r] \in {"completing", "ended"} =>
            pc'[r] \in {"completing", "ended"} /\ candidate'[r] = candidate[r]
    BY DEF TypeOK, Next, vars, StageDone, StageAfter, Synthesize, StageFails, Persist,
           LoadReport, Flush, InsertConflicts, Commit, CommitInDoubt, Complete, Disconnect,
           Fail, Goto
  <2>4. Len(commits) \in Nat
    BY DEF TypeOK
  <2> QED
    BY <2>1, <2>2, <2>3, <2>4 DEF CommittedIsOver
<1> QED
  BY <1>1, <1>2

-----------------------------------------------------------------------------
(* Where the parts of the stored report come from.  Until the first commit   *)
(* nobody's loaded row is stale; after it every column is a candidate's.     *)

Columns == {"md", "summary"}

PartsInv ==
    /\ CommittedIsOver
    /\ commits = << >> =>
          \A r \in Requests : pc[r] \in {"flushing", "committing"} => loaded[r] = row
    /\ commits # << >> =>
          \A col \in Columns : \E r \in Requests :
              Committed(r) /\ row[col] = candidate[r][col]

LEMMA NobodyCommitted == ASSUME commits = << >>, NEW r PROVE ~Committed(r)
  BY DEF Committed

LEMMA PartsInitially == Init => PartsInv
  BY NobodyCommitted DEF Init, PartsInv, CommittedIsOver

LEMMA PartsPreserved == ReportInv /\ PartsInv /\ [Next]_vars => PartsInv'
<1> SUFFICES ASSUME ReportInv, PartsInv, [Next]_vars PROVE PartsInv'
  OBVIOUS
<1> USE DEF ReportInv, PartsInv
<1>1. /\ CommittedIsOver'
      /\ \A r \in Requests : Committed(r) => Committed(r)' /\ candidate'[r] = candidate[r]
  BY RequestSteps
<1>2. CASE \E r \in Requests : pc[r] = "committing" /\ Store(r)
  <2>1. PICK r \in Requests : pc[r] = "committing" /\ Store(r)
    BY <1>2
  <2>2. Committed(r)' /\ commits' # << >>
    BY <2>1, AppendedIsCommitted, NobodyCommitted DEF TypeOK, Store, Committed
  <2>3. candidate' = candidate
    <3>1. commits' # commits
      BY <2>1, AppendChanges DEF Store, TypeOK
    <3> QED
      BY <3>1 DEF Next, vars, StageDone, Synthesize, StageFails, Persist, LoadReport, Flush,
                  InsertConflicts, Commit, CommitInDoubt, Complete, Disconnect, Fail
  <2>4. ASSUME NEW col \in Columns
        PROVE  \E q \in Requests : Committed(q)' /\ row'[col] = candidate[q][col]
    <3>1. row' = staged
      BY <2>1 DEF Store
    <3>2. CASE staged[col] = candidate[r][col]
      BY <2>2, <3>1, <3>2
    <3>3. CASE staged[col] # candidate[r][col]
      <4>1. staged = Updated(r)
        BY <2>1, <3>3 DEF StagedFromRow
      <4>2. candidate[r][col] = loaded[r][col] /\ staged[col] = row[col]
        BY <3>3, <4>1 DEF Updated, Columns
      <4>3. commits # << >>
        BY <2>1, <3>3, <4>2
      <4>4. PICK q \in Requests : Committed(q) /\ row[col] = candidate[q][col]
        BY <4>3
      <4> QED
        BY <1>1, <3>1, <4>2, <4>4
    <3> QED
      BY <3>2, <3>3
  <2> QED
    BY <1>1, <2>2, <2>3, <2>4
<1>3. CASE ~\E r \in Requests : pc[r] = "committing" /\ Store(r)
  <2>1. UNCHANGED <<commits, row>>
    BY <1>3 DEF Next, vars, StageDone, Synthesize, StageFails, Persist, LoadReport, Flush,
                InsertConflicts, Commit, CommitInDoubt, Complete, Disconnect
  <2>2. ASSUME commits = << >>, NEW r \in Requests, pc'[r] \in {"flushing", "committing"}
        PROVE  loaded'[r] = row
    BY <2>2 DEF TypeOK, Next, vars, StageDone, StageAfter, Synthesize, StageFails, Persist,
                LoadReport, Flush, InsertConflicts, Commit, CommitInDoubt, Complete,
                Disconnect, Fail, Goto
  <2>3. ASSUME commits # << >>, NEW col \in Columns
        PROVE  \E r \in Requests : Committed(r)' /\ row[col] = candidate'[r][col]
    BY <1>1, <2>3
  <2> QED
    BY <1>1, <2>1, <2>2, <2>3
<1> QED
  BY <1>2, <1>3

LEMMA PartsAreCandidates == PartsInv => PartsWereValidated
  BY DEF PartsInv, PartsWereValidated, Columns, Committed

\* What the torn report of two overlapping regenerations cannot be is invented: for any
\* number of requests, its text and its summary were each validated.
THEOREM PartsAreValidated == Spec => []PartsWereValidated
  BY ReportAlways, PartsInitially, PartsPreserved, PartsAreCandidates, PTL DEF Spec

-----------------------------------------------------------------------------
(* What the page keeps while requests go on.                                 *)

\* What a request makes of the row is a report.
LEMMA RowStepTyped == ASSUME ReportInv, ReportInv' PROVE row' \in Reports \cup {NoReport}
  BY DEF ReportInv, TypeOK

LEMMA RequestKeepsPage ==
    ASSUME PageInv, [Next]_vars, UNCHANGED pageVars, KeepRows, ReportInv'
    PROVE  PageInv'
<1> USE DEF PageInv
<1>1. /\ CommittedIsOver'
      /\ \A r \in Requests : Committed(r) => Committed(r)' /\ candidate'[r] = candidate[r]
      /\ \A i \in 1..Len(commits) : i \in 1..Len(commits') /\ commits'[i] = commits[i]
      /\ \A r \in Requests : ~Committed(r) /\ Committed(r)' =>
            Len(commits') \in 1..Len(commits') /\ commits'[Len(commits')] = r
      /\ \A i \in 1..Len(commits) : i <= Len(commits')
  BY RequestSteps
<1>2. RowIsKept' /\ rows \subseteq rows' /\ rows' \subseteq Reports
  BY RowStepTyped DEF KeepRows, RowIsKept, PageTypeOK
<1>3. PageTypeOK'
  BY <1>2 DEF PageTypeOK, pageVars, ReportInv
<1>4. Saved \subseteq Saved'
  <2>1. ASSUME NEW i \in 1..Len(commits)
        PROVE  candidate[commits[i]] \in Saved'
    <3>1. commits[i] \in Requests /\ Committed(commits[i])
      BY DEF ReportInv, TypeOK, Committed
    <3> QED
      BY <1>1, <3>1 DEF Saved
  <2> QED
    BY <1>2, <2>1 DEF Saved
<1>5. PageHasSaved'
  BY <1>4 DEF PageHasSaved, pageVars
<1>6. OwnInOrder'
  <2>1. completed' = completed /\ generating' = generating
    BY DEF pageVars
  <2>2. ASSUME completed # Nobody PROVE Committed(completed)'
    BY <1>1, <2>1, <2>2 DEF OwnInOrder, PageTypeOK, Committed
  <2>3. ASSUME completed # Nobody, generating # Nobody, Committed(generating)'
        PROVE  NoLater(completed, generating)'
    <3>1. generating \in Requests /\ Committed(completed)
      BY <2>3 DEF PageTypeOK, OwnInOrder
    <3>2. CASE Committed(generating)
      <4>1. PICK i, j \in 1..Len(commits) :
                commits[i] = completed /\ commits[j] = generating /\ i <= j
        BY <3>2, <2>3 DEF OwnInOrder, NoLater
      <4> QED
        BY <4>1, <1>1, <2>1 DEF NoLater
    <3>3. CASE ~Committed(generating)
      <4>1. PICK i \in 1..Len(commits) : commits[i] = completed
        BY <3>1 DEF Committed
      <4>2. Len(commits') \in 1..Len(commits') /\ commits'[Len(commits')] = generating
        BY <1>1, <2>1, <2>3, <3>1, <3>3 DEF Committed
      <4> QED
        BY <4>1, <4>2, <1>1, <2>1 DEF NoLater
    <3> QED
      BY <3>2, <3>3
  <2> QED
    BY <2>1, <2>2, <2>3 DEF OwnInOrder
<1> QED
  BY <1>1, <1>2, <1>3, <1>5, <1>6

\* A step of the page leaves the requests, what is committed and what is saved alone.
LEMMA PageStepKeeps ==
    ASSUME PageInv, UNCHANGED vars, KeepRows
    PROVE  /\ ReportInv' /\ CommittedIsOver' /\ RowIsKept' /\ Saved' = Saved /\ rows' = rows
           /\ \A r \in Requests : Committed(r)' <=> Committed(r)
           /\ \A q, r \in Requests : NoLater(q, r)' <=> NoLater(q, r)
<1>1. ReportInv'
  BY ReportPreserved DEF PageInv
<1>2. rows' = rows
  BY DEF PageInv, RowIsKept, KeepRows, vars
<1>3. CommittedIsOver' /\ \A r \in Requests : Committed(r)' <=> Committed(r)
  BY DEF PageInv, CommittedIsOver, Committed, vars
<1>4. \A q, r \in Requests : NoLater(q, r)' <=> NoLater(q, r)
  BY DEF NoLater, vars
<1>5. RowIsKept' /\ Saved' = Saved
  BY <1>2 DEF PageInv, RowIsKept, Saved, vars
<1> QED
  BY <1>1, <1>2, <1>3, <1>4, <1>5

LEMMA FetchKeeps ==
    ASSUME PageInv, KeepRows, ServerAnswers \/ FetchEnds \/ Refetch \/ Revisit
    PROVE  PageInv'
<1> USE DEF PageInv
<1>1. UNCHANGED vars
  BY DEF ServerAnswers, FetchEnds, Refetch, Revisit
<1>2. /\ ReportInv' /\ CommittedIsOver' /\ RowIsKept' /\ Saved' = Saved /\ rows' = rows
      /\ \A r \in Requests : Committed(r)' <=> Committed(r)
      /\ \A q, r \in Requests : NoLater(q, r)' <=> NoLater(q, r)
  BY <1>1, PageStepKeeps
<1>3. row # NoReport => row \in Saved
  BY DEF RowIsKept, Saved
<1>4. PageTypeOK'
  BY <1>2 DEF PageTypeOK, ReportInv, TypeOK, ServerAnswers, FetchEnds, Refetch, Revisit
<1>5. PageHasSaved'
  BY <1>2, <1>3 DEF PageHasSaved, ServerAnswers, FetchEnds, Refetch, Revisit
<1>6. UNCHANGED <<completed, generating>> \/ completed' = Nobody
  BY DEF ServerAnswers, FetchEnds, Refetch, Revisit
<1>7. OwnInOrder'
  BY <1>2, <1>6 DEF OwnInOrder, PageTypeOK
<1> QED
  BY <1>2, <1>4, <1>5, <1>7

LEMMA StartKeeps ==
    ASSUME PageInv, KeepRows, NEW r \in Requests, StartGeneration(r)
    PROVE  PageInv'
<1> USE DEF PageInv
<1>1. UNCHANGED vars
  BY DEF StartGeneration
<1>2. /\ ReportInv' /\ CommittedIsOver' /\ RowIsKept' /\ Saved' = Saved /\ rows' = rows
      /\ \A s \in Requests : Committed(s)' <=> Committed(s)
  BY <1>1, PageStepKeeps
<1>3. ~Committed(r)
  BY DEF StartGeneration, CommittedIsOver
<1>4. PageTypeOK'
  BY <1>2 DEF PageTypeOK, ReportInv, TypeOK, Events, StartGeneration
<1>5. PageHasSaved'
  BY <1>2 DEF PageHasSaved, StartGeneration
<1>6. completed' = completed /\ generating' = r
  BY DEF StartGeneration
<1>7. OwnInOrder'
  BY <1>2, <1>3, <1>6 DEF OwnInOrder, PageTypeOK
<1> QED
  BY <1>2, <1>4, <1>5, <1>7

LEMMA ReceiveKeeps ==
    ASSUME PageInv, KeepRows, NEW r \in Requests, ReceiveTerminal(r)
    PROVE  PageInv'
<1> USE DEF PageInv
<1>1. UNCHANGED vars
  BY DEF ReceiveTerminal
<1>2. /\ ReportInv' /\ CommittedIsOver' /\ RowIsKept' /\ Saved' = Saved /\ rows' = rows
      /\ \A s \in Requests : Committed(s)' <=> Committed(s)
      /\ \A q, s \in Requests : NoLater(q, s)' <=> NoLater(q, s)
  BY <1>1, PageStepKeeps
<1>3. told[r] \in Events /\ candidate[r] \in Reports \cup {NoReport}
  BY DEF ReportInv, TypeOK
<1>4. told[r] = "report_completed" => Committed(r) /\ candidate[r] \in Saved
  BY DEF ReportInv, CompletingIsStored, Committed, Saved
<1>5. PageTypeOK'
  BY <1>2, <1>3 DEF PageTypeOK, ReportInv, ReceiveTerminal
<1>6. PageHasSaved'
  BY <1>2, <1>4 DEF PageHasSaved, ReceiveTerminal
<1>7. Committed(r) => NoLater(r, r)
  BY DEF Committed, NoLater, ReportInv, TypeOK
<1>8. /\ generating' = generating
      /\ completed' = completed \/ (completed' = r /\ generating = r /\ Committed(r))
  BY <1>4 DEF ReceiveTerminal
<1>9. OwnInOrder'
  BY <1>2, <1>7, <1>8 DEF OwnInOrder, PageTypeOK
<1> QED
  BY <1>2, <1>5, <1>6, <1>9

LEMMA LeaveKeeps ==
    ASSUME PageInv, KeepRows, NEW r \in Requests, NEW failed \in BOOLEAN, Leave(r, failed)
    PROVE  PageInv'
<1> USE DEF PageInv
<1>1. UNCHANGED vars
  BY DEF Leave
<1>2. /\ ReportInv' /\ CommittedIsOver' /\ RowIsKept' /\ Saved' = Saved /\ rows' = rows
      /\ \A s \in Requests : Committed(s)' <=> Committed(s)
      /\ \A q, s \in Requests : NoLater(q, s)' <=> NoLater(q, s)
  BY <1>1, PageStepKeeps
<1>3. PageTypeOK'
  BY <1>2 DEF PageTypeOK, ReportInv, TypeOK, Events, Leave
<1>4. PageHasSaved'
  BY <1>2 DEF PageHasSaved, Leave
<1>5. completed' = completed /\ generating' \in {generating, Nobody}
  BY DEF Leave
<1>6. OwnInOrder'
  BY <1>2, <1>5 DEF OwnInOrder, PageTypeOK
<1> QED
  BY <1>2, <1>3, <1>4, <1>6

LEMMA PagePreserved == PageInv /\ [PageNext]_allVars => PageInv'
<1> SUFFICES ASSUME PageInv, [PageNext]_allVars PROVE PageInv'
  OBVIOUS
<1>1. ASSUME UNCHANGED allVars PROVE KeepRows /\ UNCHANGED vars /\ UNCHANGED pageVars
  BY <1>1 DEF allVars, KeepRows, PageInv, RowIsKept, vars, pageVars
<1>2. ASSUME [Next]_vars, UNCHANGED pageVars, KeepRows PROVE PageInv'
  BY <1>2, ReportPreserved, RequestKeepsPage DEF PageInv
<1>3. ASSUME PageStep, KeepRows PROVE PageInv'
  <2>1. ASSUME Stop PROVE PageInv'
    BY <1>3, <2>1, LeaveKeeps DEF Stop, PageInv, PageTypeOK
  <2>2. ASSUME NEW r \in Requests, StreamEnds(r) PROVE PageInv'
    BY <1>3, <2>2, LeaveKeeps DEF StreamEnds
  <2> QED
    BY <1>3, <2>1, <2>2, FetchKeeps, StartKeeps, ReceiveKeeps DEF PageStep
<1> QED
  BY <1>1, <1>2, <1>3 DEF PageNext

LEMMA PageAlways == PageSpec => []PageInv
  BY PageInitially, PagePreserved, PTL DEF PageSpec

\* Every variable of the requests and of the page keeps its type.
THEOREM PageTypeCorrect == PageSpec => []PageTypeOK
<1>1. PageInv => PageTypeOK
  BY DEF PageInv
<1> QED
  BY <1>1, PageAlways, PTL

LEMMA PageNextIsNext == [PageNext]_allVars => [Next]_vars
  BY PageStepsAreQuiet DEF PageNext, allVars, vars

LEMMA PagePartsAlways == PageSpec => []PartsInv
<1>1. PageInv /\ PartsInv /\ [PageNext]_allVars => PartsInv'
  BY PageNextIsNext, PartsPreserved DEF PageInv
<1> QED
  BY <1>1, PageAlways, PartsInitially, PTL DEF PageSpec, PageInit

\* report_completed means committed, the row is locked for no longer than the commit takes,
\* each part of it was validated, and the page shows only what was stored or committed, for
\* any number of requests and visits.
THEOREM PagesAreTruthful == PageSpec => []PageIsTruthful
<1>1. PageInv /\ PartsInv => PageIsTruthful
  <2> SUFFICES ASSUME PageInv, PartsInv PROVE PageIsTruthful
    OBVIOUS
  <2>1. CompletionIsSound
    BY DEF PageInv, ReportInv, CompletionIsSound, CompletedIsStored, CompletingIsStored, Committed
  <2>2. completed # Nobody => candidate[completed] \in Saved
    BY DEF PageInv, OwnInOrder, Committed, Saved
  <2> QED
    BY <2>1, <2>2, PartsAreCandidates
       DEF PageInv, PageHasSaved, PageIsTruthful, ShownWasSaved, Saved, Visible
<1> QED
  BY <1>1, PageAlways, PagePartsAlways, PTL

\* The report of a generation stays until that of a later commit replaces it.
LEMMA ShownStep ==
    ASSUME PageInv, [PageNext]_allVars, completed # Nobody, completed' # Nobody
    PROVE  NoLater(completed, completed') /\ Visible' = candidate[completed']
<1> USE DEF PageInv
<1>1. completed \in Requests /\ Committed(completed)
  BY DEF PageTypeOK, OwnInOrder
<1>2. \/ completed' = completed
      \/ \E r \in Requests : completed' = r /\ generating = r /\ ReceiveTerminal(r)
                              /\ told[r] = "report_completed"
  BY DEF PageNext, allVars, pageVars, PageStep, ServerAnswers, FetchEnds, Refetch, Revisit,
         Stop, Leave, StartGeneration, ReceiveTerminal, StreamEnds
<1>3. NoLater(completed, completed') /\ completed' \in Requests /\ Committed(completed')
  <2>1. CASE completed' = completed
    BY <1>1, <2>1 DEF Committed, NoLater, ReportInv, TypeOK
  <2>2. ASSUME NEW r \in Requests, completed' = r, generating = r, told[r] = "report_completed"
        PROVE  NoLater(completed, r) /\ Committed(r)
    <3>1. Committed(r) /\ r # Nobody
      BY <2>2, ReportAssumption DEF ReportAssumption, ReportInv, CompletingIsStored
    <3> QED
      BY <2>2, <3>1 DEF OwnInOrder
  <2> QED
    BY <1>2, <2>1, <2>2
<1>4. candidate'[completed'] = candidate[completed']
  BY <1>3, PageNextIsNext, RequestSteps
<1> QED
  BY <1>3, <1>4 DEF Visible

\* The stored report is replaced as a whole by a request that saw it, and the shown one by
\* that of a later commit.
THEOREM PagesMoveOn == PageSpec => ReportsMoveOn
<1>1. PageInv /\ [PageNext]_allVars =>
        [\A r \in Requests : commits' = Append(commits, r) =>
          /\ loaded[r] = row => row' = candidate[r]
          /\ row # NoReport => loaded[r] # NoReport]_vars
  BY PageNextIsNext, WholeStep DEF PageInv
<1>2. PageInv /\ [PageNext]_allVars =>
        [completed # Nobody /\ completed' # Nobody =>
          NoLater(completed, completed') /\ Visible' = candidate[completed']]_allVars
  BY ShownStep
<1> QED
  BY <1>1, <1>2, PageAlways, PTL DEF PageSpec, ReportsMoveOn, ReplacedWholly, ShownMovesOn
=============================================================================
