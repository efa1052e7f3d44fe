---------------------------- MODULE SearchReindex ----------------------------
(***************************************************************************)
(* The durable per-project search reindex of Boardupscale:                 *)
(*   - SearchReindexService (API): start, retry and cancel, each a chain   *)
(*     of awaited database and queue calls that other calls interleave;    *)
(*   - the search_reindex_jobs rows of one project;                        *)
(*   - the BullMQ queue "search-index", its retries and its stall check;   *)
(*   - the search worker, which runs several queue jobs at a time, walks   *)
(*     the phases of a reindex and saves its progress in the row;          *)
(*   - the issues of the project, which are created, updated and deleted,  *)
(*     restored, moved and imported meanwhile, and the issue documents in  *)
(*     Elasticsearch.                                                      *)
(* Project and member documents (phases 1 and 3) are steps of the worker   *)
(* whose data no property tells apart, so only their control is kept.      *)
(* Clocks are not modelled: every age threshold may have passed.           *)
(***************************************************************************)
EXTENDS Integers, FiniteSets, FiniteSetsExt

CONSTANTS
  Clients,      \* concurrent API calls
  MaxRows,      \* bound: reindex rows ever inserted
  MaxTasks,     \* bound: BullMQ jobs ever added for these rows
  MaxIssues,    \* bound: issues that are ever of the project
  InitIssues,   \* issues that exist, not yet indexed, at the start
  Stamp,        \* created_at of the issues, as ranks in time
  Edited,       \* bound: issues that users update
  BatchSize,    \* REINDEX_ISSUE_BATCH_SIZE
  MaxAttempts,  \* the "attempts" option of the queue jobs
  MaxStalls,    \* BullMQ's maxStalledCount
  Concurrency,  \* the worker's "concurrency" option
  MaxShifts,    \* bound: issues that ever leave the project or come to it
  MaxLost,      \* bound: documents lost to swallowed indexing errors
  MaxCrashes    \* bound: crashes of the worker process

ASSUME ConstantsAssumption ==
  /\ MaxRows \in Nat /\ MaxTasks \in Nat
  /\ MaxIssues \in Nat /\ InitIssues \subseteq 1..MaxIssues
  /\ Stamp \in [1..MaxIssues -> Nat] /\ Edited \subseteq 1..MaxIssues
  /\ BatchSize \in Nat \ {0} /\ MaxAttempts \in Nat \ {0} /\ Concurrency \in Nat \ {0}
  /\ MaxStalls \in Nat
  /\ MaxShifts \in Nat /\ MaxLost \in Nat /\ MaxCrashes \in Nat

VARIABLES
  row,        \* search_reindex_jobs
  task,       \* reindex-project jobs in BullMQ
  wk,         \* locals of processReindexProject, one processor per task
  call,       \* API calls in flight
  issues,     \* issues that are or were rows of the project
  live,       \* project_id is the project's and deleted_at IS NULL
  es,         \* issues with a document in boardupscale-issues
  indexJobs,  \* queued index-issue jobs
  deleteJobs, \* queued delete-issue jobs
  lost,       \* history: documents the code gave up on without an error
  strays,     \* history: issues that came to the project without a search job
  shifts,     \* history: how many issues left the project or came to it
  esUp,       \* elasticsearchAvailable, decided when the worker starts
  crashes

jobVars   == <<row, task, wk>>
listVars  == <<issues, live, strays, shifts>>
indexVars == <<listVars, es, indexJobs, deleteJobs, lost>>
vars      == <<jobVars, call, indexVars, esUp, crashes>>

Rows  == 1..MaxRows
Tasks == 1..MaxTasks
Issues == 1..MaxIssues
Phases == 1..3

Active   == {"pending", "processing"}
Terminal == {"completed", "failed", "cancelled"}

(* A row; status "none" is a row not inserted yet, closed is completed_at  *)
(* IS NOT NULL.  stopped is history: cancelled and not retried since.      *)
RowType == [status: Active \union Terminal \union {"none"}, closed: BOOLEAN,
            phases: SUBSET Phases, offset: Nat, stopped: BOOLEAN]
NoRow == [status |-> "none", closed |-> FALSE, phases |-> {}, offset |-> 0,
          stopped |-> FALSE]

(* A BullMQ job; "waiting" includes "delayed" (a backoff that may have     *)
(* elapsed), retry tells the -retry-<ts> ids from the original id.         *)
TaskType == [row: 0..MaxRows, retry: BOOLEAN,
             state: {"none", "waiting", "active", "completed", "failed", "removed"},
             attempts: 0..MaxAttempts, stalls: 0..(MaxStalls + 1)]
NoTask == [row |-> 0, retry |-> FALSE, state |-> "none", attempts |-> 0, stalls |-> 0]

WorkerPc == {"idle", "load", "mark", "project", "projectSave", "count", "check",
             "fetch", "bulk", "saveOffset", "issuesDone", "members", "memberDocs",
             "complete", "done", "failed"}

(* late is history: batches written since the row was last cancelled.      *)
WorkerType == [pc: WorkerPc, phases: SUBSET Phases, offset: Nat, total: Nat,
               batch: SUBSET Issues, late: 0..2]
Idle == [pc |-> "idle", phases |-> {}, offset |-> 0, total |-> 0, batch |-> {},
         late |-> 0]

CallPc == {"idle", "insert", "enqueueFirst", "retryUpdate", "enqueueRetry",
           "cancelUpdate", "cancelRemove"}
CallType == [pc: CallPc, row: 0..MaxRows]
NoCall == [pc |-> "idle", row |-> 0]

TypeOK ==
  /\ row \in [Rows -> RowType]
  /\ task \in [Tasks -> TaskType]
  /\ wk \in [Tasks -> WorkerType]
  /\ call \in [Clients -> CallType]
  /\ issues \in SUBSET Issues
  /\ live \in SUBSET Issues
  /\ es \in SUBSET Issues
  /\ indexJobs \in SUBSET Issues
  /\ deleteJobs \in SUBSET Issues
  /\ lost \in 0..MaxLost
  /\ strays \in SUBSET Issues
  /\ shifts \in 0..MaxShifts
  /\ esUp \in BOOLEAN
  /\ crashes \in 0..MaxCrashes

Init ==
  /\ row = [j \in Rows |-> NoRow]
  /\ task = [t \in Tasks |-> NoTask]
  /\ wk = [t \in Tasks |-> Idle]
  /\ call = [c \in Clients |-> NoCall]
  /\ issues = InitIssues /\ live = InitIssues
  /\ es = {} /\ indexJobs = {} /\ deleteJobs = {}
  /\ lost = 0 /\ strays = {} /\ shifts = 0
  /\ esUp \in BOOLEAN
  /\ crashes = 0

-----------------------------------------------------------------------------
(* Helpers                                                                 *)

\* The place of issue i among the live ones by created_at, its ties before it.
Rank(i) == Cardinality({k \in live : Stamp[k] <= Stamp[i]})

\* The orders in which "ORDER BY created_at ASC" may return the live issues: those
\* with the same created_at come in any order, another one for every query.
Orders ==
  {p \in Bijection(live, 1..Cardinality(live)) :
     \A i, k \in live : Stamp[i] < Stamp[k] => p[i] < p[k]}

\* OFFSET from LIMIT BatchSize.
Batches(from) == {{i \in live : from < p[i] /\ p[i] <= from + BatchSize} : p \in Orders}

TasksOf(j) == {t \in Tasks : task[t].state # "none" /\ task[t].row = j}
LiveTasks(j) == {t \in TasksOf(j) : task[t].state \in {"waiting", "active"}}
Originals(j) == {t \in TasksOf(j) : ~task[t].retry /\ task[t].state # "removed"}
Retries(j)   == {t \in TasksOf(j) : task[t].retry}

\* resolveQueueState: the latest retry, else the original, else "missing".
QueueState(j) ==
  IF Retries(j) # {} THEN task[Max(Retries(j))].state
  ELSE IF Originals(j) # {} THEN task[Max(Originals(j))].state
  ELSE "missing"

\* Mutant: no rule for a completed queue job behind an active row.
StalledByAgeOnly(r, q) ==
  \/ r.status = "pending" /\ q \in {"missing", "unknown", "failed"}
  \/ r.status = "processing"

\* computeEffectiveStatus = "stalled", for a queue state q read as q.  A row
\* that has been processing may always have gone 30 minutes without progress.
Stalled(r, q) ==
  \/ r.status \in Active /\ ~r.closed /\ q = "completed"
  \/ r.status = "pending" /\ q \in {"missing", "unknown", "failed"}
  \/ r.status = "processing"

\* The two reads of retry() that can refuse it; findOne returns any one of the
\* active rows, which may be the row being retried.
CanRetry(j, q) ==
  /\ row[j].status # "none"
  /\ row[j].status \in {"failed", "cancelled"} \/ Stalled(row[j], q)
  /\ LET active == {k \in Rows : row[k].status \in Active}
     IN active = {} \/ j \in active

AddTask(j, retry) ==
  \E t \in Tasks :
    /\ task[t].state = "none"
    /\ \A u \in Tasks : task[u].state = "none" => t <= u
    /\ task' = [task EXCEPT ![t] = [row |-> j, retry |-> retry, state |-> "waiting",
                                     attempts |-> 0, stalls |-> 0]]

Return(c) == call' = [call EXCEPT ![c] = NoCall]

-----------------------------------------------------------------------------
(* SearchReindexService                                                    *)

\* startReindex, first part: refuse when a row of the project is active.
StartCheck(c) ==
  /\ call[c].pc = "idle"
  /\ \E j \in Rows : row[j].status = "none"
  /\ \A j \in Rows : row[j].status \notin Active
  /\ call' = [call EXCEPT ![c].pc = "insert"]
  /\ UNCHANGED <<jobVars, indexVars, esUp, crashes>>

\* startReindex: insert the pending row.
StartInsert(c) ==
  /\ call[c].pc = "insert"
  /\ \E j \in Rows :
       /\ row[j].status = "none"
       /\ \A k \in Rows : row[k].status = "none" => j <= k
       /\ row' = [row EXCEPT ![j] = [NoRow EXCEPT !.status = "pending"]]
       /\ call' = [call EXCEPT ![c] = [pc |-> "enqueueFirst", row |-> j]]
  /\ UNCHANGED <<task, wk, indexVars, esUp, crashes>>

\* startReindex: add the queue job under its original id.
StartEnqueue(c) ==
  /\ call[c].pc = "enqueueFirst"
  /\ AddTask(call[c].row, FALSE)
  /\ Return(c)
  /\ UNCHANGED <<row, wk, indexVars, esUp, crashes>>

\* retry, first part: the row, its queue state ("unknown" when Redis cannot be
\* read) and the other active rows.
RetryCheck(c, j) ==
  /\ call[c].pc = "idle"
  /\ \E q \in {QueueState(j), "unknown"} : CanRetry(j, q)
  /\ call' = [call EXCEPT ![c] = [pc |-> "retryUpdate", row |-> j]]
  /\ UNCHANGED <<jobVars, indexVars, esUp, crashes>>

\* retry: back to pending, phases and offset kept for the resume.
RetryUpdate(c) ==
  /\ call[c].pc = "retryUpdate"
  /\ row' = [row EXCEPT ![call[c].row].status = "pending",
                        ![call[c].row].closed = FALSE,
                        ![call[c].row].stopped = FALSE]
  /\ wk' = [t \in Tasks |-> IF task[t].row = call[c].row
                            THEN [wk[t] EXCEPT !.late = 0] ELSE wk[t]]
  /\ call' = [call EXCEPT ![c].pc = "enqueueRetry"]
  /\ UNCHANGED <<task, indexVars, esUp, crashes>>

\* retry: add a queue job under a fresh -retry-<ts> id.
RetryEnqueue(c) ==
  /\ call[c].pc = "enqueueRetry"
  /\ AddTask(call[c].row, TRUE)
  /\ Return(c)
  /\ UNCHANGED <<row, wk, indexVars, esUp, crashes>>

\* cancel, first part: only an active row.
CancelCheck(c, j) ==
  /\ call[c].pc = "idle"
  /\ row[j].status \in Active
  /\ call' = [call EXCEPT ![c] = [pc |-> "cancelUpdate", row |-> j]]
  /\ UNCHANGED <<jobVars, indexVars, esUp, crashes>>

CancelUpdate(c) ==
  /\ call[c].pc = "cancelUpdate"
  /\ row' = [row EXCEPT ![call[c].row].status = "cancelled",
                        ![call[c].row].closed = TRUE,
                        ![call[c].row].stopped = TRUE]
  /\ wk' = [t \in Tasks |-> IF task[t].row = call[c].row
                            THEN [wk[t] EXCEPT !.late = 0] ELSE wk[t]]
  /\ call' = [call EXCEPT ![c].pc = "cancelRemove"]
  /\ UNCHANGED <<task, indexVars, esUp, crashes>>

\* cancel: remove the job with the original id unless a worker holds it.  Jobs
\* added by retry() stay in the queue.
CancelRemove(c) ==
  /\ call[c].pc = "cancelRemove"
  /\ task' = [t \in Tasks |->
                IF t \in Originals(call[c].row) /\ task[t].state # "active"
                THEN [task[t] EXCEPT !.state = "removed"] ELSE task[t]]
  /\ Return(c)
  /\ UNCHANGED <<row, wk, indexVars, esUp, crashes>>

\* The API process dies, or an awaited call throws, between two steps.
CallFails(c) ==
  /\ call[c].pc # "idle"
  /\ Return(c)
  /\ UNCHANGED <<jobVars, indexVars, esUp, crashes>>

-----------------------------------------------------------------------------
(* The search worker, one processor per active task                        *)

At(t, pc) == task[t].state = "active" /\ wk[t].pc = pc
GoTo(t, pc) == wk' = [wk EXCEPT ![t].pc = pc]
Cancelled(t) == row[task[t].row].status = "cancelled"

\* The processor returns: the queue job is completed, whatever the row says.
Finish(t) ==
  /\ task' = [task EXCEPT ![t].state = "completed"]
  /\ wk' = [wk EXCEPT ![t] = Idle]

\* checkReindexCancelled, followed by the step at pc "next".
StopOr(t, next) ==
  IF Cancelled(t) THEN Finish(t) ELSE GoTo(t, next) /\ UNCHANGED task

\* Where a worker that holds these completed phases goes on.
NextPc(phases) == CASE 1 \notin phases -> "project"
                    [] 1 \in phases /\ 2 \notin phases -> "count"
                    [] 1 \in phases /\ 2 \in phases /\ 3 \notin phases -> "members"
                    [] OTHER -> "complete"

\* markReindexFailed: WHERE status != 'cancelled'.
MarkFailed(r) == IF r.status = "cancelled" THEN r
                 ELSE [r EXCEPT !.status = "failed", !.closed = TRUE]

Dispatch(t) ==
  /\ task[t].state = "waiting"
  /\ Cardinality({u \in Tasks : task[u].state = "active"}) < Concurrency
  /\ task' = [task EXCEPT ![t].state = "active"]
  /\ GoTo(t, "load")
  /\ UNCHANGED <<row, call, indexVars, esUp, crashes>>

\* Elasticsearch was down when the worker started: fail the row (an error of
\* this very update is only logged) and return.
SkipUnavailable(t) ==
  /\ At(t, "load") /\ ~esUp
  /\ \/ row' = [row EXCEPT ![task[t].row] = MarkFailed(@)]
     \/ UNCHANGED row
  /\ GoTo(t, "done")
  /\ UNCHANGED <<task, call, indexVars, esUp, crashes>>

\* Mutant: only a cancelled row is left alone.
LoadCompletedToo(t) ==
  /\ At(t, "load") /\ esUp
  /\ LET r == row[task[t].row]
     IN IF r.status = "cancelled" THEN Finish(t)
        ELSE /\ wk' = [wk EXCEPT ![t].pc = "mark", ![t].phases = r.phases,
                                 ![t].offset = r.offset]
             /\ UNCHANGED task
  /\ UNCHANGED <<row, call, indexVars, esUp, crashes>>

\* loadReindexJob: the status is tested, phases and offset are copied.
Load(t) ==
  /\ At(t, "load") /\ esUp
  /\ LET r == row[task[t].row]
     IN IF r.status \in {"cancelled", "completed"} THEN Finish(t)
        ELSE /\ wk' = [wk EXCEPT ![t].pc = "mark", ![t].phases = r.phases,
                                 ![t].offset = r.offset]
             /\ UNCHANGED task
  /\ UNCHANGED <<row, call, indexVars, esUp, crashes>>

\* markReindexProcessing: unconditional.
Mark(t) ==
  /\ At(t, "mark")
  /\ row' = [row EXCEPT ![task[t].row].status = "processing"]
  /\ GoTo(t, NextPc(wk[t].phases))
  /\ UNCHANGED <<task, call, indexVars, esUp, crashes>>

\* Phase 1: cancel check, then the project document.
ProjectCheck(t) ==
  /\ At(t, "project")
  /\ StopOr(t, "projectSave")
  /\ UNCHANGED <<row, call, indexVars, esUp, crashes>>

\* A row with its list of phases replaced when this phase is done.
WithPhases(r, phases, phase) ==
  [r EXCEPT !.phases = phases, !.offset = IF phase = 2 THEN 0 ELSE r.offset]

\* A phase is done: the worker's own list of phases replaces the row's.
SavePhase(t, phase) ==
  /\ row' = [row EXCEPT ![task[t].row] =
                           WithPhases(@, wk[t].phases \union {phase}, phase)]
  /\ wk' = [wk EXCEPT ![t].phases = @ \union {phase},
                      ![t].pc = NextPc(wk[t].phases \union {phase}),
                      ![t].offset = IF phase = 2 THEN 0 ELSE @,  \* out of scope
                      ![t].total = 0]
  /\ UNCHANGED <<task, call, indexVars, esUp, crashes>>

ProjectSave(t) == At(t, "projectSave") /\ SavePhase(t, 1)

\* Phase 2: the total is counted once; the loaded offset is written back.
Count(t) ==
  /\ At(t, "count")
  /\ row' = [row EXCEPT ![task[t].row].offset = wk[t].offset]
  /\ wk' = [wk EXCEPT ![t].pc = "check", ![t].total = Cardinality(live)]
  /\ UNCHANGED <<task, call, indexVars, esUp, crashes>>

\* Mutant: the batch loop without its cancel check.
BatchUnchecked(t) ==
  /\ At(t, "check")
  /\ GoTo(t, IF wk[t].offset < wk[t].total THEN "fetch" ELSE "issuesDone")
  /\ UNCHANGED <<row, task, call, indexVars, esUp, crashes>>

\* Mutant: the loop ends one issue early.
BatchCheckShort(t) ==
  /\ At(t, "check")
  /\ IF wk[t].offset + 1 < wk[t].total THEN StopOr(t, "fetch")
     ELSE GoTo(t, "issuesDone") /\ UNCHANGED task
  /\ UNCHANGED <<row, call, indexVars, esUp, crashes>>

\* The head of the batch loop, with its cancel check.
BatchCheck(t) ==
  /\ At(t, "check")
  /\ IF wk[t].offset < wk[t].total THEN StopOr(t, "fetch")
     ELSE GoTo(t, "issuesDone") /\ UNCHANGED task
  /\ UNCHANGED <<row, call, indexVars, esUp, crashes>>

\* Mutant: the progress is saved before the batch is written.
FetchSavesFirst(t) ==
  /\ At(t, "fetch")
  /\ \E batch \in Batches(wk[t].offset) :
       /\ wk' = IF batch = {} THEN [wk EXCEPT ![t].pc = "issuesDone"]
                ELSE [wk EXCEPT ![t].pc = "bulk", ![t].batch = batch]
       /\ row' = [row EXCEPT ![task[t].row].offset = wk[t].offset + Cardinality(batch)]
  /\ UNCHANGED <<task, call, indexVars, esUp, crashes>>

\* Mutant: an empty batch does not end the loop.
FetchNoBreak(t) ==
  /\ At(t, "fetch")
  /\ \E batch \in Batches(wk[t].offset) :
       wk' = [wk EXCEPT ![t].pc = "bulk", ![t].batch = batch]
  /\ UNCHANGED <<row, task, call, indexVars, esUp, crashes>>

\* fetchProjectIssuesBatch at the worker's offset; an empty batch ends the loop.
Fetch(t) ==
  /\ At(t, "fetch")
  /\ \E batch \in Batches(wk[t].offset) :
       wk' = IF batch = {} THEN [wk EXCEPT ![t].pc = "issuesDone"]
             ELSE [wk EXCEPT ![t].pc = "bulk", ![t].batch = batch]
  /\ UNCHANGED <<row, task, call, indexVars, esUp, crashes>>

\* History: one more batch after a cancel, counted up to two.
LateAfter(t) == IF row[task[t].row].stopped /\ wk[t].late < 2 THEN wk[t].late + 1
                ELSE wk[t].late

\* bulkIndexIssues: the documents fetched earlier are written; items that
\* Elasticsearch rejects are logged and passed over.
Bulk(t) ==
  /\ At(t, "bulk")
  /\ \E rejected \in SUBSET wk[t].batch :
       /\ lost + Cardinality(rejected) <= MaxLost
       /\ lost' = lost + Cardinality(rejected)
       /\ es' = es \union (wk[t].batch \ rejected)
  /\ wk' = [wk EXCEPT ![t].pc = "saveOffset", ![t].batch = {},
                      ![t].offset = @ + Cardinality(wk[t].batch),
                      ![t].late = LateAfter(t)]
  /\ UNCHANGED <<row, task, call, listVars, indexJobs, deleteJobs, esUp, crashes>>

SaveOffset(t) ==
  /\ At(t, "saveOffset")
  /\ row' = [row EXCEPT ![task[t].row].offset = wk[t].offset]
  /\ GoTo(t, "check")
  /\ UNCHANGED <<task, call, indexVars, esUp, crashes>>

IssuesDone(t) == At(t, "issuesDone") /\ SavePhase(t, 2)

\* Phase 3: a cancel check before the member list and before every member.
MembersCheck(t) ==
  /\ At(t, "members")
  /\ StopOr(t, "memberDocs")
  /\ UNCHANGED <<row, call, indexVars, esUp, crashes>>

MemberStop(t) ==
  /\ At(t, "memberDocs") /\ Cancelled(t)
  /\ Finish(t)
  /\ UNCHANGED <<row, call, indexVars, esUp, crashes>>

\* The last member's check is behind; the phase is saved.
MembersSave(t) == At(t, "memberDocs") /\ SavePhase(t, 3)

\* markReindexCompleted: unconditional.
Complete(t) ==
  /\ At(t, "complete")
  /\ row' = [row EXCEPT ![task[t].row].status = "completed", ![task[t].row].closed = TRUE]
  /\ GoTo(t, "done")
  /\ UNCHANGED <<task, call, indexVars, esUp, crashes>>

\* BullMQ moves the job of a processor that returned to completed.
Done(t) ==
  /\ At(t, "done")
  /\ Finish(t)
  /\ UNCHANGED <<row, call, indexVars, esUp, crashes>>

\* Mutant: one attempt too many.
ThrowOneMore(t) ==
  /\ task[t].state = "active" /\ esUp
  /\ LET last == task[t].attempts = MaxAttempts
     IN /\ task' = [task EXCEPT ![t].attempts = @ + 1,
                                ![t].state = IF last THEN "failed" ELSE "waiting"]
        /\ wk' = [wk EXCEPT ![t] = IF last THEN [Idle EXCEPT !.pc = "failed"] ELSE Idle]
  /\ UNCHANGED <<row, call, indexVars, esUp, crashes>>

\* An awaited call throws (a bulk or an update whose answer is lost may have been
\* applied): BullMQ retries with backoff until the attempts are used up.
Throw(t) ==
  /\ task[t].state = "active" /\ esUp
  /\ \E applied \in {{}, wk[t].batch} : es' = es \union applied
  /\ LET last == task[t].attempts + 1 = MaxAttempts
     IN /\ task' = [task EXCEPT ![t].attempts = @ + 1,
                                ![t].state = IF last THEN "failed" ELSE "waiting"]
        /\ wk' = [wk EXCEPT ![t] = IF last THEN [Idle EXCEPT !.pc = "failed"] ELSE Idle]
  /\ UNCHANGED <<row, call, listVars, indexJobs, deleteJobs, lost, esUp, crashes>>

\* The 'failed' event of the last attempt; an error of its update is only logged.
OnFailed(t) ==
  /\ wk[t].pc = "failed"
  /\ \/ row' = [row EXCEPT ![task[t].row] = MarkFailed(@)]
     \/ UNCHANGED row
  /\ wk' = [wk EXCEPT ![t] = Idle]
  /\ UNCHANGED <<task, call, indexVars, esUp, crashes>>

\* The worker process dies and starts again.  BullMQ's stall check returns its
\* jobs to the queue, or fails one that stalled too often; the 'failed' handler
\* ignores that failure because attempts are left.
Crash ==
  /\ crashes < MaxCrashes
  /\ crashes' = crashes + 1
  /\ esUp' \in BOOLEAN
  /\ wk' = [t \in Tasks |-> Idle]
  /\ task' = [t \in Tasks |->
       IF task[t].state # "active" THEN task[t]
       ELSE [task[t] EXCEPT !.stalls = @ + 1,
               !.state = IF task[t].stalls + 1 > MaxStalls THEN "failed" ELSE "waiting"]]
  /\ UNCHANGED <<row, call, indexVars>>

-----------------------------------------------------------------------------
(* Issues and their own search jobs                                        *)

\* IssuesService.create: the row, later than every other one, then an index-issue
\* job unless the enqueue fails.
CreateIssue(i) ==
  /\ i \notin issues
  /\ \A k \in issues : Stamp[k] <= Stamp[i]
  /\ issues' = issues \union {i} /\ live' = live \union {i}
  /\ \/ indexJobs' = indexJobs \union {i} /\ UNCHANGED lost
     \/ lost < MaxLost /\ lost' = lost + 1 /\ UNCHANGED indexJobs
  /\ UNCHANGED <<jobVars, call, strays, shifts, es, deleteJobs, esUp, crashes>>

\* IssuesService.update: an index-issue job (without it nothing changes here).
UpdateIssue(i) ==
  /\ i \in live \intersect Edited
  /\ indexJobs' = indexJobs \union {i}
  /\ UNCHANGED <<jobVars, call, listVars, es, deleteJobs, lost, esUp, crashes>>

\* IssuesService.softDelete queues delete-issue; bulkDelete, a project's archive and
\* bulkMove to another project queue nothing.
DeleteIssue(i) ==
  /\ i \in live /\ shifts < MaxShifts
  /\ live' = live \ {i} /\ shifts' = shifts + 1
  /\ deleteJobs' \in {deleteJobs, deleteJobs \union {i}}
  /\ UNCHANGED <<jobVars, call, issues, strays, es, indexJobs, lost, esUp, crashes>>

\* An issue comes to the project without a job, wherever its created_at puts it:
\* bulkRestore, bulkMove from another project (where it may have got a document), and
\* the rows the Jira migration and the file import insert or revive.
ArriveIssue(i) ==
  /\ i \in Issues \ live /\ shifts < MaxShifts
  /\ issues' = issues \union {i} /\ live' = live \union {i}
  /\ strays' = strays \union {i} /\ shifts' = shifts + 1
  /\ \/ i \notin issues /\ es' = es \union {i}
     \/ UNCHANGED es
  /\ UNCHANGED <<jobVars, call, indexJobs, deleteJobs, lost, esUp, crashes>>

\* The worker takes an index-issue or a delete-issue job; without Elasticsearch,
\* or on an error (these jobs have one attempt), it has no effect.
IndexIssue(i) ==
  /\ i \in indexJobs
  /\ indexJobs' = indexJobs \ {i}
  /\ \/ esUp /\ es' = es \union {i} /\ UNCHANGED lost
     \/ lost < MaxLost /\ lost' = lost + 1 /\ UNCHANGED es
  /\ UNCHANGED <<jobVars, call, listVars, deleteJobs, esUp, crashes>>

RemoveIssue(i) ==
  /\ i \in deleteJobs
  /\ deleteJobs' = deleteJobs \ {i}
  /\ \/ esUp /\ es' = es \ {i}
     \/ UNCHANGED es
  /\ UNCHANGED <<jobVars, call, listVars, indexJobs, lost, esUp, crashes>>

-----------------------------------------------------------------------------
WorkerStep(t) ==
  \/ SkipUnavailable(t) \/ Load(t) \/ Mark(t)
  \/ ProjectCheck(t) \/ ProjectSave(t)
  \/ Count(t) \/ BatchCheck(t) \/ Fetch(t) \/ Bulk(t) \/ SaveOffset(t) \/ IssuesDone(t)
  \/ MembersCheck(t) \/ MemberStop(t) \/ MembersSave(t)
  \/ Complete(t) \/ Done(t) \/ OnFailed(t)

CallStep(c) ==
  \/ StartInsert(c) \/ StartEnqueue(c)
  \/ RetryUpdate(c) \/ RetryEnqueue(c)
  \/ CancelUpdate(c) \/ CancelRemove(c)

IssueStep(i) ==
  \/ CreateIssue(i) \/ UpdateIssue(i) \/ DeleteIssue(i) \/ ArriveIssue(i)
  \/ IndexIssue(i) \/ RemoveIssue(i)

Next ==
  \/ \E c \in Clients : StartCheck(c) \/ CallStep(c) \/ CallFails(c)
  \/ \E c \in Clients, j \in Rows : RetryCheck(c, j) \/ CancelCheck(c, j)
  \/ \E t \in Tasks : Dispatch(t) \/ WorkerStep(t) \/ Throw(t)
  \/ \E i \in Issues : IssueStep(i)
  \/ Crash

Spec == Init /\ [][Next]_vars

\* The worker process keeps polling and running what it holds; users, API calls,
\* failures and crashes are under no obligation.
Fairness == \A t \in Tasks : WF_vars(Dispatch(t)) /\ WF_vars(WorkerStep(t))

FairSpec == Spec /\ Fairness

-----------------------------------------------------------------------------
(* Properties                                                              *)

\* Issues whose created_at no other issue has.
Untied == {i \in Issues : \A k \in Issues \ {i} : Stamp[k] # Stamp[i]}

\* The live issues a reindex answers for and that have neither a document nor a job
\* that will write one.  An issue that came without a job is found only if it comes
\* before a reindex passes its place, and ties are paged in no fixed order.
Missing == (live \intersect Untied) \ (strays \union es \union indexJobs)

\* Every document missing is explained: an issue that leaves the project before the
\* OFFSET makes the next batch skip one, an issue that comes before it pushes one
\* beyond the total counted at the start, and swallowed errors lose documents.
Explained(missing) == Cardinality(missing) <= shifts + lost

\* What a row's saved progress says is done is done: of the issues before its offset,
\* and of all issues once phase 2 is listed, no more are missing from the index than
\* shifts and losses explain (none when there were none), whichever workers, retries
\* and crashes produced that progress (search.worker.ts processReindexProject).
ResumeSound ==
  \A j \in Rows :
    Explained({i \in Missing : Rank(i) <= row[j].offset \/ 2 \in row[j].phases})

\* A completed reindex misses at most one issue for each issue that left the project
\* or came to it while the batches were walked, and for each document lost.
CompletedCovers ==
  \A j \in Rows : row[j].status = "completed" => Explained(Missing)

\* While a row is cancelled every worker that runs it writes at most one more
\* batch, the one it fetched before the cancel (checkReindexCancelled).
CancelledStops ==
  \A t \in Tasks :
    wk[t].pc # "idle" /\ row[task[t].row].status = "cancelled" => wk[t].late <= 1

\* No row is stuck: an active row that no queue job, 'failed' handler or API call
\* will touch again is reported as stalled, so retry() accepts it
\* (SearchReindexService.computeEffectiveStatus).
NoStuckRow ==
  \A j \in Rows :
    /\ row[j].status \in Active /\ LiveTasks(j) = {}
    /\ \A t \in TasksOf(j) : wk[t].pc = "idle"
    /\ \A c \in Clients : call[c].row # j
    => Stalled(row[j], QueueState(j))

\* The queue side never works on a completed row again unless it was retried: a
\* queue job delivered once more after a crash or a stall finds the row completed
\* and returns.  (A call that read the row before it completed may reopen it, and a
\* redelivery to a worker without Elasticsearch turns it into failed.)
CompletedUntilRetried ==
  [][\A j \in Rows :
       row[j].status = "completed" /\ row'[j].status \in Active =>
         call' # call \/ Retries(j) # {}]_vars

\* A pending row does not wait for ever behind a live queue job: it reaches a
\* final status or its last queue job ends (and NoStuckRow applies).
Settles ==
  \A j \in Rows :
    row[j].status = "pending" ~> row[j].status \in Terminal \/ LiveTasks(j) = {}

\* "worker will stop at next batch boundary" (search-reindex.service.ts:209): after
\* a cancel that no retry followed, a worker writes at most one more batch.
CancelStopsWorker ==
  \A t \in Tasks :
    wk[t].pc # "idle" /\ row[task[t].row].stopped => wk[t].late <= 1

\* "A search reindex is already in progress for this project"
\* (search-reindex.service.ts:82): one active row per project.
OneActiveRow == Cardinality({j \in Rows : row[j].status \in Active}) <= 1
=============================================================================
