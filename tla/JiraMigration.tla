---------------------------- MODULE JiraMigration ----------------------------
(***************************************************************************)
(* One Jira migration run: MigrationService (start, retry, cancel), its    *)
(* queue, and processJob of the worker, which imports in phases, records   *)
(* each in completed_phases and skips the recorded ones on the next        *)
(* attempt.  Messages of errors stay in memory until a phase writes them.  *)
(* One project of Jira is followed, which a start selects or not, as it    *)
(* selects comments or not; a page stands for the issues on it.  Each step *)
(* is one awaited statement, except that a page's inline comments and the  *)
(* progress written after them are one, and so are the statements that     *)
(* create the project.  Members, sprints, attachments and counters have no *)
(* content here.                                                           *)
(***************************************************************************)
EXTENDS Integers, FiniteSets

CONSTANTS
  Clients,      \* API calls in flight
  First,        \* the job id of start(): migration-<run>
  Retries,      \* job ids of retry(): one for each call
  Choices,      \* what a start can select: the project, its comments
  Requests,     \* bound: the starts that are asked for
  LastPage,     \* pages of issues in Jira
  MaxAttempts,  \* attempts of a job
  PhaseTries,   \* MAX_PHASE_RETRIES
  Concurrency,  \* jobs at work at a time
  MaxCalls,     \* bound: API calls ever made
  MaxFaults     \* bound: failures of a worker, of the database or of Jira

Phase == <<"members", "sync", "projects", "sprints", "issues", "comments", "attachments">>
Phases == {Phase[i] : i \in DOMAIN Phase}

ASSUME ConstantsAssumption ==
  /\ First \notin Retries
  /\ {} \in Choices /\ Choices \subseteq SUBSET {"project", "comments"}
  /\ Requests \subseteq [full: BOOLEAN, reset: BOOLEAN, chosen: Choices]
  /\ LastPage \in Nat \ {0} /\ MaxAttempts \in Nat \ {0} /\ PhaseTries \in Nat \ {0}
  /\ Concurrency \in Nat \ {0}
  /\ MaxCalls \in Nat /\ MaxFaults \in Nat

VARIABLES
  run,       \* jira_migration_runs: status, completed_phases, error_log, and chosen,
             \* what selectedProjects and options have of the project and its comments
  project,   \* projects: the one under the key of the Jira project
  issues,    \* issues: the pages of it that are there
  comments,  \* comments: the pages whose comments are there
  job,       \* the queue, and processJob of each job that runs
  call,      \* API calls in flight
  calls, faults,
  lost       \* history: what excuses a missing result

vars == <<run, project, issues, comments, job, call, calls, faults, lost>>
data == <<project, issues, comments>>
bounds == <<calls, faults>>

Pages == 1..LastPage
Jobs == {First} \cup Retries
\* A log keeps its last hundred messages.  Full is in it once there are as many: what else
\* is in it has been reported then, and may have been pushed out.
Full == <<"full", 0>>
Reports == ({"issues", "comments"} \X Pages) \cup {Full}

RunStatuses == {"pending", "processing", "completed", "failed", "cancelled"}

RunType == [status: RunStatuses, done: SUBSET Phases, log: SUBSET Reports, chosen: Choices]

JobType ==
  [state: {"none", "waiting", "active", "kept"},
   attempts: 0..MaxAttempts,
   full: BOOLEAN,             \* ~membersOnly
   reset: BOOLEAN,            \* resetBeforeImport
   pc: {"idle", "load", "mark", "wipe", "phase", "create", "pages", "inline",
        "fetch", "finish", "check", "close"},
   phase: DOMAIN Phase,
   tries: 1..PhaseTries,
   done: SUBSET Phases,       \* completed_phases as loaded
   chosen: Choices,           \* selectedProjects and options as loaded
   errors: SUBSET Reports,    \* errorLog: what is reported missing
   project: {"unknown", "known", "stale"},  \* the local project id
   known: SUBSET Pages,       \* jiraIssueKeyToLocalId
   map: {"none", "sends", "omits"},  \* issuesNeedingCommentPagination: not there, or
                              \* there and Jira sends comments with the issues or not
   inlined: BOOLEAN,          \* inlineCommentsInserted > 0
   page: 1..LastPage + 1,
   work: SUBSET Pages]        \* pages whose comments are still to be fetched

NoJob == [state |-> "none", attempts |-> 0, full |-> FALSE, reset |-> FALSE, pc |-> "idle",
          phase |-> 1, tries |-> 1, done |-> {}, chosen |-> {}, errors |-> {},
          project |-> "unknown", known |-> {}, map |-> "none", inlined |-> FALSE, page |-> 1, work |-> {}]

CallType == [pc: {"idle", "start_write", "start_add", "retry_write", "retry_add",
                  "cancel_write", "cancel_remove", "reset_delete"},
             full: BOOLEAN, reset: BOOLEAN, chosen: Choices]
NoCall == [pc |-> "idle", full |-> FALSE, reset |-> FALSE, chosen |-> {}]

Losses == {"import", "overlap", "reselected", "silent", "stuck"}

TypeOK ==
  /\ run \in RunType
  /\ project \in {"none", "native", "jira"}   \* jira_project_key IS NULL: native
  /\ issues \in SUBSET Pages
  /\ comments \in SUBSET Pages
  /\ job \in [Jobs -> JobType]
  /\ call \in [Clients -> CallType]
  /\ calls \in 0..MaxCalls /\ faults \in 0..MaxFaults
  /\ lost \in SUBSET Losses

Init ==
  /\ run = [status |-> "pending", done |-> {}, log |-> {}, chosen |-> {}]
  /\ project \in {"none", "native"}
  /\ issues = {} /\ comments = {}
  /\ job = [t \in Jobs |-> NoJob]
  /\ call = [c \in Clients |-> NoCall]
  /\ calls = 0 /\ faults = 0
  /\ lost = {}

-----------------------------------------------------------------------------
(* The API                                                                 *)

Pc(c, pc) == call[c].pc = pc
SetCall(c, next) == call' = [call EXCEPT ![c] = next]

Request(c, next) ==
  /\ Pc(c, "idle") /\ calls < MaxCalls
  /\ calls' = calls + 1
  /\ SetCall(c, next)
  /\ UNCHANGED <<run, data, job, faults, lost>>

SetStatus(c, status, next) ==
  /\ run' = [run EXCEPT !.status = status]
  /\ SetCall(c, [call[c] EXCEPT !.pc = next])
  /\ UNCHANGED <<data, job, bounds, lost>>

Queue(c, t, full, reset) ==
  /\ job' = [job EXCEPT ![t] = [NoJob EXCEPT !.state = "waiting", !.full = full,
                                             !.reset = reset]]
  /\ SetCall(c, NoCall)
  /\ UNCHANGED <<run, data, bounds, lost>>

StartLoad(c) ==
  /\ run.status # "processing"
  /\ \E asked \in Requests :
       Request(c, [pc |-> "start_write", full |-> asked.full, reset |-> asked.reset,
                   chosen |-> asked.chosen])

\* selectedProjects and options are replaced, completed_phases stay: what is recorded was
\* done for another selection, and a job at work goes on with the one it has loaded.
StartWrite(c) ==
  /\ Pc(c, "start_write")
  /\ run' = [run EXCEPT !.status = "pending", !.chosen = call[c].chosen]
  /\ lost' = IF /\ call[c].chosen # run.chosen
                /\ \/ run.done \cap {"projects", "issues", "comments"} # {}
                   \/ \E t \in Jobs : job[t].pc \notin {"idle", "load"}
             THEN lost \cup {"reselected"} ELSE lost
  /\ SetCall(c, [call[c] EXCEPT !.pc = "start_add"])
  /\ UNCHANGED <<data, job, bounds>>

\* The queue ignores an id it still has.
StartAdd(c) ==
  /\ Pc(c, "start_add")
  /\ IF job[First].state = "none"
     THEN Queue(c, First, call[c].full, call[c].reset)
     ELSE SetCall(c, NoCall) /\ UNCHANGED <<run, data, job, bounds, lost>>

RetryLoad(c) ==
  /\ run.status \in {"failed", "cancelled"}
  /\ Request(c, [NoCall EXCEPT !.pc = "retry_write"])

RetryWrite(c) == Pc(c, "retry_write") /\ SetStatus(c, "pending", "retry_add")

\* The request has neither membersOnly nor resetBeforeImport: the job imports everything.
RetryAdd(c) ==
  /\ Pc(c, "retry_add")
  /\ \E t \in Retries : job[t].state = "none" /\ Queue(c, t, TRUE, FALSE)

CancelLoad(c) ==
  /\ run.status \in {"processing", "pending"}
  /\ Request(c, [NoCall EXCEPT !.pc = "cancel_write"])

CancelWrite(c) == Pc(c, "cancel_write") /\ SetStatus(c, "cancelled", "cancel_remove")

\* An active job stays, and the job of a retry is not looked for.  The run is left behind if
\* the worker has overwritten its status since.
CancelRemove(c) ==
  /\ Pc(c, "cancel_remove")
  /\ IF job[First].state = "active" THEN UNCHANGED <<job, lost>>
     ELSE /\ job' = [job EXCEPT ![First] = NoJob]
          /\ lost' = IF job[First].state = "waiting" /\ run.status = "processing"
                     THEN lost \cup {"stuck"} ELSE lost
  /\ SetCall(c, NoCall)
  /\ UNCHANGED <<run, data, bounds>>

CallFails(c) ==
  /\ ~Pc(c, "idle")
  /\ SetCall(c, NoCall)
  /\ UNCHANGED <<run, data, job, bounds, lost>>

\* Every row goes with the project, if it is tagged as Jira's; jobs that hold ids of the
\* rows hold them in vain.  A native project is tagged when it is merged with Jira's.
DeleteData(jobs) ==
  LET holders == {t \in Jobs : jobs[t].project = "known" \/ jobs[t].known # {}}
  IN  IF project = "jira"
      THEN /\ project' = "none" /\ issues' = {} /\ comments' = {}
           /\ job' = [t \in Jobs |-> IF t \in holders THEN [jobs[t] EXCEPT !.project = "stale"]
                                     ELSE jobs[t]]
           /\ lost' = IF holders # {} \/ run.done \cap {"projects", "issues"} # {}
                      THEN lost \cup {"import"} ELSE lost
      ELSE job' = jobs /\ UNCHANGED <<data, lost>>

\* resetJiraData
ResetLoad(c) ==
  /\ run.status # "processing"
  /\ Request(c, [NoCall EXCEPT !.pc = "reset_delete"])

ResetDelete(c) ==
  /\ Pc(c, "reset_delete")
  /\ DeleteData(job)
  /\ SetCall(c, NoCall)
  /\ UNCHANGED <<run, bounds>>

-----------------------------------------------------------------------------
(* The queue                                                               *)

At(t, pc) == job[t].pc = pc
Name(t) == Phase[job[t].phase]
SetJob(t, next) == job' = [job EXCEPT ![t] = next]

\* Nothing keeps jobs of one run from being at work at the same time.
Pick(t) ==
  /\ job[t].state = "waiting"
  /\ Cardinality({u \in Jobs : job[u].state = "active"}) < Concurrency
  /\ SetJob(t, [job[t] EXCEPT !.state = "active", !.attempts = @ + 1, !.pc = "load"])
  /\ lost' = lost \cup (IF \E u \in Jobs : job[u].state = "active" THEN {"overlap"} ELSE {})
  /\ UNCHANGED <<run, data, call, bounds>>

\* What the queue keeps of a job once nothing of it runs.
Queued(t, state) ==
  [NoJob EXCEPT !.state = state, !.attempts = job[t].attempts, !.full = job[t].full,
                !.reset = job[t].reset]

\* Messages only in memory go, and the phase they are about is not run again.
Forgotten(t) ==
  IF job[t].errors \ run.log # {} /\ run.done \cap {"projects", "issues", "comments"} # {}
  THEN {"import"} ELSE {}

\* The job ends without an error.
Leave(t) ==
  /\ SetJob(t, Queued(t, "kept"))
  /\ lost' = lost \cup Forgotten(t)
  /\ UNCHANGED <<data, call, bounds>>

\* Something fails in this step.
Fault == faults < MaxFaults /\ faults' = faults + 1

\* A job is marked failed, with one more message, unless that fails too, and tried again if
\* attempts are left.
Throw(t) ==
  /\ \E marked \in BOOLEAN :
       /\ \E full \in SUBSET {Full} :
            run' = IF marked THEN [run EXCEPT !.status = "failed", !.log = @ \cup full] ELSE run
       /\ lost' = lost \cup Forgotten(t) \cup (IF marked THEN {} ELSE {"stuck"})
  /\ SetJob(t, Queued(t, IF job[t].attempts < MaxAttempts THEN "waiting" ELSE "kept"))
  /\ Fault
  /\ UNCHANGED <<data, call, calls>>

\* The worker dies: the job is found stalled and waits again, or has stalled too often.
Crash(t) ==
  /\ job[t].state = "active"
  /\ Fault
  /\ \E again \in BOOLEAN :
       /\ again => job[t].attempts < MaxAttempts
       /\ SetJob(t, Queued(t, IF again THEN "waiting" ELSE "kept"))
       /\ lost' = lost \cup Forgotten(t) \cup (IF again THEN {} ELSE {"stuck"})
  /\ UNCHANGED <<run, data, call, calls>>

\* removeOnComplete, removeOnFail: the newest jobs are kept.
Evict ==
  /\ job[First].state = "kept"
  /\ SetJob(First, NoJob)
  /\ UNCHANGED <<run, data, call, bounds, lost>>

-----------------------------------------------------------------------------
(* processJob                                                              *)

\* A step of job t that changes nothing but the job.
Go(t, next) ==
  /\ SetJob(t, next)
  /\ UNCHANGED <<run, data, call, bounds, lost>>
GoTo(t, pc) == Go(t, [job[t] EXCEPT !.pc = pc])

\* ... in which something fails.
Fails(t, next) ==
  /\ Fault
  /\ SetJob(t, next)
  /\ UNCHANGED <<run, data, call, calls, lost>>

\* Mutant: an attempt starts over.
LoadRunAfresh(t) ==
  /\ At(t, "load")
  /\ IF run.status = "cancelled"
     THEN Leave(t) /\ UNCHANGED run
     ELSE Go(t, [job[t] EXCEPT !.pc = "mark", !.chosen = run.chosen, !.errors = run.log])

LoadRun(t) ==
  /\ At(t, "load")
  /\ IF run.status = "cancelled"
     THEN Leave(t) /\ UNCHANGED run
     ELSE Go(t, [job[t] EXCEPT !.pc = "mark", !.done = run.done, !.chosen = run.chosen,
                               !.errors = run.log])

\* The status is not looked at again before it is overwritten.
MarkRun(t) ==
  /\ At(t, "mark")
  /\ run' = [run EXCEPT !.status = "processing"]
  /\ SetJob(t, [job[t] EXCEPT !.pc = IF job[t].reset /\ "members" \notin job[t].done
                                     THEN "wipe" ELSE "phase"])
  /\ UNCHANGED <<data, call, bounds, lost>>

\* Phase 0: what is selected goes.
Wipe(t) ==
  /\ At(t, "wipe")
  /\ IF "project" \in job[t].chosen
     THEN DeleteData([job EXCEPT ![t].pc = "phase"])
     ELSE SetJob(t, [job[t] EXCEPT !.pc = "phase"]) /\ UNCHANGED <<data, lost>>
  /\ UNCHANGED <<run, call, bounds>>

\* Mutant: the issues of an earlier attempt are not read again.
SkipPhaseNoReload(t) ==
  /\ At(t, "phase") /\ Name(t) \in job[t].done
  /\ Go(t, [job[t] EXCEPT
              !.pc = "check",
              !.project = IF Name(t) = "projects" /\ project # "none" THEN "known" ELSE @])

\* A phase recorded before this attempt is skipped; what it had found is read again.
SkipPhase(t) ==
  /\ At(t, "phase") /\ Name(t) \in job[t].done
  /\ Go(t, [job[t] EXCEPT
              !.pc = "check",
              !.project = IF Name(t) = "projects" /\ project # "none" THEN "known" ELSE @,
              !.known = IF Name(t) = "issues" THEN issues ELSE @])

\* An error of the database while the issues are read again counts as no issues.
IssuesNotReread(t) ==
  /\ At(t, "phase") /\ Name(t) = "issues" /\ Name(t) \in job[t].done
  /\ SetJob(t, [job[t] EXCEPT !.pc = "check"])
  /\ Fault
  /\ lost' = lost \cup {"silent"}
  /\ UNCHANGED <<run, data, call, calls>>

\* What fetching comments starts from: the pages with more comments than came inline, or
\* everything, when this attempt has not read the issues or no comment came inline.
WorkList(t) ==
  IF job[t].map # "none" /\ (job[t].work # {} \/ job[t].inlined)
  THEN job[t].work ELSE job[t].known

\* The phase has nothing to do.
Unchosen(t) ==
  \/ Name(t) = "projects" /\ "project" \notin job[t].chosen
  \/ Name(t) = "comments" /\ "comments" \notin job[t].chosen

Started(t, map) ==
  CASE Unchosen(t) -> [job[t] EXCEPT !.pc = "finish"]
    [] Name(t) = "projects" /\ ~Unchosen(t) -> [job[t] EXCEPT !.pc = "create"]
    [] Name(t) = "issues" -> [job[t] EXCEPT !.pc = "pages", !.map = map, !.page = 1,
                                            !.work = {}, !.inlined = FALSE]
    [] Name(t) = "comments" /\ ~Unchosen(t) ->
         [job[t] EXCEPT !.pc = "fetch", !.work = WorkList(t)]
    [] OTHER -> [job[t] EXCEPT !.pc = "finish"]

\* Most phases begin with writing the status, over a cancellation as well.
EnterPhase(t) ==
  /\ At(t, "phase") /\ Name(t) \notin job[t].done
  /\ run' = IF \/ Name(t) \in {"sync", "attachments"}
               \/ Name(t) = "comments" /\ Unchosen(t)
            THEN run ELSE [run EXCEPT !.status = "processing"]
  /\ \E map \in {"sends", "omits"} :
       /\ map = "sends" => "comments" \in job[t].chosen
       /\ SetJob(t, Started(t, map))
  /\ UNCHANGED <<data, call, bounds, lost>>

\* addError, once or once for each row: what the log can be after messages about reports.
Report(t, reports) == {job[t].errors \cup reports \cup full : full \in SUBSET {Full}}

\* A failure that is reported.
ReportsAndGoes(t, reports, next) ==
  \E errors \in Report(t, reports) : Fails(t, [next EXCEPT !.errors = errors])

\* Messages about what has no content here.
LogFills(t) ==
  /\ job[t].pc \in {"pages", "finish"} /\ Full \notin job[t].errors
  /\ Fails(t, [job[t] EXCEPT !.errors = @ \cup {Full}])

\* Phase 2
CreateProject(t) ==
  /\ At(t, "create")
  /\ project' = "jira"
  /\ SetJob(t, [job[t] EXCEPT !.pc = "finish", !.project = "known"])
  /\ UNCHANGED <<run, issues, comments, call, bounds, lost>>

NoProject(t) ==
  /\ At(t, "create")
  /\ ReportsAndGoes(t, {"issues"} \X Pages, [job[t] EXCEPT !.pc = "finish"])

\* Phase 4: a project that is not selected or has no local id is passed over.
Passes(t) == "project" \notin job[t].chosen \/ job[t].project = "unknown"

PagesDone(t) ==
  /\ At(t, "pages")
  /\ Passes(t) \/ job[t].page > LastPage
  /\ Go(t, [job[t] EXCEPT !.pc = "finish", !.page = 1])

\* Mutant: one page too many.
AtPageTooFar(t) ==
  At(t, "pages") /\ ~Passes(t) /\ job[t].page <= LastPage + 1

AtPage(t) == At(t, "pages") /\ ~Passes(t) /\ job[t].page <= LastPage

\* Mutant: only the page that was asked for is reported, not those behind it.
PageNotReadAlone(t) ==
  /\ AtPage(t)
  /\ ReportsAndGoes(t, {<<"issues", job[t].page>>},
                    [job[t] EXCEPT !.pc = "finish", !.page = 1])

\* Jira does not answer: the pages from here on are left out.
PageNotRead(t) ==
  /\ AtPage(t)
  /\ ReportsAndGoes(t, {"issues"} \X (job[t].page..LastPage),
                    [job[t] EXCEPT !.pc = "finish", !.page = 1])

InsertPage(t) ==
  /\ AtPage(t) /\ job[t].project = "known"
  /\ issues' = issues \cup {job[t].page}
  /\ SetJob(t, [job[t] EXCEPT !.pc = "inline", !.known = @ \cup {job[t].page}])
  /\ UNCHANGED <<run, project, comments, call, bounds, lost>>

\* The rows cannot be inserted, as a page and one by one: the project has gone, or a failure.
PageNotInserted(t) ==
  /\ AtPage(t)
  /\ \E errors \in Report(t, {<<"issues", job[t].page>>}) :
       LET next == [job[t] EXCEPT !.pc = "inline", !.errors = errors]
       IN  IF job[t].project = "stale" THEN Go(t, next) ELSE Fails(t, next)

\* The rows a job refers to are there.
Holds(t, p) == p \in issues /\ job[t].project # "stale"

\* All comments of the page come with it, or some and the rest is work for phase 5.
\* Whether they can be inserted or not, the log is written.
Flush(t, next) ==
  /\ SetJob(t, [next EXCEPT !.pc = "pages", !.page = @ + 1])
  /\ run' = [run EXCEPT !.log = next.errors]
  /\ UNCHANGED <<project, issues, call, calls, lost>>

Told(t, work) == [job[t] EXCEPT !.inlined = TRUE, !.work = @ \cup work]
Sent(t) == job[t].map = "sends" /\ job[t].page \in job[t].known

InlineComments(t) ==
  /\ At(t, "inline") /\ Sent(t) /\ Holds(t, job[t].page)
  /\ \E work \in {{}, {job[t].page}} :
       /\ comments' = IF work = {} THEN comments \cup {job[t].page} ELSE comments
       /\ Flush(t, Told(t, work))
  /\ UNCHANGED faults

InlineNotInserted(t) ==
  /\ At(t, "inline") /\ Sent(t)
  /\ \E work \in {{}, {job[t].page}}, errors \in Report(t, {<<"comments", job[t].page>>}) :
       Flush(t, [Told(t, work) EXCEPT !.errors = errors])
  /\ IF Holds(t, job[t].page) THEN Fault ELSE UNCHANGED faults
  /\ UNCHANGED comments

NoInline(t) ==
  /\ At(t, "inline") /\ ~Sent(t)
  /\ Flush(t, job[t])
  /\ UNCHANGED <<comments, faults>>

\* Phase 5
FetchComments(t) ==
  /\ At(t, "fetch")
  /\ \E p \in job[t].work :
       /\ Holds(t, p)
       /\ comments' = comments \cup {p}
       /\ SetJob(t, [job[t] EXCEPT !.work = @ \ {p}])
  /\ UNCHANGED <<run, project, issues, call, bounds, lost>>

CommentsNotInserted(t) ==
  /\ At(t, "fetch")
  /\ \E p \in job[t].work : \E errors \in Report(t, {<<"comments", p>>}) :
       LET next == [job[t] EXCEPT !.work = @ \ {p}, !.errors = errors]
       IN  IF Holds(t, p) THEN Fails(t, next) ELSE Go(t, next)

\* No answer from Jira counts as no comments.
CommentsNotRead(t) ==
  /\ At(t, "fetch")
  /\ \E p \in job[t].work : SetJob(t, [job[t] EXCEPT !.work = @ \ {p}])
  /\ Fault
  /\ lost' = lost \cup {"silent"}
  /\ UNCHANGED <<run, data, call, calls>>

CommentsDone(t) == At(t, "fetch") /\ job[t].work = {} /\ GoTo(t, "finish")

\* All phases but sync record themselves, two of them write the log as well.
FinishPhase(t) ==
  /\ At(t, "finish")
  /\ run' = [run EXCEPT !.done = IF Name(t) = "sync" THEN @ ELSE @ \cup {Name(t)},
                        !.log = IF Name(t) \in {"members", "attachments"}
                                THEN job[t].errors ELSE @]
  /\ SetJob(t, [job[t] EXCEPT !.pc = "check"])
  /\ UNCHANGED <<data, call, bounds, lost>>

\* runPhaseWithRetry: an attempt that throws is reported and repeated; after the last one the
\* job goes on with the next phase.
GivenUp(phase) ==
  CASE phase \in {"projects", "issues"} -> {"issues"} \X Pages
    [] phase = "comments" -> {"comments"} \X Pages
    [] OTHER -> {}

PhaseFails(t) ==
  /\ job[t].pc \in {"phase", "create", "pages", "inline", "fetch", "finish"}
  /\ Name(t) \notin job[t].done
  /\ IF job[t].tries < PhaseTries
     THEN ReportsAndGoes(t, {}, [job[t] EXCEPT !.pc = "phase", !.tries = @ + 1])
     ELSE ReportsAndGoes(t, GivenUp(Name(t)), [job[t] EXCEPT !.pc = "check"])

\* After each phase but the last the job looks whether it has been cancelled.
Check(t) ==
  /\ At(t, "check")
  /\ LET next == [job[t] EXCEPT !.tries = 1, !.phase = @ + 1, !.pc = "phase",
                               !.map = IF Name(t) = "comments" THEN "none" ELSE @,
                               !.known = IF Name(t) = "comments" THEN {} ELSE @,
                               !.inlined = @ /\ Name(t) # "comments"]
     IN  IF Name(t) = "attachments" THEN GoTo(t, "close")
         ELSE IF run.status = "cancelled" THEN Leave(t) /\ UNCHANGED run
         ELSE IF Name(t) = "sync" /\ ~job[t].full THEN GoTo(t, "close")
         ELSE Go(t, next)

\* A members-only job ends without writing the log.
CloseMembers(t) ==
  /\ At(t, "close") /\ ~job[t].full
  /\ run' = [run EXCEPT !.status = "completed", !.done = @ \cup {"sync"}]
  /\ Leave(t)

Close(t) ==
  /\ At(t, "close") /\ job[t].full
  /\ run' = [run EXCEPT !.status = "completed", !.log = job[t].errors]
  /\ SetJob(t, Queued(t, "kept"))
  /\ UNCHANGED <<data, call, bounds, lost>>

\* Mutant: the error is swallowed, nothing is marked or tried again.
JobFailsQuietly(t) ==
  /\ job[t].pc \in {"load", "mark", "wipe", "check", "close"}
  /\ Leave(t)
  /\ UNCHANGED run

\* Everything outside the phases throws through processJob, reading users and projects again
\* as well.
JobFails(t) ==
  /\ \/ job[t].pc \in {"load", "mark", "wipe", "check", "close"}
     \/ At(t, "phase") /\ Name(t) \in job[t].done \cap {"members", "projects"}
  /\ Throw(t)

-----------------------------------------------------------------------------
(* The system                                                              *)

CallStep(c) ==
  \/ StartLoad(c) \/ StartWrite(c) \/ StartAdd(c)
  \/ RetryLoad(c) \/ RetryWrite(c) \/ RetryAdd(c)
  \/ CancelLoad(c) \/ CancelWrite(c) \/ CancelRemove(c)
  \/ ResetLoad(c) \/ ResetDelete(c) \/ CallFails(c)

WorkerStep(t) ==
  \/ Pick(t) \/ LoadRun(t) \/ MarkRun(t) \/ Wipe(t)
  \/ SkipPhase(t) \/ IssuesNotReread(t) \/ EnterPhase(t) \/ LogFills(t)
  \/ CreateProject(t) \/ NoProject(t)
  \/ PagesDone(t) \/ PageNotRead(t) \/ InsertPage(t) \/ PageNotInserted(t)
  \/ InlineComments(t) \/ InlineNotInserted(t) \/ NoInline(t)
  \/ FetchComments(t) \/ CommentsNotInserted(t) \/ CommentsNotRead(t) \/ CommentsDone(t)
  \/ FinishPhase(t) \/ PhaseFails(t) \/ Check(t)
  \/ CloseMembers(t) \/ Close(t) \/ JobFails(t)

Next ==
  \/ \E c \in Clients : CallStep(c)
  \/ \E t \in Jobs : WorkerStep(t) \/ Crash(t)
  \/ Evict

Spec == Init /\ [][Next]_vars

\* A worker goes on with the jobs it has and takes those that wait.
Fairness == \A t \in Jobs : WF_vars(WorkerStep(t))
FairSpec == Spec /\ Fairness

-----------------------------------------------------------------------------
(* Properties                                                              *)

\* Job t completes the run in this step.
Closes(t) == At(t, "close") /\ job[t].full /\ run'.status = "completed" /\ job'[t].pc = "idle"

\* A run reports itself completed only if every issue of a project it was started for is
\* there or reported missing in the error_log it ends with, as long as that holds fewer than
\* its hundred messages, whatever attempts, phases and inserts have failed on the way:
\* completed_phases of an earlier attempt never hide a phase that did not import.  Excused are
\* data deleted after the import, messages that were only in memory when an attempt ended,
\* two jobs of the run at work at the same time, and a later start that selects something
\* else.  (jira-migration.processor.ts:591)
ImportComplete ==
  [][\A t \in Jobs :
       /\ Closes(t) /\ "project" \in run'.chosen /\ Full \notin run'.log
       /\ lost' \cap {"import", "overlap", "reselected"} = {}
       => Pages \subseteq issues' \cup {p \in Pages : <<"issues", p>> \in run'.log}]_vars

\* ... and, if comments were asked for, the comments of the issues that are there, or a
\* message about them: those that came with the issues, were left for phase 5, or were fetched
\* again after a restart lost the list of what was left.  Excused are also a request to Jira
\* that failed, which counts as no comments, and a failure to read the issues again, which
\* counts as no issues.  (jira-migration.processor.ts:2284)
CommentsComplete ==
  [][\A t \in Jobs :
       /\ Closes(t) /\ {"project", "comments"} \subseteq run'.chosen /\ Full \notin run'.log
       /\ lost' \cap {"import", "overlap", "reselected", "silent"} = {}
       => issues' \subseteq comments' \cup {p \in Pages : ({"issues", "comments"} \X {p})
                                                            \cap run'.log # {}}]_vars

\* A phase that an earlier attempt recorded is not run again: while one job of the run works,
\* no page of issues is inserted once the issues are recorded.  (jira-migration.processor.ts:3241)
ResumeSkips ==
  [][\A p \in Pages : p \in issues' \ issues /\ "overlap" \notin lost =>
       "issues" \notin run.done]_vars

\* A run that says processing ends: completed, failed or cancelled, through retries of
\* phases, attempts of jobs and restarts.  Not if its job has stalled too often or could not
\* be marked failed: nothing looks for runs whose job is gone.  (jira-migration.processor.ts:3357)
ProcessingEnds ==
  (run.status = "processing") ~>
    (run.status # "processing" \/ "stuck" \in lost)

\* What DTO and comment say of resetBeforeImport: the project is deleted before this run
\* imports, never after.  (start-migration.dto.ts:33)
ResetBeforeImport ==
  [][\A t \in Jobs : At(t, "wipe") /\ project' # project => "issues" \notin run.done]_vars
=============================================================================
