# Boardupscale: models, checks and proofs

Boardupscale is a project tracker: a NestJS API (`services/api`), a worker
(`services/worker`) that runs BullMQ jobs out of Redis, a React client
(`services/web`), an MCP server (`services/mcp`), PostgreSQL, and Elasticsearch
for search. Paths below are relative to the repository.

This directory holds TLA+ models of the parts of it where several API calls,
several workers, a queue that delivers a job again, and crashes meet in the same
rows; the TLC configurations that check them; and TLAPS proofs of the results
that should hold whatever the number of clients, rows, jobs and crashes.

## Contents

| file | what it is |
| --- | --- |
| `SearchReindex.tla` | the durable reindex of a project: API calls, rows, queue, workers, index |
| `SearchReindexProofs.tla` | all safety properties of the reindex: types, saved progress never ahead of the index, what a completed reindex covers, cancels that stop workers, no stuck row |
| `ProjectKeys.tla` | project keys and aliases, issue numbers and keys, renames, moves, imports, the migration's issues |
| `ProjectKeysProofs.tla` | types, keys resolve, issue keys are unique |
| `WebhookDelivery.tla` | outgoing webhooks: emit, deliver, retry, retry by hand |
| `WebhookDeliveryProofs.tla` | types, bounded attempts, no dropped delivery or retry, one retry per run, none of a success |
| `SprintBoard.tla` | sprints, the columns of a board and the issues in both: start, hand-over, complete, reorder, save |
| `SprintLifecycle.tla` | what the sprint calls promise, each as one step: the abstract specification |
| `SprintBoardProofs.tla` | types, one active sprint, `SprintBoard` implements `SprintLifecycle` |
| `SprintBoardDataProofs.tla` | what completion, hand-over, removal of a column and reorder leave of issues and columns |
| `SprintLifecycleProofs.tla` | the lifecycle has one active sprint at a time |
| `JiraMigration.tla` | one migration run: its calls, its queue, the phases of the worker, what they import and report |
| `JiraMigrationProofs.tla` | types, recorded phases are not repeated, a completed run has or reports everything |
| `OrgMembership.tla` | members of an organization: invite, accept, revoke, change role, deactivate, merge, migrate, sign on |
| `OrgMembershipProofs.tla` | types, removals and acceptances do what they say, passwords stay, how a last owner can go |
| `MC*.tla`, `*.cfg` | the instances TLC checks (section "Runs") |
| `PROJECT.json` | components, map from definitions to source lines, runs, mutants, hazards, findings, theorems |

Run `tlc -config X.cfg MCModule.tla` for a check and `tlapm Module.tla` for proofs.

## Inventory

| component | state | operations | what is hard |
| --- | --- | --- | --- |
| Search reindex (`search-reindex.service.ts`, `search.worker.ts`) | rows of `search_reindex_jobs`, jobs of the queue `search-index`, the worker's copy of phases and offset | start, retry, cancel, stall detection; phases 1-3 with saved progress | calls of check-then-write; the queue retries and redelivers; two workers on one row; cancel against a running worker |
| Single-document index jobs (`search-index-queue.service.ts`, same worker) | queue jobs, Elasticsearch documents | index and delete per issue, member, comment, page, project | three jobs at a time; fire and forget |
| Project keys (`projects.service.ts`) | `projects.key`, `next_issue_number`, `project_key_aliases` | create, rename, plain save, resolve | values read before the transaction that uses them; whole-entity saves |
| Issue numbers (`issues.service.ts`, `import.worker.ts`, `jira-migration.processor.ts`) | `issues.project_id`, `number`, `key` | create, bulkMove, import, migrate | three ways of numbering (read-then-write, atomic, highest plus rank); prefix read before a rename |
| Webhooks (`webhooks.service.ts`, `webhook-event-emitter.service.ts`, `webhook.worker.ts`) | `webhooks`, `webhook_deliveries`, jobs of the queue `webhooks` | emit, deliver, automatic retry, retry by hand, switch, delete | a row and its job are two statements; stalls repeat a POST |
| Sprints (`sprints.service.ts`) | `sprints.status`, `issues.sprint_id` | start, hand over, complete, delete | one active sprint by check-then-save; moves by ids read earlier |
| Boards (`boards.service.ts`) | `issue_statuses`, `issues.status_id`, WIP limits | reorder, status create, change, delete | limit counted before the move; fallback column chosen before the removal |
| Jira migration (`jira-migration.processor.ts`, `migration.service.ts`) | `jira_migration_runs`, the queue, the imported rows, the worker's memory of ids, errors and open comments | start, retry, cancel, reset; phases with attempts of their own | phases given up, attempts that resume, two jobs on one run, messages only in memory |
| Organizations (`organizations.service.ts`, acceptance in `auth.service.ts`) | `organization_members`, `users.organization_id`, role, invitation status | invite, resend, accept, revoke, change role, deactivate, repair | two tables say who is a member; count-then-write; whole-row saves |
| Sessions (`auth.service.ts`, `web/src/lib/api.ts`) | refresh tokens, browser storage | login, refresh, logout | rotation by read-then-revoke; several tabs |
| Automation, notifications, e-mail | rules, rows, jobs | fan-out per event | delivery once or more |
| The rest (pages, comments, files, reports, AI, GitHub, messages, users, versions, custom fields, audit, billing) | one table each | create, read, update, delete | little concurrency of their own |

How they interact: controllers call services; services write PostgreSQL through
TypeORM (`save(entity)` writes a loaded entity back) and add BullMQ jobs; the
worker process runs the jobs with a fixed concurrency and writes the same tables
with plain SQL. A rename starts a reindex (`projects.service.ts:435`), creating,
changing and deleting issues adds index jobs and emits webhook events, and the
import worker and the migration write projects and issues next to the API. There
is no lock across an `await`: between two awaited statements anything may happen.

What makes each component correct, in one line each: *reindex*: saved progress is
true, a completed row means an indexed project, a cancelled row stops its workers,
no row blocks the project unnoticed. *Keys*: a key a project had leads to it for
ever, an issue key names one issue. *Webhooks*: every queued delivery ends, a
promised retry happens, retries are bounded and only of failures. *Sprints*: at
most one active sprint, nothing open left in a completed one, no completed or
deleted sprint that comes back. *Boards*: always a column, no issue without one, no
column over its limit. *Migration*: a completed run has imported every issue and comment or
says what it has not, recorded phases are not run again, a run in progress ends.
*Organizations*: there is always an owner, an activated account stays so, whoever is
removed is out and whoever accepts is in. *Sessions*: a refresh token is good for one
successor.

## The models

They share their conventions. One action is one awaited statement of the
code, or one transaction where the code opens one. A process is a record in a
function (`wk[t]`, `call[c]`, `op[c]`) with a `pc` that names the *next* awaited
statement and exactly the local values the code uses after it, so values that are
read early and used late are stale in the model too. An awaited call may fail
wherever the code can meet an exception, and a process may stop between any two
statements. History variables (`stopped`, `late`, `lost`, `strays`, `shifts`, `had`, `raced`,
`parent`, `reset`, `stale`, `imported`, and the field `dirty` of a call) are never read by a
guard of the code's actions, but for the bound on `shifts`.

### SearchReindex

One project. `row` is the table, `task` the reindex jobs of the queue, `wk` the
locals of `processReindexProject` for each job, `call` the API calls in flight,
`issues` the issues that are or were of the project, `live` those a query finds, `es` their
documents, `indexJobs` and `deleteJobs` the single-issue jobs that other code queues
meanwhile. `Stamp` is `created_at`: numbers that may be equal.

* `StartCheck`, `StartInsert`, `StartEnqueue`; `RetryCheck`, `RetryUpdate`,
  `RetryEnqueue`; `CancelCheck`, `CancelUpdate`, `CancelRemove`: the three methods of
  `SearchReindexService`, statement by statement. `CanRetry` holds the refusals of
  `retry`, with `QueueState` (`resolveQueueState`: latest retry job, else the original)
  and `Stalled` (`computeEffectiveStatus`). Ages are not modelled: a row being
  processed may always have gone thirty minutes without progress, and a queue that
  cannot be read answers "unknown".
* `Dispatch`, `SkipUnavailable`, `Load`, `Mark`, then per phase a cancel check, the work
  and the saved progress: `ProjectCheck` and `ProjectSave`; `Count`, `BatchCheck`, `Fetch`,
  `Bulk`, `SaveOffset`, `IssuesDone`; `MembersCheck`, `MemberStop`, `MembersSave`; `Complete`,
  `Done`. A batch (`Batches`) is `OFFSET ... LIMIT` over the live issues in one of their
  `Orders` by `created_at`, ties in any order and in another one for the next query; it is
  evaluated when it is fetched and written in a later step.
* `Throw` (any awaited call rejects; a bulk may have been applied all the same),
  `OnFailed` (the handler of the last attempt, whose own error is only logged) and
  `Crash` (all workers restart, BullMQ's stall check queues their jobs again or fails
  those that stalled too often).
* `CreateIssue`, `UpdateIssue`, `DeleteIssue`, `IndexIssue`, `RemoveIssue`: single issues and their jobs.
  `DeleteIssue` is every way an issue leaves the project: `softDelete` queues a job, `bulkDelete`,
  the archive of the project and `bulkMove` to another one queue none.
* `ArriveIssue`: an issue comes to the project, at any place in the order and without a job:
  `bulkRestore`, `bulkMove` from another project, and the rows the Jira migration and the file
  import insert with their own `created_at` or revive (`deleted_at = NULL`).

So the list a reindex pages through changes in front of and behind its `OFFSET`. What is promised
is stated for that: an issue that leaves before the offset makes the next batch pass over one, an
issue that comes before it pushes one beyond the total counted at the start, and each such shift
costs one document (`shifts`, `lost`, `Explained`). Two kinds of issues are not answered for:
`strays`, which came without a job and are found only if they came in time, and issues that share
their `created_at` with another one (`Untied` are the rest), which two queries may order in two ways.
`StampTied` makes the issue that comes as old as another.

### ProjectKeys

One organization; the writers are the API, the import worker and the Jira migration.
`key`, `alias`, `next` and `issue` are the tables, `op[c]` is a call of one user, an import or a
migrated project. A key of an issue is the text `PREFIX-number`: `issue[i]` keeps the prefix
and the number in the key (`keyNumber`) beside the issue's own `number`. Every statement but the
migration's makes the two the same (`Numbered`).

* `CreateProjectCheck`, `CreateProjectInsert`: `create`.
* `SettingsLoad`, then `RenameCheck`, `RenameCommit` or `SettingsSave`: `update`. A rename is a
  transaction (alias, key, keys of the issues); any other change saves the loaded
  entity, key and counter included.
* `IssueLoad`, `NumberRead`, `NumberWrite`, `IssueInsert`: `create` of an issue with
  `getNextIssueNumber`. `MoveLoad`, `MoveReserve`, `MoveIssues`: `bulkMove`, which reserves a
  block atomically. `bulkMove` destructures `rows` from the answer of the driver, and
  whether it goes on depends on the driver's shape: `Leave` lets it end there.
* `ImportInto` or `ImportLookup` and `ImportProject`, then `ImportReserve` and `ImportInsert` for each
  issue: the import worker.
* `MigrateProject` (insert unless a project has the key), `MigrateFind` (look it up again), then any
  number of `MigrateIssues`, each a page in one statement or a single issue when that
  failed, and `MigrateCounter`: the migration of one Jira project. An issue keeps its Jira
  key; its number is its Jira number if free (`NumberFree`), else the highest of the project plus its
  rank in the page. Ranks follow the number here, the text of the key in the code.
* `Leave`: a statement fails, a constraint refuses, the process stops.

`raced` becomes true when a project takes a key its call could no longer have
chosen at that moment (the check is stale, the alias was taken, the entity was
loaded before another rename). `IssueKeysUnique` also excuses an issue the migration
`Renumbered`, whose key may be that of the issue that has its number. `KeysResolve` and `IssueKeysUnique` are stated for
behaviours without such a race, and `project_keys_old_keys` shows what the race does.

### WebhookDelivery

`hook`, `delivery` and `task` are the two tables and the queue, `wk` the processors,
`call` the emit and retry calls in flight.

* `Emit`, `FindWebhooks`, then for each webhook `CreateDelivery` and `AddJob` or `EmitError`: the
  emitter. Rows and jobs are two statements.
* `Dispatch`, `Post`, `ReadAttempt`, `UpdateDelivery`, then when a retry is due `InsertRetry` or
  `InsertRefused` (the foreign key, after the webhook was deleted) and `AddRetry`; `Done`.
* `RetryLoad`, `RetrySave`: the route that retries by hand, which then emits the event again.
* `Switch`, `Delete`; `Throw`, `CallFails`, `Crash`.

`lost` becomes true when an error dropped something the code only logs: a job not
added, a job failed after its POST. Statements about "no delivery is forgotten" are
for behaviours without such an error; a crash alone is no excuse, except in the one
window (a retry row inserted, its job not added yet) that `Crash` marks.

### SprintBoard and SprintLifecycle

One project. `sprint`, `issue` and `column` are the tables `sprints`, `issues` (sprint and status) and
`issue_statuses` (category and hand-over policy); `call[c]` is a call in flight with the rows it has
loaded.

* `CreateSprint`; `UpdateLoad`, `UpdateSave`: `update`, whose `save` writes the status it loaded;
  `StartLoad`, `StartFind`, `StartCount`, then `StartHandOver` (the transaction that locks both
  sprints) or `StartSave` (no lock); `CompleteLoad`, `CompleteTarget`, `CompleteDone`,
  `CompleteFind`, `CompleteMove`, `CompleteSave`; `DeleteLoad`, `DeleteUnassign`, `DeleteRemove`.
* `AddColumn`; `ColumnLoad`, `ColumnSave`; `ColumnRemoveLoad`, `ColumnList`, `ColumnRefill`,
  `ColumnRemove`: the statuses of the board. `ReorderLoad`, `ReorderCheck`, `ReorderMove`: `reorderIssues`.
* `IssueLoad`, `IssueSave`: `update` of an issue, the whole row. `BulkSprint`, `BulkColumn`: `bulkUpdate`
  (one that sets both fields is two of these).
* `ImportSprint`: the Jira migration finds a sprint by its name or by Jira's id, or inserts it, and
  writes the status it has in Jira, with none of the checks of the service. The issues a migration
  upserts are `BulkSprint` and `BulkColumn`, the statuses that it or an import adds `AddColumn`; these keep
  the default policy, so a done column of theirs blocks a hand-over (`done_blocks`), which one saved by
  the API never does.
* `CallFails`: a statement fails or the process stops; nothing is rolled back outside
  the hand-over.

Simplifications, each harmless for the properties: `save()` of TypeORM, which selects
the row again and then updates or inserts, is one step; so are consecutive reads of one
check in `reorderIssues`; a reorder names one column and one sprint for all its issues;
a migration that writes many sprints in one statement takes a step for each;
foreign keys are `SprintRef` and `ColumnRef`, `ON DELETE SET NULL` is part of the deletes.
Whether the active sprint has ended is open whenever a call asks (clocks are not
modelled).

Every write marks the tables it changes in `dirty` of the other calls; a call that
writes a table it has marked puts it in `stale`. So "undisturbed" says exactly that no
other call wrote the table between the first read of a call and its write, and
properties of one call can be stated in the presence of any others.

`SprintLifecycle` is what a user of `SprintsService` may rely on: `Create`, `Start`, `HandOver`, `Complete`
and `Delete` in one step each, `Import` for what the migration writes beside it, and `Disturb` after
which nothing is promised. `imported` remembers that an `Import` brought an active sprint: from then on two
may be active. `SprintBoard` implements it under `status <- sprint, disturbed <- "sprints" \in stale`.

### JiraMigration

One run, and one Jira project that a start selects or not, as it selects comments or not (`Choices`,
`chosen`). `run` is the row (status, completed phases, error log, selection), `project`, `issues` and `comments` what is imported (a page stands for the issues on it), `job[t]` a queue
job with the locals of `processJob`, `call` the API calls. The first job id is `migration-<run>`, a
retry queues another one, and nothing keeps two jobs of one run apart.

* `StartLoad`, `StartWrite`, `StartAdd`; `RetryLoad`, `RetryWrite`, `RetryAdd`; `CancelLoad`, `CancelWrite`,
  `CancelRemove`; `ResetLoad`, `ResetDelete`: `MigrationService`. `CancelRemove` looks for the first job only.
  `StartWrite` replaces the selection and keeps the completed phases.
* `Pick`, `LoadRun`, `MarkRun`, `Wipe`; for each of the seven phases `SkipPhase` (recorded: what it found is
  read again; `IssuesNotReread` when that fails for the issues, which counts as "no issues") or `EnterPhase`, its work, `FinishPhase`, `Check` (the look at a cancellation); then `Close`
  or `CloseMembers`. The work: `CreateProject`; page by page `InsertPage`, then `InlineComments` and
  the log; `FetchComments` of `WorkList`, the pages whose comments did not all come inline.
* Failures: `NoProject`, `PageNotRead`, `PageNotInserted`, `InlineNotInserted`, `CommentsNotInserted`, `CommentsNotRead`
  are the `catch` blocks that report and go on; `PhaseFails` is `runPhaseWithRetry`, which tries
  again and then goes on with the next phase; `JobFails` throws out of `processJob`; `Crash` is a
  worker that dies and the stall check of the queue; `Evict` the removal of old jobs.

The error log keeps its last hundred messages, in memory and in the row (`addError`). Every message may be
the hundredth, one page that fails row by row may bring as many, and messages about what has no content
here come as well (`LogFills`): then `Full` is in the log, and what else is in it may have been
pushed out. A message costs one of the failures of the instance.

`lost` names what excuses a missing result: `import` (rows deleted after they were
imported, or messages that were only in memory when an attempt ended), `overlap` (two jobs at
work), `reselected` (a start with another selection while phases are recorded or a job works with
the one it has loaded), `silent` (a failed request for comments, or a failed reload of the
recorded issues, that counts as "none"), `stuck` (a job
that could not be marked failed, stalled too often, or was removed under a status just
overwritten).

### OrgMembership

One organization, "here", and the others, "else". `user[u]` is the row of `users`, `member[u]` the
role in `organization_members`, `elsewhere[u]` a membership in another one, `projects` the users that
projects and issues refer to. Two tables say who belongs: `Listed` is `getMembers`, `RoleHere` the
role the organization sees, `Owners` those who own it by either table.

* `InviteKnown`, `InviteNew`, `InviteInsert`, `InviteCreate`, `InviteMember`, `Send`: `inviteMember` and the link it
  sends; `ResendLoad`, `ResendPending`. `RevokeLoad`, `RevokeRemove`, `RevokeCount`, `RevokeDelete`, `RevokeDetach`.
* `RoleLoad`, `RoleCount`, `RoleSave`, `RoleUser`: `updateMemberRole`; `DeactLoad`, `DeactCount`, `DeactRemove`,
  `DeactOthers`, `DeactDisable`: `deactivateMember`.
* `AcceptLoad`, then `AcceptExpired` and `ExpiredSave` when the link is too old, or `AcceptActivate`,
  `AcceptStrip` (the first activation deletes the memberships of other organizations),
  `AcceptHome` and `HomeSave`, `AcceptMember`, `AcceptClear` and `ClearSave`, `RepairAfter`:
  `acceptInvitation`. Its three updates go through `UsersService.update`, which reads the row again
  (`ReadAgain`, the field `again` of a call) and saves all of it (`SaveAgain`): what another
  call wrote in between is undone, and a row deleted in between is back. `Repair` is the
  same repair asked for by an administrator.
* `Import`, `ImportMember`: the members phase of the Jira migration, account and membership.
  `EmailLoad`, `EmailSave`: `updateMigratedMemberEmail`. `MergeLoad`, `Merge`: `confirmMergeAndInvite` and
  its transaction, which commits as a whole or not at all. `BulkInvite`: `bulkInvitePending`, one
  account of its list.
* `OauthLoad`, `OauthMember`: a login that finds an account by its e-mail; `SamlLoad`, `SamlCreate`,
  `SamlMember`, `RepairAfter`: `findOrCreateSamlUser`. `RowLoad`, `RowSave`: `UsersService.update` and
  `updateMemberInfo`; `DeactivateUser`: `DELETE /users/:id`; `ResetPassword`.
* `Refer`: an issue or a project comes to refer to a member (external to this module). `Admins` are
  those the route guards let through: an owner or administrator with an active account.
* `OtherInvite`, `OtherRemove`: the same calls of another organization, as far as they touch the
  account. `CallFails` as above.

`link` is the organization of the invitation whose token is good: the one it names or, when
the invitation names none, the home of the account at the time it is used.

## Runs

| run | instance | shows |
| --- | --- | --- |
| `search_reindex_overlap` | 1 client, 1 row, 2 queue jobs, 3 issues in batches of 1, two of them with one `created_at`, 1 shift | a retry beside a running job, a cancel at every point of both, an issue that leaves or comes between batches: `ResumeSound`, `CompletedCovers`, `CancelledStops`, `NoStuckRow` |
| `search_reindex_faults` | 1 row, 1 queue job with 2 attempts and a stall, 1 crash, 1 lost document, 1 shift, an issue created on the way; fair | `CompletedCovers`, `CompletedUntilRetried`, `Settles` |
| `search_reindex_cancel` | the smallest instance with a cancel | violated: `CancelStopsWorker` |
| `search_reindex_starts` | 2 clients, 2 rows | violated: `OneActiveRow` |
| `project_keys_calls` | 2 clients, 2 projects, 3 keys, 2 issues, 4 calls | `KeysResolve`, `IssueKeysUnique` |
| `project_keys_old_keys` | the same, 3 calls | violated: `OldKeysResolve` |
| `webhook_delivery` | 1 webhook, 1 event, 1 retry by hand, 3 deliveries and jobs, 2 attempts, 1 stall, 1 crash, 2 workers; fair | the six invariants and `DeliveryEnds` |
| `webhook_manual_retry` | 2 webhooks | violated: `RetriedIsPickedUp` |
| `sprint_board` | 2 calls at once, 2 in all, 2 sprints, 2 issues, 2 columns, WIP limit 1 | `OneActiveUnlessStale`, `ColumnRemains`, the refinement `LifecycleKept`, `NothingOpenLeft`, `BlockersHoldHandOver`, `NoIssueLosesColumn`, `WipChecked` |
| `jira_migration` | 2 calls in sequence, everything or nothing selected, 1 retry job, 2 pages, 2 attempts of a job, 1 of a phase, 1 failure, 2 jobs at a time; fair | `ImportComplete`, `CommentsComplete`, `ResumeSkips`, `ProcessingEnds` |
| `jira_migration_reset` | 1 client, 1 call, 3 attempts of a job and of a phase, 4 failures | violated: `ResetBeforeImport` |
| `org_membership` | founder and a second user in six beginnings, 2 calls at once, 3 in all | `LastOwnerStays`, `ActivationKept`, `RemovedOut`, `AcceptedIn` |

Deadlock is not checked: the bounds stop every instance, and a system without
requests and jobs stands still rightly.

Why the bounds are enough to see the interesting cases. *Reindex*: a row with two
queue jobs is the smallest with two workers on one row (a retry of a row that only
looks stalled); two issues in batches of one give a batch before and a batch after
every event, an offset that an issue leaving or coming can shift, and progress between the two; the
third can come in front of both or be created behind them, and `Edited` (which issues users update)
is that one. Two
attempts, one stall and one crash give a resumed, a redelivered and a failed job.
*Keys*: two calls are every pairwise race; three keys are the smallest number for
two renames of one project, four calls let a rename, a create, a move and an import or a migration
follow each other. *Webhooks*: with two attempts a delivery has one automatic
retry; three rows hold a delivery, its retry and one emitted by hand, or the two
retries of a job that ran twice. *Sprints*: two calls are every pairwise race; with two sprints one can be active while the other
is started, with two issues one can move while the other stays, with two columns one
falls back to the other. `MCInit` starts without completed sprints (the calls make them)
and with one column or two; the proofs have no such bound. *Migration*: two pages give a
page imported and one that is not when something fails; a job with two attempts and one
failure resumes, a second job (start or retry, a second call) works beside the first; with
one try of a phase, one failure gives a phase up; the second call can be a start that selects something
else. One API call is in flight at a time, beside the jobs: the proofs have any number. *Organizations*: two users can be the last
two owners; three calls let an invitation, its acceptance and a removal, a role change or
another organization's invitation follow or overlap each other; the beginnings are the
kinds of account the registration, a file import, a migration, another organization and an
accepted invitation leave. `NewRoles` are the roles a change of role asks for ("user" is the
role of migrated, merged and repaired members); at the start no project refers to the
founder, which a call can change.

Every property of a passing run has a mutant in
`PROJECT.json`: a change a plausible bug would make to a definition, under which TLC
reports that property violated in the same run.

### Fairness

`FairSpec` asks for weak fairness of each queue job's dispatch and of each worker's
and call's next step: the worker process polls its queue while it runs, and an
awaited statement answers or rejects. Nothing is asked of users, events, deletions,
errors or crashes, and crashes and errors are bounded. `CallStep` of the webhooks
contains its own failures, so an emit is obliged to go on or to fail. For the migration it is
weak fairness of each job's `WorkerStep`: the worker takes waiting jobs and goes on with
those it has; nothing is asked of calls (a cancel may be left half done), failures or
crashes, and `ProcessingEnds` excuses a job that is `stuck`. No strong fairness is needed. `Settles` needs it because an active row is finished by a
worker only; `DeliveryEnds` because only a worker posts.

### Disagreements with what the repository says

* `CancelStopsWorker`: the message "worker will stop at next batch boundary"
  (`search-reindex.service.ts:209`). A cancel between the worker's load and
  `markReindexProcessing` is overwritten by the latter's unconditional update.
* `OneActiveRow`: "A search reindex is already in progress for this project"
  (`search-reindex.service.ts:82`). Check and insert are two statements and the table has
  no constraint.
* `OldKeysResolve`: "Old keys resolve to the same project" (`docs/project-key-change.md:18`).
  The alias is made of the key read before the transaction, a plain save writes a
  stale key back, and an import does not look at aliases.
* `RetriedIsPickedUp`: "Reset status to pending so the worker picks it up again"
  (`webhooks.service.ts:180`). No job is queued for that row; its event is emitted
  again to every active webhook, as new rows.

* `ResetBeforeImport`: "idempotent: no double-delete on retry after Phase 1 completes"
  (`jira-migration.processor.ts:3131`), "before importing" (`dto/start-migration.dto.ts:33`). Phase 1
  is not recorded when it is given up, and a later attempt deletes what recorded phases
  imported.

Seen while modelling, without a run of their own:

* Jira migration. A cancel of a run whose job is active is overwritten by the job
  (`jira-migration.processor.ts:1053`, 3112; `migration.service.ts:377-391`). A retry starts a second job
  beside one still at work, although a design note says "Existing lock mechanism in
  `processJob` prevents two runs simultaneously"
  (`docs/superpowers/specs/2026-04-21-jira-members-only-sync-design.md:110`); there is none. `retry()`
  queues a job without `membersOnly`, so a members-only run is retried as a full one. A request
  for comments that fails counts as an issue without comments (2355). On a resume an error while the issues
  are read back counts as no issues (3263): the comment phase then has nothing to fetch, records itself,
  and the run completes without comments and without a message. A start with other projects leaves
  `completed_phases` as they are: the phases recorded for the first selection are skipped for the
  second. A native project that
  a run merges with Jira's is tagged as Jira's and can later be deleted by a reset.
* Sprints and boards. "You can only have **one active sprint** per project at a time"
  (`docs/wiki/Sprints.md:25`): two starts that overlap, with no sprint active, both succeed; this is what
  `OneActiveUnlessStale` excuses. "The board does not block you from adding more" (`docs/wiki/Boards.md:55`): the
  code refuses with "WIP limit exceeded". The migration writes the status of Jira's sprints without asking for an active one
  (`jira-migration.processor.ts:1414-1451`, 1638-1652): `imported` excuses that, and the next `start` finds one of the two. Completing a sprint leaves issues without a status
  in it (`NOT IN`).
* Organizations. "Prevent deactivating the last owner" (`organizations.service.ts:431`), "Every org has
  at least one owner" (`docs/superpowers/plans/multi-tenant/README.md:129`): the check asks `users.role`, the
  owners are counted in `organization_members`, so an owner whose account has another role
  can be removed as the last; `LastOwnerStays` names every such way. An expired link does more than
  expire: `auth.service.ts:827` (and 770, for a link only looked at) saves the whole row as
  `users.service.ts:120` read it, so an acceptance of a link sent again in between loses the
  password it set; `ActivationKept` names it. Whether an invitation can be
  revoked is asked of a status that all organizations share: another organization's invitation lets
  "revoke" remove an established member. The status 'revoked' that the revocation writes when
  the account cannot be deleted is refused by the CHECK of the table. The "placeholder" of a merge is any account there is
  (`confirmMergeAndInvite` asks for none of Jira's marks and no membership, 884-892): its
  membership goes, the last owner's too, and with it the account. The merge copies the Jira account when "no
  other user holds that accountId" (718), and the placeholder still holds it: it is never
  copied. The target of a merge and a
  migrated member whose e-mail is changed are set inactive until they accept, a registered one too
  (630, 776). `DELETE /users/:id` deactivates an owner without the owner check of
  `deactivateMember`. "idempotent — ON CONFLICT DO NOTHING via save" (`auth.service.ts:525`): `save` of a
  new row is a plain insert, which fails beside another; single sign-on brings a
  removed member back. A deactivated member
  that is invited again stays inactive until the link is used, or for good when none is sent.
* Issue keys. The migration inserts issues under their Jira key and, when the number is
  taken, another number (`jira-migration.processor.ts:1827-1833`): in a native project merged with
  a Jira one two issues can have the same key.

## Proofs

Thirty-three theorems, for every value of the constants that satisfies
`ConstantsAssumption` of the module (natural numbers; positive pages, batch sizes, attempts and
concurrency; a finite set of issues in `ProjectKeys` and `SprintBoard`, where they are counted; null values
that are no project, key, sprint or column). They need nothing else: no symmetry, no bound, no
fairness. Every inductive invariant below was first checked by TLC on the instance of the
module's run.

*Types.* `TypeOK` is not inductive. For the reindex it needs `TaskBudget` (a job that may
run has attempts and stalls left, so counting one more keeps it in its type) and
`CallRows` (a call past its check has a row). For keys it needs `OpInv` (a call past its
reads holds a project and a key that project had) and `HadCurrent`. For webhooks it
needs that jobs, calls and workers with something in hand point to a delivery. For the migration it needs
where a job can be with which phase and page (`Shape`), for organizations what a call has
loaded (`Loaded`).

*`CancelAlwaysStops`, `NeverStuck`, `CompletedIsFinal`.* `QueueInv` relates rows, queue jobs and workers:
a worker holds exactly the active jobs (`WorkersRun`); one that has written a batch under a cancelled row is past
the loop or will see the cancel before it fetches (`CancelSeen`); a row gets one job under its original id, since
its insert and that job are one call (`OneOriginal`), so without a retry nobody completes a row behind
a worker that has loaded it (`MarkFresh`). What a step of a worker may do to its job, row
and locals is stated once (`Moves`) and proved for every step. `NeverStuck` needs that the latest job of a row exists, `Max` being
a `CHOOSE`: `Greatest` takes a smallest of the finitely many tails of the set, in place of an induction.

*`ResumeIsSound`, `CompletedAlwaysCovers`.* The row's offset says nothing by itself: a worker copies it, walks
on from the copy and writes it back, a second worker does so at the same time, and an issue that leaves or
comes changes what every copy means. `CoverInv` counts, for every row *and every worker's copy*, the missing
issues of rank up to the offset, those of rank beyond the total counted and those created since the start (`Early`); they are at most the
shifts and losses so far (`Slack`), less the batch in hand (`Covered`). A shift changes each rank by at most one and ranks of
untied issues are distinct, so at most one issue crosses a given offset and at most one the total; an issue that leaves lowers
ranks, one that comes raises them, so only one of the two happens and the shift pays for it (`CoverShift`). A
document given up pays for itself (`CoverLosing`); a created issue is the latest, so no other rank changes. The
batch in hand holds every untied issue whose rank lies in its window, whichever of the `Orders` the query
used. The loop ends when nothing lies between the offset and the total, because the batch is
empty or the offset has reached it; then all that is missing was counted (`AllCovered`).
`JobInv` adds that only issues that left the project, or came back to it as strays, have delete jobs.

*`KeysAlwaysResolve`, `IssueKeysAlwaysUnique`.* `KeyInv` holds that current keys are distinct, that
an issue's prefix is a key its project had, that numbers within a project are
distinct (the constraint the inserts check, a page of a migration and its fallback included,
kept by renames and moves), and `Owned`: a
key a project had is current there or aliased to it, and a key that is an alias is
no other project's current key. Two issues with the same prefix are then in the same project,
where the number tells them apart, unless one was renumbered; so uniqueness of keys needs no
constraint of its own. `Owned` is what `raced` guards: each way to take a key keeps it exactly when the
call's reads still hold.

*`AttemptsAlwaysBounded`.* A worker about to insert a retry saw an attempt below the
bound (`AttemptInv`); the row may have changed since, the worker's copy has not.

*`PendingAlwaysHeld`, `NextRetryAlwaysKept`.* `OwedInv` gives, for every pending row, who will post or record it
(`PendingOwed`) and, for every failed row with `next_retry_at`, the retry that exists or the job that still
owes it (`RetryOwed`): a job waiting, a worker before its update, one between update
and insert, or one whose retry is inserted. Each statement hands the debt to the next.

*`OneActiveKept`, `LifecycleAlwaysKept`.* What a call has read is true until another call writes it:
`Sound` says of every call that is not dirty in `sprints` that the sprint still has the status it loaded,
and of one about to start without a hand-over that no sprint is active (`Knows`). With this
each clean write is one step of the lifecycle and each dirty one puts `sprints` in `stale`,
which maps to `Disturb`; the migration's write is an `Import`, every other statement a stutter. `OneActiveAlways` proves of
the abstract specification what it is for, and `OneActiveKept` the same of the detailed one.

*`ColumnRemainsAlways`, `CompletionMovesAll`, `HandOverUnblocked`, `RemovalKeepsColumns`, `WipCheckedAlways`.* A call
of several statements guarantees at its last write what it read at its first only if
nobody else wrote in between, and `dirty` says whether anybody did. `BoardInv` holds of every call,
statement by statement, what it knows of the columns until another call writes one
(`KnowsColumns`: the fallback exists, what it took for done is done), of the issues until another
writes some (`KnowsIssues`: the column being removed is empty, what is still to move is what was
found, the column being filled has room) and of both (`KnowsBoard`: no blocker). The proof has one
lemma for the calls that do not step, whose knowledge survives because the step that breaks it
marks the table, and one for each statement.

*`OneRetryAlways`, `SuccessNeverRetried`.* Retries of a delivery are rows, so both count rows. `HeldInv` gives
each row one holder at a time: a call or worker about to add its job, or one job (`HeldOnce`), none
before it is inserted (`Unborn`). So a row has one job, its retries all come from runs of that job, and `RunsBound`
counts them by the runs: none before the first update, one more after each stall. `OnceClean` is
the case without a stall: a run that recorded a success inserts nothing.

*`RemovalTakesOut`, `AcceptanceJoins`, `PasswordsStay`, `LastOwnerGuarded`.* Everything the calls of an organization
guarantee comes from what a call still knows (`Knows`): of the row of its target until another call writes it
(`KnowsRow`), of the memberships (`KnowsMembership`: gone after a removal, of the role the call began with after an acceptance),
of the owners (`KnowsOwners`: besides the target one is left). `PasswordsStay` and
`LastOwnerGuarded` then go through all statements: each keeps every password or the last owner,
or is one of the named exceptions, and the call that acts is the one the exception is about.
Three calls do not reach every exception of `LastOwnerStays`. The attempts to prove it found those: an
acceptance that sets the home of an account although another call has set one, or a save of a
whole row after another call has changed it, can take away an owner of the older kind. `Unguarded`
names them. That the expired link needs its exception in `ActivationKept` TLC shows: without it
the run finds the password lost.

*`ResumedPhaseSkipped`, `ImportTold`, `CommentsTold`.* A run is completed by a job that may have skipped what
earlier jobs recorded, so the invariant says what a recorded phase promises (`RunImports`,
`RunComments`: every page is imported or a message says so), and of each job what its own phases have
left so far (`Imports`, `Comments`), page by page within a phase. Messages live in the memory
of the job and are saved with the phase: `Solo` says that the only job at work has all that is
saved, and `Quiet` hands the promise to the row when no job works. `Shape` says where a job
can be and what it can hold there. Each part is conditional on the history it needs: `Alone` (no two jobs
at work), `Kept` (besides, no messages or imported rows lost and no other selection), `Heard` (besides, no failed request
or reload taken for "none"). A promise about the issues is one only if the project is selected and
the log is not full, one about comments only if these are selected too (`Missing`, `Mentioned`); under `Kept` the job at work has
loaded the selection the row has. The first version was not inductive: a job whose projects phase is done must know the
project's id *and* the project must exist, or the inserts of the issues phase could
find it gone.

Checked by TLC only:

* `Settles`, `DeliveryEnds` and `ProcessingEnds`: liveness, with fairness and `ENABLED`, is outside what the prover
  handles.

Every safety property of a passing run, invariant or action property, is stated by a theorem.
The runs that show a disagreement refute their property, and there is nothing to prove.

Induction over data and recursive operators are not used anywhere.

## Not modelled, and why

* Clocks and delays: backoff, `next_retry_at`, the ages behind "stalled". Every delay may
  have passed; a property that needs a minimum wait is out of scope.
* A worker that outlives its lock in Redis (a stall without a crash): BullMQ would run
  the job a second time beside the first. The reindex has two workers on one row
  through `retry`; the webhook worker is only rerun after a crash.
* Removal of old finished jobs from the queue (`removeOnComplete`, `removeOnFail`).
* The old form of `reindex-project` without a row.
* In `ProjectKeys`, which issue of Jira a row came from: a page may hold any numbers, so a
  repeated page is one that adds nothing. `JiraMigration` has the pages, without numbers.
* Of the migration, in `JiraMigration`: sprints (their status is in `SprintBoard`), attachments, members of projects, parents and counters have no
  content (their phases have their control; the members phase is in `OrgMembership`, its fallback
  to single inserts and accounts that share a Jira id are not); connections, previews and
  reports.
* Positions on a board, custom workflow transitions, notifications after a sprint changes.
* Login, refresh tokens and lockout; the settings of an organization and of its sign-on.
* The contents of documents, payloads, signatures, mails and pages.
* Components with status `not_modelled` in `PROJECT.json`, each with its reason.

## Plan

1. *Done*: `SearchReindex`, `ProjectKeys`, `WebhookDelivery`, `SprintBoard` with `SprintLifecycle`,
   `JiraMigration`, `OrgMembership`, with the runs and proofs above.
2. *Done*: a theorem for every safety property of the passing runs.
3. `Sessions`: rotation of refresh tokens, several tabs, password reset, deactivation.
4. `SearchIndexing`: versions of an issue's document, jobs three at a time, a
   reindex beside them; the documents of deleted issues.
5. `NotificationTabs`, `Automation`, the progress of file imports.
