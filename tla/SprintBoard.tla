----------------------------- MODULE SprintBoard -----------------------------
(***************************************************************************)
(* Sprints and the columns of a board (issue statuses) of one project:     *)
(*   - SprintsService: create, update, start with the hand-over of an      *)
(*     overdue sprint, complete, delete;                                   *)
(*   - BoardsService: the columns and reorderIssues;                       *)
(*   - IssuesService: update and bulkUpdate as far as they change sprint   *)
(*     and column of an issue;                                             *)
(*   - the Jira migration, which writes the sprints of Jira's boards over  *)
(*     those of the project, and the columns and issues of imports.        *)
(* Each step is one awaited statement, or one transaction; only the        *)
(* hand-over is one and takes locks.  save() writes the whole row as it    *)
(* was loaded and inserts it again when it is gone.  Issues are those of a *)
(* type that can be planned.  Dates are left out: whether the active       *)
(* sprint has ended is open whenever a call asks.                          *)
(***************************************************************************)
EXTENDS Integers, FiniteSets

CONSTANTS
  Clients,    \* API calls in flight, and the migration
  Sprints,    \* ids of sprints, in use or not
  Issues,     \* issues of the project
  Columns,    \* ids of statuses, in use or not
  NoSprint,   \* sprint_id IS NULL: the backlog
  NoColumn,   \* status_id IS NULL
  Keep,       \* a field the request leaves out
  WipLimit,   \* wipLimit of every column, 0 for none
  MaxCalls    \* bound: calls ever made

ASSUME ConstantsAssumption ==
  /\ NoSprint \notin Sprints /\ NoColumn \notin Columns
  /\ Keep \notin Sprints \cup Columns \cup {NoSprint, NoColumn}
  /\ WipLimit \in Nat /\ MaxCalls \in Nat
  /\ IsFiniteSet(Issues)

VARIABLES
  sprint,   \* sprints: status
  issue,    \* issues: sprint and column
  column,   \* issue_statuses: category and hand-over policy
  call,     \* calls in flight
  calls,    \* calls made so far
  stale,    \* history: see Write
  imported  \* history: the migration has written an active sprint

vars == <<sprint, issue, column, call, calls, stale, imported>>

\* "none" is an id not in use yet.
Statuses == {"none", "planned", "active", "inactive", "completed", "deleted"}
IssueType == [sprint: Sprints \cup {NoSprint}, column: Columns \cup {NoColumn}]

\* Category and hand-over policy.  The API gives a done column a policy that blocks
\* nothing; one that an import makes blocks by default, done or not.
Done == {"done", "done_blocks"}
Blocking == {"blocks", "done_blocks"}
Kinds == {"allows"} \cup Done \cup Blocking
Tables == {"sprints", "issues", "columns"}

\* dirty holds the tables that other calls have written since this one began.
CallType ==
  [pc: {"idle", "start_find", "start_count", "start_handover", "start_save", "update_save",
        "complete_target", "complete_done", "complete_find", "complete_move",
        "complete_save", "delete_unassign", "delete_remove", "column_save",
        "column_list", "column_refill", "column_remove", "reorder_check",
        "reorder_move", "issue_save"},
   dirty: SUBSET Tables,
   sprint: Sprints \cup {NoSprint, Keep},   \* the sprint of the request
   row: Statuses,                           \* ... and its status as loaded
   other: Sprints \cup {NoSprint},          \* the active sprint found, or where issues go
   column: Columns \cup {NoColumn, Keep},   \* the column of the request
   fallback: Columns \cup {NoColumn},
   done: SUBSET Columns,
   issues: SUBSET Issues,
   rows: [Issues -> IssueType]]             \* ... and what the call writes to them

NoCall == [pc |-> "idle", dirty |-> {}, sprint |-> NoSprint, row |-> "none",
           other |-> NoSprint, column |-> NoColumn, fallback |-> NoColumn, done |-> {},
           issues |-> {},
           rows |-> [i \in Issues |-> [sprint |-> NoSprint, column |-> NoColumn]]]

TypeOK ==
  /\ sprint \in [Sprints -> Statuses]
  /\ issue \in [Issues -> IssueType]
  /\ column \in [Columns -> Kinds \cup {"none"}]
  /\ call \in [Clients -> CallType]
  /\ calls \in 0..MaxCalls
  /\ stale \in SUBSET Tables
  /\ imported \in BOOLEAN

-----------------------------------------------------------------------------
(* Helpers                                                                 *)

SprintExists(s) == sprint[s] \notin {"none", "deleted"}
ColumnExists(k) == column[k] # "none"
Active == {s \in Sprints : sprint[s] = "active"}
Live == {k \in Columns : ColumnExists(k)}
InSprint(s) == {i \in Issues : issue[i].sprint = s}
InColumn(k) == {i \in Issues : issue[i].column = k}

\* What the foreign keys of issues demand of a value written to them.
SprintRef(s) == s = NoSprint \/ (s \in Sprints /\ SprintExists(s))
ColumnRef(k) == k = NoColumn \/ (k \in Columns /\ ColumnExists(k))

\* Issues that stop the hand-over of sprint s.
Blockers(s) ==
  {i \in InSprint(s) : issue[i].column = NoColumn \/ column[issue[i].column] \in Blocking}

At(c, pc) == call[c].pc = pc

\* A call begins with its first read, and later reads on or gives up.
Begin(c, request) ==
  /\ At(c, "idle")
  /\ calls < MaxCalls
  /\ calls' = calls + 1
  /\ call' = [call EXCEPT ![c] = request]
  /\ UNCHANGED <<sprint, issue, column, stale>>

Go(c, next) ==
  /\ call' = [call EXCEPT ![c] = next]
  /\ UNCHANGED <<sprint, issue, column, calls, stale>>

GoTo(c, pc) == Go(c, [call[c] EXCEPT !.pc = pc])
Reject(c) == Go(c, NoCall)

\* The other calls under way that have something read by now: tables changed under them.
Dirtied(c, tables, next) ==
  [d \in Clients |-> IF d = c THEN next
                     ELSE IF At(d, "idle") THEN call[d]
                     ELSE [call[d] EXCEPT !.dirty = @ \cup tables]]

\* Call c writes tables.  A table enters stale when a call writes it after another one
\* has written it since the call began.
Write(c, tables, next) ==
  /\ call' = Dirtied(c, tables, next)
  /\ stale' = stale \cup (tables \cap call[c].dirty)
  /\ UNCHANGED calls

\* A call of one statement.  A new row disturbs nobody: no table is named then.
WriteOnce(c, tables) ==
  /\ At(c, "idle")
  /\ calls < MaxCalls
  /\ calls' = calls + 1
  /\ call' = Dirtied(c, tables, NoCall)
  /\ UNCHANGED stale

\* The process dies or a statement fails; what was written stays.
CallFails(c) == ~At(c, "idle") /\ Reject(c)

Init ==
  /\ sprint \in [Sprints -> Statuses \ {"deleted"}]
  /\ \A a, b \in Active : a = b
  /\ column \in [Columns -> Kinds \cup {"none"}]
  /\ Live # {}
  /\ issue \in [Issues -> IssueType]
  /\ \A i \in Issues : SprintRef(issue[i].sprint) /\ issue[i].column \in Live
  /\ call = [c \in Clients |-> NoCall]
  /\ calls = 0
  /\ stale = {} /\ imported = FALSE

-----------------------------------------------------------------------------
(* SprintsService                                                          *)

CreateSprint(c, s) ==
  /\ sprint[s] = "none"
  /\ sprint' = [sprint EXCEPT ![s] = "planned"]
  /\ WriteOnce(c, {})
  /\ UNCHANGED <<issue, column>>

\* update() changes names and dates, and saves the status it has read with them.
UpdateLoad(c, s) ==
  /\ SprintExists(s)
  /\ Begin(c, [NoCall EXCEPT !.pc = "update_save", !.sprint = s, !.row = sprint[s]])

UpdateSave(c) ==
  /\ At(c, "update_save")
  /\ sprint' = [sprint EXCEPT ![call[c].sprint] = call[c].row]
  /\ Write(c, {"sprints"}, NoCall)
  /\ UNCHANGED <<issue, column>>

\* Mutant: any sprint can be started.
StartLoadAny(c, s) ==
  /\ SprintExists(s)
  /\ Begin(c, [NoCall EXCEPT !.pc = "start_find", !.sprint = s, !.row = sprint[s]])

StartLoad(c, s) ==
  /\ sprint[s] = "planned"
  /\ Begin(c, [NoCall EXCEPT !.pc = "start_find", !.sprint = s, !.row = sprint[s]])

\* Mutant: a sprint that has ended is not looked for.
StartFindRunning(c) ==
  /\ At(c, "start_find")
  /\ GoTo(c, "start_save") \/ (Active # {} /\ Reject(c))

\* The active sprint, if there is one, has to have ended.
StartFind(c) ==
  /\ At(c, "start_find")
  /\ \/ Active = {} /\ GoTo(c, "start_save")
     \/ \E a \in Active : Go(c, [call[c] EXCEPT !.pc = "start_count", !.other = a])
     \/ Active # {} /\ Reject(c)

\* Mutant: only issues without a column block the hand-over.
StartCountNull(c) ==
  /\ At(c, "start_count")
  /\ IF \E i \in InSprint(call[c].other) : issue[i].column = NoColumn
       THEN Reject(c) ELSE GoTo(c, "start_handover")

StartCount(c) ==
  /\ At(c, "start_count")
  /\ IF Blockers(call[c].other) # {} THEN Reject(c) ELSE GoTo(c, "start_handover")

\* Both sprints are read again under a lock.
StartHandOver(c) ==
  LET a == call[c].other  s == call[c].sprint IN
  /\ At(c, "start_handover")
  /\ IF sprint[a] = "active" /\ sprint[s] = "planned"
       THEN /\ sprint' = [sprint EXCEPT ![a] = "inactive", ![s] = "active"]
            /\ Write(c, {"sprints"}, NoCall)
            /\ UNCHANGED <<issue, column>>
       ELSE Reject(c)

\* Without an active sprint there is no lock and no second look.
StartSave(c) ==
  /\ At(c, "start_save")
  /\ sprint' = [sprint EXCEPT ![call[c].sprint] = "active"]
  /\ Write(c, {"sprints"}, NoCall)
  /\ UNCHANGED <<issue, column>>

CompleteLoad(c, s, t) ==
  /\ sprint[s] \in {"active", "inactive"}
  /\ Begin(c, [NoCall EXCEPT !.pc = "complete_target", !.sprint = s, !.other = t,
                             !.row = sprint[s]])

CompleteTarget(c) ==
  LET t == call[c].other IN
  /\ At(c, "complete_target")
  /\ IF t = NoSprint \/ (SprintExists(t) /\ t # call[c].sprint /\ sprint[t] # "completed")
       THEN GoTo(c, "complete_done") ELSE Reject(c)

\* Without a done column no issue is moved.
CompleteDone(c) ==
  LET done == {k \in Columns : column[k] \in Done} IN
  /\ At(c, "complete_done")
  /\ Go(c, [call[c] EXCEPT !.pc = IF done = {} THEN "complete_save" ELSE "complete_find",
                           !.done = done])

\* Mutant: an issue is open when it blocks a hand-over.
CompleteFindBlockers(c) ==
  LET open == Blockers(call[c].sprint) IN
  /\ At(c, "complete_find")
  /\ Go(c, [call[c] EXCEPT !.pc = IF open = {} THEN "complete_save" ELSE "complete_move",
                           !.issues = open])

\* NOT IN is not true of NULL: an issue without a column is not found.
CompleteFind(c) ==
  LET open == {i \in InSprint(call[c].sprint) :
                 issue[i].column # NoColumn /\ issue[i].column \notin call[c].done} IN
  /\ At(c, "complete_find")
  /\ Go(c, [call[c] EXCEPT !.pc = IF open = {} THEN "complete_save" ELSE "complete_move",
                           !.issues = open])

CompleteMove(c) ==
  /\ At(c, "complete_move")
  /\ IF SprintRef(call[c].other)
       THEN /\ issue' = [i \in Issues |-> IF i \in call[c].issues
                                            THEN [issue[i] EXCEPT !.sprint = call[c].other]
                                            ELSE issue[i]]
            /\ Write(c, {"issues"}, [call[c] EXCEPT !.pc = "complete_save"])
            /\ UNCHANGED <<sprint, column>>
       ELSE Reject(c)

CompleteSave(c) ==
  /\ At(c, "complete_save")
  /\ sprint' = [sprint EXCEPT ![call[c].sprint] = "completed"]
  /\ Write(c, {"sprints"}, NoCall)
  /\ UNCHANGED <<issue, column>>

DeleteLoad(c, s) ==
  /\ SprintExists(s) /\ sprint[s] # "active"
  /\ Begin(c, [NoCall EXCEPT !.pc = "delete_unassign", !.sprint = s])

\* The issues of a sprint go to the backlog: by the UPDATE, or by ON DELETE SET NULL.
Unassigned(s) ==
  [i \in Issues |-> IF issue[i].sprint = s THEN [issue[i] EXCEPT !.sprint = NoSprint]
                                           ELSE issue[i]]

DeleteUnassign(c) ==
  /\ At(c, "delete_unassign")
  /\ issue' = Unassigned(call[c].sprint)
  /\ Write(c, {"issues"}, [call[c] EXCEPT !.pc = "delete_remove"])
  /\ UNCHANGED <<sprint, column>>

DeleteRemove(c) ==
  /\ At(c, "delete_remove")
  /\ sprint' = [sprint EXCEPT ![call[c].sprint] = "deleted"]
  /\ issue' = Unassigned(call[c].sprint)
  /\ Write(c, {"sprints", "issues"}, NoCall)
  /\ UNCHANGED column

-----------------------------------------------------------------------------
(* BoardsService                                                           *)

\* A column of any kind: createStatus, or a status that an import or the migration adds.
AddColumn(c, k, kind) ==
  /\ ~ColumnExists(k)
  /\ column' = [column EXCEPT ![k] = kind]
  /\ WriteOnce(c, {})
  /\ UNCHANGED <<sprint, issue>>

\* A column that is gone is inserted again, with the kind chosen or read; a done one is
\* given the policy of done columns, whatever it had.
ColumnLoad(c, k) ==
  /\ ColumnExists(k)
  /\ Begin(c, [NoCall EXCEPT !.pc = "column_save", !.column = k])

ColumnSave(c) ==
  /\ At(c, "column_save")
  /\ \E kind \in Kinds \ {"done_blocks"} : column' = [column EXCEPT ![call[c].column] = kind]
  /\ Write(c, {"columns"}, NoCall)
  /\ UNCHANGED <<sprint, issue>>

ColumnRemoveLoad(c, k) ==
  /\ ColumnExists(k)
  /\ Begin(c, [NoCall EXCEPT !.pc = "column_list", !.column = k])

\* Mutant: the last column may go.
ColumnListLast(c) ==
  /\ At(c, "column_list")
  /\ \E k \in Live \cup {NoColumn} :
       /\ k # call[c].column
       /\ Go(c, [call[c] EXCEPT !.pc = "column_refill", !.fallback = k])

\* The fallback is the first other column by position.  When the column itself has gone
\* meanwhile, one other is left and the last one check refuses.
ColumnList(c) ==
  /\ At(c, "column_list")
  /\ \/ Cardinality(Live) <= 1 /\ Reject(c)
     \/ /\ Cardinality(Live) > 1
        /\ \E k \in Live \ {call[c].column} :
             Go(c, [call[c] EXCEPT !.pc = "column_refill", !.fallback = k])

\* Mutant: the issues of the column stay where they are.
ColumnRefillNone(c) ==
  /\ At(c, "column_refill")
  /\ GoTo(c, "column_remove")

ColumnRefill(c) ==
  LET from == InColumn(call[c].column) IN
  /\ At(c, "column_refill")
  /\ IF from = {} \/ ColumnRef(call[c].fallback)
       THEN /\ issue' = [i \in Issues |-> IF i \in from
                                            THEN [issue[i] EXCEPT !.column = call[c].fallback]
                                            ELSE issue[i]]
            /\ Write(c, {"issues"}, [call[c] EXCEPT !.pc = "column_remove"])
            /\ UNCHANGED <<sprint, column>>
       ELSE Reject(c)

\* ON DELETE SET NULL takes the column from the issues still in it.
ColumnRemove(c) ==
  LET k == call[c].column IN
  /\ At(c, "column_remove")
  /\ column' = [column EXCEPT ![k] = "none"]
  /\ issue' = [i \in Issues |-> IF issue[i].column = k THEN [issue[i] EXCEPT !.column = NoColumn]
                                                       ELSE issue[i]]
  /\ Write(c, {"columns", "issues"}, NoCall)
  /\ UNCHANGED sprint

\* Mutant: a field that the request leaves out is written as undefined.
ChosenRaw(requested, before) == requested

\* What a request writes to the issues it names, as far as they are read: a field that it
\* leaves out keeps the value read.
Chosen(requested, before) == IF requested = Keep THEN before ELSE requested
Rows(chosen, k, t) ==
  [i \in Issues |-> IF i \in chosen
                      THEN [sprint |-> Chosen(t, issue[i].sprint),
                            column |-> Chosen(k, issue[i].column)]
                      ELSE NoCall.rows[i]]

SaveRows(c) ==
  IF \A i \in call[c].issues : SprintRef(call[c].rows[i].sprint) /\ ColumnRef(call[c].rows[i].column)
    THEN /\ issue' = [i \in Issues |-> IF i \in call[c].issues THEN call[c].rows[i] ELSE issue[i]]
         /\ Write(c, {"issues"}, NoCall)
         /\ UNCHANGED <<sprint, column>>
    ELSE Reject(c)

\* reorderIssues, with one column and one sprint for all the issues of the request.
ReorderLoad(c, moved, k, t) ==
  Begin(c, [NoCall EXCEPT !.pc = "reorder_check", !.issues = moved, !.column = k,
                          !.sprint = t, !.rows = Rows(moved, k, t)])

\* Mutant: the limit is compared with what is in the column already.
ReorderCheckBefore(c) ==
  LET k == call[c].column  t == call[c].sprint IN
  /\ At(c, "reorder_check")
  /\ IF /\ ColumnExists(k)
        /\ WipLimit > 0 => Cardinality(InColumn(k)) <= WipLimit
        /\ t # Keep => SprintRef(t)
       THEN Go(c, [call[c] EXCEPT !.pc = "reorder_move", !.sprint = NoSprint]) ELSE Reject(c)

\* The reads of the check are one step.
ReorderCheck(c) ==
  LET k == call[c].column  t == call[c].sprint IN
  /\ At(c, "reorder_check")
  /\ IF /\ ColumnExists(k)
        /\ WipLimit > 0 => Cardinality(InColumn(k)) + Cardinality(call[c].issues \ InColumn(k))
                             <= WipLimit
        /\ t # Keep => SprintRef(t)
       THEN Go(c, [call[c] EXCEPT !.pc = "reorder_move", !.sprint = NoSprint]) ELSE Reject(c)

ReorderMove(c) == At(c, "reorder_move") /\ SaveRows(c)

-----------------------------------------------------------------------------
(* IssuesService: one issue, or many at once                               *)

\* save() writes the whole issue: what the request leaves out as it was read.
IssueLoad(c, i, k, t) ==
  Begin(c, [NoCall EXCEPT !.pc = "issue_save", !.issues = {i}, !.rows = Rows({i}, k, t)])

IssueSave(c) == At(c, "issue_save") /\ SaveRows(c)

BulkSprint(c, moved, t) ==
  /\ SprintRef(t)
  /\ issue' = [i \in Issues |-> IF i \in moved THEN [issue[i] EXCEPT !.sprint = t] ELSE issue[i]]
  /\ WriteOnce(c, {"issues"})
  /\ UNCHANGED <<sprint, column>>

BulkColumn(c, moved, k) ==
  /\ ColumnRef(k)
  /\ issue' = [i \in Issues |-> IF i \in moved THEN [issue[i] EXCEPT !.column = k] ELSE issue[i]]
  /\ WriteOnce(c, {"issues"})
  /\ UNCHANGED <<sprint, column>>

-----------------------------------------------------------------------------
(* The Jira migration                                                      *)

\* A sprint of Jira is inserted, or found by name or by its id, and gets the status that it
\* has there, whatever it was and whatever the other sprints are.
ImportSprint(c, s, to) ==
  /\ sprint[s] # "deleted"
  /\ sprint' = [sprint EXCEPT ![s] = to]
  /\ imported' = (imported \/ to = "active")
  /\ WriteOnce(c, {"sprints"})
  /\ UNCHANGED <<issue, column>>

-----------------------------------------------------------------------------
SprintStep(c) ==
  \/ \E s \in Sprints : \/ CreateSprint(c, s) \/ UpdateLoad(c, s) \/ StartLoad(c, s)
                        \/ DeleteLoad(c, s)
                        \/ \E t \in Sprints \cup {NoSprint} : CompleteLoad(c, s, t)
  \/ UpdateSave(c)
  \/ StartFind(c) \/ StartCount(c) \/ StartHandOver(c) \/ StartSave(c)
  \/ CompleteTarget(c) \/ CompleteDone(c) \/ CompleteFind(c) \/ CompleteMove(c) \/ CompleteSave(c)
  \/ DeleteUnassign(c) \/ DeleteRemove(c)

ColumnStep(c) ==
  \/ \E k \in Columns : \/ ColumnLoad(c, k) \/ ColumnRemoveLoad(c, k)
                        \/ \E kind \in Kinds : AddColumn(c, k, kind)
  \/ ColumnSave(c) \/ ColumnList(c) \/ ColumnRefill(c) \/ ColumnRemove(c)

IssueStep(c) ==
  \/ \E moved \in SUBSET Issues \ {{}} :
       \/ \E k \in Columns, t \in Sprints \cup {NoSprint, Keep} : ReorderLoad(c, moved, k, t)
       \/ \E t \in Sprints \cup {NoSprint} : BulkSprint(c, moved, t)
       \/ \E k \in Columns \cup {NoColumn} : BulkColumn(c, moved, k)
  \/ \E i \in Issues, k \in Columns \cup {NoColumn, Keep}, t \in Sprints \cup {NoSprint, Keep} :
       IssueLoad(c, i, k, t)
  \/ ReorderCheck(c) \/ ReorderMove(c) \/ IssueSave(c)

CallStep(c) ==
  /\ SprintStep(c) \/ ColumnStep(c) \/ IssueStep(c) \/ CallFails(c)
  /\ UNCHANGED imported

MigrationStep(c) ==
  \E s \in Sprints, to \in {"planned", "active", "completed"} : ImportSprint(c, s, to)

Next == \E c \in Clients : CallStep(c) \/ MigrationStep(c)

Spec == Init /\ [][Next]_vars

-----------------------------------------------------------------------------
(* Properties                                                              *)

\* Two active sprints come from nothing but a call that saves a sprint after another call
\* has written one in between, or the migration, which writes a sprint that is active in Jira.
OneActiveUnlessStale ==
  "sprints" \in stale \/ imported \/ \A a, b \in Active : a = b

\* Until a save is stale every call of SprintsService, its statements spread over time,
\* changes the sprints in one step that SprintLifecycle allows, and the migration in another:
\* but for the migration no completed sprint is started again, no deleted one comes back,
\* and no active one is deleted.
Lifecycle ==
  INSTANCE SprintLifecycle WITH status <- sprint, disturbed <- "sprints" \in stale
LifecycleKept == Lifecycle!Spec

\* Call c leaves the statement pc.
Leaves(c, pc) == At(c, pc) /\ call'[c].pc # pc

\* A call that nobody else has disturbed in the tables named.
Undisturbed(c, tables) == call[c].dirty \cap tables = {}

\* A sprint completed without a disturbance keeps none but done issues and issues without
\* a column, once the project has a done column.
NothingOpenLeft ==
  [][\A c \in Clients :
       /\ Leaves(c, "complete_save") /\ sprint' # sprint
       /\ Undisturbed(c, {"issues", "columns"}) /\ call[c].done # {}
       => \A i \in InSprint(call[c].sprint) :
            issue[i].column = NoColumn \/ column[issue[i].column] \in Done]_vars

\* A hand-over without a disturbance leaves no blocking issue in the sprint it closes.
BlockersHoldHandOver ==
  [][\A c \in Clients :
       /\ Leaves(c, "start_handover") /\ sprint' # sprint
       /\ Undisturbed(c, {"issues", "columns"})
       => Blockers(call[c].other) = {}]_vars

\* A board keeps a column unless two calls change columns at once.
ColumnRemains == "columns" \in stale \/ Live # {}

\* Removing a column takes the column from no issue, unless another call put one there.
NoIssueLosesColumn ==
  [][\A c \in Clients :
       Leaves(c, "column_remove") /\ column' # column /\ Undisturbed(c, {"issues", "columns"})
       => \A i \in Issues : issue'[i].column = NoColumn => issue[i].column = NoColumn]_vars

\* A reorder without a disturbance fills no column beyond its limit.
WipChecked ==
  [][\A c \in Clients :
       /\ Leaves(c, "reorder_move") /\ issue' # issue
       /\ Undisturbed(c, {"issues", "columns"}) /\ WipLimit > 0
       => Cardinality({i \in Issues : issue'[i].column = call[c].column}) <= WipLimit]_vars

=============================================================================
