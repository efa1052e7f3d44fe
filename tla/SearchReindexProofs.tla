------------------------- MODULE SearchReindexProofs -------------------------
(***************************************************************************)
(* Proofs about SearchReindex for every value of its constants: the type   *)
(* invariant; that the progress saved in a row and the index of a          *)
(* completed reindex miss no more than shifts and losses explain           *)
(* (ResumeSound and CompletedCovers, from CoverInv); that cancelled        *)
(* workers stop, that no row is stuck and that completed rows stay         *)
(* completed (from QueueInv).                                              *)
(***************************************************************************)
EXTENDS SearchReindex, FiniteSetTheorems, TLAPS

(* A queue job that may still run has attempts left and has not used up    *)
(* its stalls, and every queue job belongs to a row.                       *)
TaskBudget ==
  \A t \in Tasks :
    /\ task[t].state \in {"none", "waiting", "active"} =>
         task[t].attempts < MaxAttempts /\ task[t].stalls <= MaxStalls
    /\ task[t].state # "none" => task[t].row \in Rows

(* A call past its checks works on a row.                                  *)
CallRows ==
  \A c \in Clients : call[c].pc \notin {"idle", "insert"} => call[c].row \in Rows

TypeInv == TypeOK /\ TaskBudget /\ CallRows

-----------------------------------------------------------------------------
(* Facts about the operators                                               *)

\* Any set of issues has a size.
LEMMA IssueSetFinite ==
  ASSUME NEW S \in SUBSET Issues
  PROVE  IsFiniteSet(S) /\ Cardinality(S) \in Nat
<1>1. IsFiniteSet(Issues)
  BY ConstantsAssumption, FS_Interval DEF Issues
<1>2. QED BY <1>1, FS_Subset, FS_CardinalityType

\* There are finitely many issues, and all of them are in Issues.
LEMMA LiveFinite ==
  ASSUME TypeOK
  PROVE  IsFiniteSet(live) /\ Cardinality(live) \in Nat /\ Cardinality(live) <= MaxIssues
<1>1. live \in SUBSET Issues
  BY DEF TypeOK
<1>2. IsFiniteSet(1..MaxIssues) /\ Cardinality(1..MaxIssues) = MaxIssues
  BY ConstantsAssumption, FS_Interval
<1>3. Cardinality(live) <= MaxIssues
  BY <1>1, <1>2, FS_Subset DEF Issues
<1>4. QED BY <1>1, <1>3, IssueSetFinite

\* Wherever the worker goes after a phase is a place of its program.
LEMMA NextPcType ==
  ASSUME NEW phases \in SUBSET Phases
  PROVE  NextPc(phases) \in WorkerPc
BY DEF NextPc, WorkerPc

-----------------------------------------------------------------------------
(* The type invariant                                                      *)

LEMMA TypeInit == Init => TypeInv
BY ConstantsAssumption
   DEF Init, TypeInv, TypeOK, TaskBudget, CallRows, Rows, Tasks, Issues, RowType, TaskType,
       WorkerType, CallType, NoRow, NoTask, Idle, NoCall, Active, Terminal, WorkerPc,
       CallPc, Phases

\* What a step leaves alone keeps its type.
LEMMA TypeKept ==
  ASSUME TypeInv,
         row' \in [Rows -> RowType], task' \in [Tasks -> TaskType], TaskBudget',
         wk' \in [Tasks -> WorkerType], call' \in [Clients -> CallType], CallRows',
         UNCHANGED <<indexVars, esUp, crashes>>
  PROVE  TypeInv'
BY DEF TypeInv, TypeOK, indexVars, listVars

\* The API calls.
LEMMA TypeCalls ==
  ASSUME TypeInv, NEW c \in Clients,
         StartCheck(c) \/ CallStep(c) \/ CallFails(c)
         \/ \E j \in Rows : RetryCheck(c, j) \/ CancelCheck(c, j)
  PROVE  TypeInv'
<1> USE DEF jobVars, indexVars
<1>0. /\ row \in [Rows -> RowType] /\ task \in [Tasks -> TaskType] /\ TaskBudget
      /\ wk \in [Tasks -> WorkerType] /\ call \in [Clients -> CallType] /\ CallRows
  BY DEF TypeInv, TypeOK
<1>idle. NoCall \in CallType
  BY ConstantsAssumption DEF NoCall, CallType, CallPc
<1>1. CASE StartCheck(c)
  <2>1. call' \in [Clients -> CallType] /\ CallRows'
    BY <1>0, <1>1 DEF StartCheck, CallType, CallPc, CallRows
  <2>2. QED BY <1>0, <1>1, <2>1, TypeKept DEF StartCheck, TaskBudget
<1>2. CASE StartInsert(c)
  <2>1. PICK j \in Rows :
          /\ row' = [row EXCEPT ![j] = [NoRow EXCEPT !.status = "pending"]]
          /\ call' = [call EXCEPT ![c] = [pc |-> "enqueueFirst", row |-> j]]
    BY <1>2 DEF StartInsert
  <2>2. [NoRow EXCEPT !.status = "pending"] \in RowType
    BY DEF NoRow, RowType, Active, Terminal, Phases
  <2>3. row' \in [Rows -> RowType]
    BY <1>0, <2>1, <2>2
  <2>4. [pc |-> "enqueueFirst", row |-> j] \in CallType
    BY ConstantsAssumption DEF CallType, CallPc, Rows
  <2>5. call' \in [Clients -> CallType] /\ CallRows'
    BY <1>0, <2>1, <2>4 DEF CallRows
  <2>6. QED BY <1>0, <1>2, <2>3, <2>5, TypeKept DEF StartInsert, TaskBudget
<1>3. ASSUME NEW retry \in BOOLEAN, AddTask(call[c].row, retry),
             call[c].pc \notin {"idle", "insert"}
      PROVE  task' \in [Tasks -> TaskType] /\ TaskBudget'
  <2>1. PICK t \in Tasks :
          task' = [task EXCEPT ![t] = [row |-> call[c].row, retry |-> retry,
                                       state |-> "waiting", attempts |-> 0, stalls |-> 0]]
    BY <1>3 DEF AddTask
  <2>2. call[c].row \in Rows /\ call[c].row \in 0..MaxRows
    BY <1>0, <1>3 DEF CallType, CallRows
  <2> DEFINE new == [row |-> call[c].row, retry |-> retry,
                     state |-> "waiting", attempts |-> 0, stalls |-> 0]
  <2>3. new \in TaskType /\ new.attempts = 0 /\ new.stalls = 0
    BY <2>2, ConstantsAssumption DEF TaskType
  <2>4. task' \in [Tasks -> TaskType]
    BY <1>0, <2>1, <2>3
  <2>5. \A u \in Tasks : task'[u] = IF u = t THEN new ELSE task[u]
    BY <1>0, <2>1
  <2>6. TaskBudget'
    BY <1>0, <2>2, <2>3, <2>5, ConstantsAssumption DEF TaskBudget
  <2>7. QED BY <2>4, <2>6
<1>4. Return(c) => call' \in [Clients -> CallType] /\ CallRows'
  BY <1>0, <1>idle DEF Return, CallRows, NoCall
<1>5. CASE StartEnqueue(c)
  BY <1>0, <1>3, <1>4, <1>5, TypeKept DEF StartEnqueue
<1>6. CASE RetryEnqueue(c)
  BY <1>0, <1>3, <1>4, <1>6, TypeKept DEF RetryEnqueue
<1>7. CASE RetryUpdate(c) \/ CancelUpdate(c)
  <2>0. /\ \A r \in RowType : \A status \in Active \union Terminal, b, d \in BOOLEAN :
             [r EXCEPT !.status = status, !.closed = b, !.stopped = d] \in RowType
        /\ "pending" \in Active \union Terminal /\ "cancelled" \in Active \union Terminal
    BY DEF RowType, Active, Terminal
  <2>1. row' \in [Rows -> RowType]
    <3>1. CASE RetryUpdate(c)
      BY <1>0, <2>0, <3>1 DEF RetryUpdate
    <3>2. CASE CancelUpdate(c)
      BY <1>0, <2>0, <3>2 DEF CancelUpdate
    <3>3. QED BY <1>7, <3>1, <3>2
  <2>2. \A t \in Tasks : [wk[t] EXCEPT !.late = 0] \in WorkerType
    BY <1>0 DEF WorkerType
  <2>3. wk' \in [Tasks -> WorkerType]
    BY <1>0, <1>7, <2>2 DEF RetryUpdate, CancelUpdate
  <2>4. call' \in [Clients -> CallType] /\ CallRows'
    <3>1. CASE RetryUpdate(c)
      BY <1>0, <3>1 DEF RetryUpdate, CallType, CallPc, CallRows
    <3>2. CASE CancelUpdate(c)
      BY <1>0, <3>2 DEF CancelUpdate, CallType, CallPc, CallRows
    <3>3. QED BY <1>7, <3>1, <3>2
  <2>5. QED
    BY <1>0, <1>7, <2>1, <2>3, <2>4, TypeKept DEF RetryUpdate, CancelUpdate, TaskBudget
<1>8. CASE CancelRemove(c)
  <2>1. \A t \in Tasks : [task[t] EXCEPT !.state = "removed"] \in TaskType
    BY <1>0 DEF TaskType
  <2>2. task' \in [Tasks -> TaskType]
    BY <1>0, <1>8, <2>1 DEF CancelRemove
  <2>3. \A t \in Tasks :
          \/ task'[t] = task[t]
          \/ /\ task'[t].state = "removed" /\ task[t].state # "none"
             /\ task'[t].row = task[t].row
    BY <1>0, <1>8 DEF CancelRemove, TaskType, Originals, TasksOf
  <2>4. TaskBudget'
    BY <1>0, <2>3 DEF TaskBudget
  <2>5. QED BY <1>0, <1>4, <1>8, <2>2, <2>4, TypeKept DEF CancelRemove
<1>9. CASE CallFails(c)
  BY <1>0, <1>4, <1>9, TypeKept DEF CallFails, TaskBudget
<1>10. CASE \E j \in Rows : RetryCheck(c, j) \/ CancelCheck(c, j)
  <2>1. PICK j \in Rows : RetryCheck(c, j) \/ CancelCheck(c, j)
    BY <1>10
  <2>2. /\ [pc |-> "retryUpdate", row |-> j] \in CallType
        /\ [pc |-> "cancelUpdate", row |-> j] \in CallType
    BY ConstantsAssumption DEF CallType, CallPc, Rows
  <2>3. call' \in [Clients -> CallType] /\ CallRows'
    BY <1>0, <2>1, <2>2 DEF RetryCheck, CancelCheck, CallRows
  <2>4. QED BY <1>0, <2>1, <2>3, TypeKept DEF RetryCheck, CancelCheck, TaskBudget
<1>11. QED
  BY <1>1, <1>2, <1>5, <1>6, <1>7, <1>8, <1>9, <1>10 DEF CallStep

\* The three ways a worker moves on.
LEMMA TypeMoves ==
  ASSUME TypeInv, NEW t \in Tasks, task[t].state = "active"
  PROVE  /\ \A pc \in WorkerPc : GoTo(t, pc) => wk' \in [Tasks -> WorkerType]
         /\ Finish(t) => /\ task' \in [Tasks -> TaskType] /\ TaskBudget'
                         /\ wk' \in [Tasks -> WorkerType]
         /\ \A pc \in WorkerPc : StopOr(t, pc) =>
                         /\ task' \in [Tasks -> TaskType] /\ TaskBudget'
                         /\ wk' \in [Tasks -> WorkerType]
<1>1. task \in [Tasks -> TaskType] /\ TaskBudget /\ wk \in [Tasks -> WorkerType]
  BY DEF TypeInv, TypeOK
<1>2. \A pc \in WorkerPc : GoTo(t, pc) => wk' \in [Tasks -> WorkerType]
  BY <1>1 DEF GoTo, WorkerType
<1>3. ASSUME Finish(t)
      PROVE  /\ task' \in [Tasks -> TaskType] /\ TaskBudget'
             /\ wk' \in [Tasks -> WorkerType]
  <2>1. [task[t] EXCEPT !.state = "completed"] \in TaskType
    BY <1>1 DEF TaskType
  <2>2. task' = [task EXCEPT ![t] = [task[t] EXCEPT !.state = "completed"]]
    BY <1>3 DEF Finish
  <2>3. task' \in [Tasks -> TaskType]
    BY <1>1, <2>1, <2>2
  <2>4. /\ task'[t].state = "completed" /\ task'[t].row = task[t].row
        /\ \A u \in Tasks : u # t => task'[u] = task[u]
    BY <1>1, <2>2 DEF TaskType
  <2>5. TaskBudget'
    BY <1>1, <2>4 DEF TaskBudget
  <2>6. Idle \in WorkerType
    BY DEF Idle, WorkerType, WorkerPc
  <2>7. wk' \in [Tasks -> WorkerType]
    BY <1>1, <1>3, <2>6 DEF Finish
  <2>8. QED BY <2>3, <2>5, <2>7
<1>4. ASSUME NEW pc \in WorkerPc, StopOr(t, pc)
      PROVE  /\ task' \in [Tasks -> TaskType] /\ TaskBudget'
             /\ wk' \in [Tasks -> WorkerType]
  BY <1>1, <1>2, <1>3, <1>4 DEF StopOr, TaskBudget
<1>5. QED BY <1>2, <1>3, <1>4

\* The steps of a worker that only move it or end its task.
LEMMA TypeControl ==
  ASSUME TypeInv, NEW t \in Tasks,
         \/ Load(t) \/ ProjectCheck(t) \/ BatchCheck(t) \/ Fetch(t)
         \/ MembersCheck(t) \/ MemberStop(t) \/ Done(t)
  PROVE  TypeInv'
<1>0. /\ row \in [Rows -> RowType] /\ task \in [Tasks -> TaskType] /\ TaskBudget
      /\ wk \in [Tasks -> WorkerType] /\ call \in [Clients -> CallType] /\ CallRows
      /\ task[t].state = "active"
  BY DEF TypeInv, TypeOK, Load, ProjectCheck, BatchCheck, Fetch, MembersCheck, MemberStop,
         Done, At
<1>1. {"mark", "projectSave", "fetch", "issuesDone", "memberDocs"} \subseteq WorkerPc
  BY DEF WorkerPc
<1>2. SUFFICES /\ task' \in [Tasks -> TaskType] /\ TaskBudget'
               /\ wk' \in [Tasks -> WorkerType]
               /\ UNCHANGED <<row, call, indexVars, esUp, crashes>>
  BY <1>0, TypeKept DEF CallRows
<1>3. UNCHANGED <<row, call, indexVars, esUp, crashes>>
  BY DEF Load, ProjectCheck, BatchCheck, Fetch, MembersCheck, MemberStop, Done
<1>4. CASE Load(t)
  <2>1. CASE Finish(t)
    BY <1>0, <1>3, <2>1, TypeMoves
  <2>2. CASE ~Finish(t)
    <3>1. /\ UNCHANGED task
          /\ wk' = [wk EXCEPT ![t].pc = "mark", ![t].phases = row[task[t].row].phases,
                              ![t].offset = row[task[t].row].offset]
          /\ row[task[t].row].status \notin {"cancelled", "completed"}
      BY <1>4, <2>2 DEF Load
    <3>2. row[task[t].row] \in RowType
      BY <1>0 DEF TaskBudget
    <3>3. /\ row[task[t].row].phases \in SUBSET Phases /\ row[task[t].row].offset \in Nat
          /\ "mark" \in WorkerPc
      BY <3>2 DEF RowType, WorkerPc
    <3>4. wk' \in [Tasks -> WorkerType]
      BY <1>0, <3>1, <3>3 DEF WorkerType
    <3>5. QED BY <1>0, <1>3, <3>1, <3>4 DEF TaskBudget
  <2>3. QED BY <2>1, <2>2
<1>5. CASE ProjectCheck(t)
  BY <1>0, <1>1, <1>3, <1>5, TypeMoves DEF ProjectCheck
<1>6. CASE BatchCheck(t)
  BY <1>0, <1>1, <1>3, <1>6, TypeMoves DEF BatchCheck, TaskBudget
<1>7. CASE Fetch(t)
  <2>1. \A batch \in Batches(wk[t].offset) : batch \in SUBSET Issues
    BY DEF Batches, TypeInv, TypeOK
  <2>2. /\ UNCHANGED task
        /\ \/ wk' = [wk EXCEPT ![t].pc = "issuesDone"]
           \/ \E batch \in SUBSET Issues :
                wk' = [wk EXCEPT ![t].pc = "bulk", ![t].batch = batch]
    BY <1>7, <2>1 DEF Fetch
  <2>3. {"issuesDone", "bulk"} \subseteq WorkerPc
    BY DEF WorkerPc
  <2>4. wk' \in [Tasks -> WorkerType]
    BY <1>0, <2>1, <2>2, <2>3 DEF WorkerType
  <2>5. QED BY <1>0, <1>3, <2>2, <2>4 DEF TaskBudget
<1>8. CASE MembersCheck(t)
  BY <1>0, <1>1, <1>3, <1>8, TypeMoves DEF MembersCheck
<1>9. CASE MemberStop(t) \/ Done(t)
  BY <1>0, <1>3, <1>9, TypeMoves DEF MemberStop, Done
<1>10. QED BY <1>4, <1>5, <1>6, <1>7, <1>8, <1>9

\* The steps of a worker that write the row.
LEMMA TypeRowSteps ==
  ASSUME TypeInv, NEW t \in Tasks,
         \/ SkipUnavailable(t) \/ Mark(t) \/ ProjectSave(t) \/ Count(t) \/ SaveOffset(t)
         \/ IssuesDone(t) \/ MembersSave(t) \/ Complete(t) \/ OnFailed(t)
  PROVE  TypeInv'
<1>0. /\ row \in [Rows -> RowType] /\ task \in [Tasks -> TaskType] /\ TaskBudget
      /\ wk \in [Tasks -> WorkerType] /\ call \in [Clients -> CallType] /\ CallRows
  BY DEF TypeInv, TypeOK
<1>1. SUFFICES row' \in [Rows -> RowType] /\ wk' \in [Tasks -> WorkerType]
  <2>1. UNCHANGED <<task, call, indexVars, esUp, crashes>>
    BY DEF SkipUnavailable, Mark, ProjectSave, Count, SaveOffset, IssuesDone, MembersSave,
           Complete, OnFailed, SavePhase
  <2>2. QED BY <1>0, <1>1, <2>1, TypeKept DEF TaskBudget, CallRows
<1>2. ASSUME NEW phase \in Phases, SavePhase(t, phase)
      PROVE  row' \in [Rows -> RowType] /\ wk' \in [Tasks -> WorkerType]
  <2> DEFINE phases == wk[t].phases \union {phase}
  <2>1. phases \in SUBSET Phases
    BY <1>0 DEF WorkerType
  <2>2. row' \in [Rows -> RowType]
    <3>1. \A r \in RowType : WithPhases(r, phases, phase) \in RowType
      BY <2>1 DEF WithPhases, RowType
    <3>2. QED BY <1>0, <1>2, <3>1 DEF SavePhase
  <2>3. NextPc(phases) \in WorkerPc
    BY <2>1, NextPcType
  <2>4. wk' \in [Tasks -> WorkerType]
    <3> DEFINE new == [wk[t] EXCEPT !.phases = phases, !.pc = NextPc(phases),
                                    !.offset = IF phase = 2 THEN 0 ELSE @, !.total = 0]
    <3>1. wk[t] \in WorkerType
      BY <1>0
    <3>2. new \in WorkerType
      BY <2>1, <2>3, <3>1 DEF WorkerType
    <3>3. wk' = [wk EXCEPT ![t] = new]
      BY <1>0, <1>2 DEF SavePhase
    <3>4. QED BY <1>0, <3>2, <3>3
  <2>5. QED BY <2>2, <2>4
<1>3. ASSUME row' = [row EXCEPT ![task[t].row] = MarkFailed(@)] \/ UNCHANGED row
      PROVE  row' \in [Rows -> RowType]
  <2>1. \A r \in RowType : MarkFailed(r) \in RowType
    BY DEF MarkFailed, RowType, Active, Terminal
  <2>2. QED BY <1>0, <1>3, <2>1
<1>4. \A pc \in WorkerPc : GoTo(t, pc) => wk' \in [Tasks -> WorkerType]
  BY <1>0 DEF GoTo, WorkerType
<1>13. /\ wk[t].offset \in Nat
       /\ \A r \in RowType : [r EXCEPT !.offset = wk[t].offset] \in RowType
  <2>1. wk[t].offset \in Nat
    BY <1>0 DEF WorkerType
  <2>2. QED BY <2>1 DEF RowType
<1>5. CASE SkipUnavailable(t)
  BY <1>3, <1>4, <1>5 DEF SkipUnavailable, WorkerPc
<1>6. CASE Mark(t)
  <2>1. row' \in [Rows -> RowType]
    BY <1>0, <1>6 DEF Mark, RowType, Active
  <2>2. NextPc(wk[t].phases) \in WorkerPc
    BY <1>0, NextPcType DEF WorkerType
  <2>3. QED BY <1>4, <1>6, <2>1, <2>2 DEF Mark
<1>7. CASE ProjectSave(t) \/ IssuesDone(t) \/ MembersSave(t)
  BY <1>2, <1>7 DEF ProjectSave, IssuesDone, MembersSave, Phases
<1>8. CASE Count(t)
  <2>1. row' \in [Rows -> RowType]
    BY <1>0, <1>8, <1>13 DEF Count
  <2>2. wk' \in [Tasks -> WorkerType]
    <3>1. Cardinality(live) \in Nat
      BY LiveFinite DEF TypeInv
    <3>2. \A w \in WorkerType :
            [w EXCEPT !.pc = "check", !.total = Cardinality(live)] \in WorkerType
      BY <3>1 DEF WorkerType, WorkerPc
    <3>3. QED BY <1>0, <1>8, <3>2 DEF Count
  <2>3. QED BY <2>1, <2>2
<1>9. CASE SaveOffset(t)
  <2>1. row' \in [Rows -> RowType]
    BY <1>0, <1>9, <1>13 DEF SaveOffset
  <2>2. QED BY <1>4, <1>9, <2>1 DEF SaveOffset, WorkerPc
<1>10. CASE Complete(t)
  <2>1. row' \in [Rows -> RowType]
    BY <1>0, <1>10 DEF Complete, RowType, Terminal
  <2>2. QED BY <1>4, <1>10, <2>1 DEF Complete, WorkerPc
<1>11. CASE OnFailed(t)
  <2>1. Idle \in WorkerType
    BY DEF Idle, WorkerType, WorkerPc
  <2>2. QED BY <1>0, <1>3, <1>11, <2>1 DEF OnFailed
<1>12. QED BY <1>5, <1>6, <1>7, <1>8, <1>9, <1>10, <1>11

\* A queue job is taken, or its attempt throws.
LEMMA TypeAttempts ==
  ASSUME TypeInv, NEW t \in Tasks, Dispatch(t) \/ Throw(t)
  PROVE  TypeInv'
<1>0. /\ row \in [Rows -> RowType] /\ task \in [Tasks -> TaskType] /\ TaskBudget
      /\ wk \in [Tasks -> WorkerType] /\ call \in [Clients -> CallType] /\ CallRows
  BY DEF TypeInv, TypeOK
<1>1. CASE Dispatch(t)
  <2>1. [task[t] EXCEPT !.state = "active"] \in TaskType
    BY <1>0 DEF TaskType
  <2>2. task' = [task EXCEPT ![t] = [task[t] EXCEPT !.state = "active"]]
    BY <1>1 DEF Dispatch
  <2>3. task' \in [Tasks -> TaskType]
    BY <1>0, <2>1, <2>2
  <2>4. /\ task[t].state = "waiting" /\ task'[t].state = "active"
        /\ task'[t].row = task[t].row /\ task'[t].attempts = task[t].attempts
        /\ task'[t].stalls = task[t].stalls
        /\ \A u \in Tasks : u # t => task'[u] = task[u]
    BY <1>0, <1>1, <2>2 DEF Dispatch, TaskType
  <2>5. TaskBudget'
    BY <1>0, <2>4 DEF TaskBudget
  <2>6. wk' \in [Tasks -> WorkerType]
    BY <1>0, <1>1 DEF Dispatch, GoTo, WorkerType, WorkerPc
  <2>7. QED BY <1>0, <1>1, <2>3, <2>5, <2>6, TypeKept DEF Dispatch, CallRows
<1>2. CASE Throw(t)
  <2> DEFINE last == task[t].attempts + 1 = MaxAttempts
             new == [task[t] EXCEPT !.attempts = @ + 1,
                                    !.state = IF last THEN "failed" ELSE "waiting"]
  <2>1. task[t].state = "active" /\ task[t] \in TaskType
    BY <1>0, <1>2 DEF Throw
  <2>2. task[t].attempts < MaxAttempts /\ task[t].row \in Rows /\ task[t].stalls <= MaxStalls
    BY <1>0, <2>1 DEF TaskBudget
  <2>3. new \in TaskType
    <3>1. task[t].attempts + 1 \in 0..MaxAttempts
      BY <2>1, <2>2, ConstantsAssumption DEF TaskType
    <3>2. QED BY <2>1, <3>1 DEF TaskType
  <2>4. task' = [task EXCEPT ![t] = new]
    BY <1>0, <1>2 DEF Throw
  <2>5. task' \in [Tasks -> TaskType]
    BY <1>0, <2>3, <2>4
  <2>6. /\ new.state # "failed" => new.attempts < MaxAttempts
        /\ new.state \in {"failed", "waiting"}
        /\ new.row = task[t].row /\ new.stalls = task[t].stalls
    BY <2>1, <2>2, ConstantsAssumption DEF TaskType
  <2>7. task'[t] = new /\ \A u \in Tasks : u # t => task'[u] = task[u]
    BY <1>0, <2>4
  <2>8. TaskBudget'
    BY <1>0, <2>2, <2>6, <2>7 DEF TaskBudget
  <2>9. /\ Idle \in WorkerType
        /\ [Idle EXCEPT !.pc = "failed"] \in WorkerType
    BY DEF Idle, WorkerType, WorkerPc
  <2>10. wk' \in [Tasks -> WorkerType]
    BY <1>0, <1>2, <2>9 DEF Throw
  <2>11. wk[t].batch \in SUBSET Issues
    BY <1>0 DEF WorkerType
  <2>12. es' \in SUBSET Issues
    BY <1>2, <2>11 DEF Throw, TypeInv, TypeOK
  <2>13. QED
    BY <1>0, <1>2, <2>5, <2>8, <2>10, <2>12 DEF Throw, TypeInv, TypeOK, CallRows, listVars
<1>3. QED BY <1>1, <1>2

LEMMA TypeBulk ==
  ASSUME TypeInv, NEW t \in Tasks, Bulk(t)
  PROVE  TypeInv'
<1>1. PICK rejected \in SUBSET wk[t].batch :
        /\ lost + Cardinality(rejected) <= MaxLost
        /\ lost' = lost + Cardinality(rejected)
        /\ es' = es \union (wk[t].batch \ rejected)
  BY DEF Bulk
<1>2. wk[t] \in WorkerType /\ wk \in [Tasks -> WorkerType]
  BY DEF TypeInv, TypeOK
<1>3. wk[t].batch \in SUBSET Issues /\ wk[t].offset \in Nat
  BY <1>2 DEF WorkerType
<1>4. Cardinality(rejected) \in Nat /\ Cardinality(wk[t].batch) \in Nat
  BY <1>3, IssueSetFinite
<1>5. lost' \in 0..MaxLost /\ es' \in SUBSET Issues
  BY <1>1, <1>3, <1>4, ConstantsAssumption DEF TypeInv, TypeOK
<1>6. LateAfter(t) \in 0..2 /\ wk[t].offset + Cardinality(wk[t].batch) \in Nat
  BY <1>2, <1>3, <1>4 DEF LateAfter, WorkerType
<1>7. [wk[t] EXCEPT !.pc = "saveOffset", !.batch = {},
                    !.offset = wk[t].offset + Cardinality(wk[t].batch),
                    !.late = LateAfter(t)] \in WorkerType
  BY <1>2, <1>6 DEF WorkerType, WorkerPc
<1>8. wk' = [wk EXCEPT ![t] = [wk[t] EXCEPT !.pc = "saveOffset", !.batch = {},
                                 !.offset = wk[t].offset + Cardinality(wk[t].batch),
                                 !.late = LateAfter(t)]]
  BY <1>2 DEF Bulk
<1>9. wk' \in [Tasks -> WorkerType]
  BY <1>2, <1>7, <1>8
<1>10. UNCHANGED <<row, task, call, listVars, indexJobs, deleteJobs, esUp, crashes>>
  BY DEF Bulk
<1>11. QED
  BY <1>5, <1>9, <1>10 DEF TypeInv, TypeOK, TaskBudget, CallRows, listVars

LEMMA TypeCrash ==
  ASSUME TypeInv, Crash
  PROVE  TypeInv'
<1>0. task \in [Tasks -> TaskType] /\ TaskBudget
  BY DEF TypeInv, TypeOK
<1>1. Idle \in WorkerType
  BY DEF Idle, WorkerType, WorkerPc
<1>2. wk' \in [Tasks -> WorkerType]
  BY <1>1 DEF Crash
<1> DEFINE redelivered(t) == [task[t] EXCEPT !.stalls = @ + 1,
                    !.state = IF task[t].stalls + 1 > MaxStalls THEN "failed" ELSE "waiting"]
<1>3. ASSUME NEW t \in Tasks, task[t].state = "active"
      PROVE  /\ redelivered(t) \in TaskType
             /\ redelivered(t).state \in {"failed", "waiting"}
             /\ redelivered(t).state # "failed" => redelivered(t).stalls <= MaxStalls
             /\ redelivered(t).attempts = task[t].attempts
             /\ redelivered(t).row = task[t].row
  <2>1. task[t] \in TaskType /\ task[t].stalls <= MaxStalls
    BY <1>0, <1>3 DEF TaskBudget
  <2>2. task[t].stalls \in 0..(MaxStalls + 1)
    BY <2>1 DEF TaskType
  <2>3. task[t].stalls + 1 \in 0..(MaxStalls + 1)
    BY <2>1, <2>2, ConstantsAssumption
  <2>4. redelivered(t) \in TaskType
    BY <2>1, <2>3 DEF TaskType
  <2>5. QED BY <2>1, <2>2, <2>4, ConstantsAssumption DEF TaskType
<1>4. \A t \in Tasks : task'[t] = IF task[t].state # "active" THEN task[t]
                                  ELSE redelivered(t)
  BY DEF Crash
<1>5. task' \in [Tasks -> TaskType]
  BY <1>0, <1>3, <1>4 DEF Crash
<1>6. TaskBudget'
  BY <1>0, <1>3, <1>4 DEF TaskBudget
<1>7. crashes' \in 0..MaxCrashes
  <2>1. crashes \in 0..MaxCrashes
    BY DEF TypeInv, TypeOK
  <2>2. crashes < MaxCrashes /\ crashes' = crashes + 1
    BY DEF Crash
  <2>3. QED BY <2>1, <2>2, ConstantsAssumption
<1>8. QED
  BY <1>2, <1>5, <1>6, <1>7 DEF Crash, TypeInv, TypeOK, CallRows, indexVars, listVars

\* Issues and their own jobs.
LEMMA TypeIssues ==
  ASSUME TypeInv, NEW i \in Issues, IssueStep(i)
  PROVE  TypeInv'
<1> USE DEF TypeInv, TypeOK, TaskBudget, CallRows, jobVars, listVars
<1>1. lost < MaxLost => lost + 1 \in 0..MaxLost
  BY ConstantsAssumption
<1>2. shifts < MaxShifts => shifts + 1 \in 0..MaxShifts
  BY ConstantsAssumption
<1>3. CASE CreateIssue(i) \/ UpdateIssue(i)
  BY <1>1, <1>3 DEF CreateIssue, UpdateIssue
<1>4. CASE DeleteIssue(i)
  BY <1>2, <1>4 DEF DeleteIssue
<1>7. CASE ArriveIssue(i)
  <2>1. shifts' \in 0..MaxShifts /\ es' \in SUBSET Issues /\ strays' \in SUBSET Issues
    BY <1>2, <1>7 DEF ArriveIssue
  <2>2. issues' \in SUBSET Issues /\ live' \in SUBSET Issues
    BY <1>7 DEF ArriveIssue
  <2>3. UNCHANGED <<row, task, wk, call, indexJobs, deleteJobs, lost, esUp, crashes>>
    BY <1>7 DEF ArriveIssue
  <2>4. QED BY <2>1, <2>2, <2>3
<1>5. CASE IndexIssue(i) \/ RemoveIssue(i)
  BY <1>1, <1>5 DEF IndexIssue, RemoveIssue
<1>6. QED BY <1>3, <1>4, <1>5, <1>7 DEF IssueStep

LEMMA TypeStep == TypeInv /\ [Next]_vars => TypeInv'
<1> SUFFICES ASSUME TypeInv, [Next]_vars
             PROVE  TypeInv'
  OBVIOUS
<1>1. ASSUME NEW c \in Clients, StartCheck(c) \/ CallStep(c) \/ CallFails(c)
      PROVE  TypeInv'
  BY <1>1, TypeCalls
<1>2. ASSUME NEW c \in Clients, NEW j \in Rows, RetryCheck(c, j) \/ CancelCheck(c, j)
      PROVE  TypeInv'
  BY <1>2, TypeCalls
<1>3. ASSUME NEW t \in Tasks, Dispatch(t) \/ WorkerStep(t) \/ Throw(t)
      PROVE  TypeInv'
  BY <1>3, TypeAttempts, TypeControl, TypeRowSteps, TypeBulk DEF WorkerStep
<1>4. ASSUME NEW i \in Issues, IssueStep(i)
      PROVE  TypeInv'
  BY <1>4, TypeIssues
<1>5. CASE Crash
  BY <1>5, TypeCrash
<1>6. CASE UNCHANGED vars
  BY <1>6 DEF vars, jobVars, indexVars, listVars, TypeInv, TypeOK, TaskBudget, CallRows
<1>7. QED BY <1>1, <1>2, <1>3, <1>4, <1>5, <1>6 DEF Next

\* Every state has the types of TypeOK.  (SearchReindexService and
\* search.worker.ts: attempts and stalls stay within BullMQ's limits, progress
\* stays a number, phases stay phases.)
THEOREM TypeCorrect == Spec => []TypeOK
<1>1. TypeInv => TypeOK
  BY DEF TypeInv
<1>2. QED BY TypeInit, TypeStep, <1>1, PTL DEF Spec

-----------------------------------------------------------------------------
(* The queue jobs of a row: NoStuckRow, CancelledStops,                    *)
(* CompletedUntilRetried                                                   *)

\* A worker holds exactly the active jobs; one that has none, or whose last attempt has
\* failed, has written nothing.
WorkersRun ==
  \A t \in Tasks :
    /\ wk[t].pc \notin {"idle", "failed"} <=> task[t].state = "active"
    /\ wk[t].pc = "failed" => task[t].state \in {"failed", "removed"}
    /\ wk[t].pc \in {"idle", "failed"} => wk[t].late = 0

\* A worker that has written its batch under a cancelled row is past the loop, or will see
\* the cancel before it fetches the next one.
CancelSeen ==
  \A t \in Tasks :
    wk[t].pc # "idle" /\ row[task[t].row].status = "cancelled" =>
      /\ wk[t].late <= 1
      /\ wk[t].pc \in {"fetch", "bulk"} => wk[t].late = 0

\* Jobs under the original id of row j, and calls about to add one.
IsOriginal(t, j) == task[t].state # "none" /\ ~task[t].retry /\ task[t].row = j
Starts(c, j) == call[c].pc = "enqueueFirst" /\ call[c].row = j

\* A row gets one of them: its insert and its first job are one call.
OneOriginal ==
  \A j \in Rows :
    /\ \A t, u \in Tasks : IsOriginal(t, j) /\ IsOriginal(u, j) => t = u
    /\ \A b, c \in Clients : Starts(b, j) /\ Starts(c, j) => b = c
    /\ \A c \in Clients, t \in Tasks : ~(Starts(c, j) /\ IsOriginal(t, j))
    /\ row[j].status = "none" =>
         /\ \A c \in Clients : ~Starts(c, j)
         /\ \A t \in Tasks : ~IsOriginal(t, j)

\* So without a retry nobody completes a row behind the worker that has loaded it.
MarkFresh ==
  \A t \in Tasks :
    wk[t].pc = "mark" /\ Retries(task[t].row) = {} => row[task[t].row].status # "completed"

\* A pending row is open, and the job of a retry is never removed.
PendingOpen == \A j \in Rows : row[j].status = "pending" => ~row[j].closed
RetriesStay == \A t \in Tasks : task[t].retry => task[t].state # "removed"

QueueInv ==
  WorkersRun /\ CancelSeen /\ OneOriginal /\ MarkFresh /\ PendingOpen /\ RetriesStay

LEMMA QueueInit == Init => QueueInv
BY DEF Init, QueueInv, WorkersRun, CancelSeen, OneOriginal, MarkFresh, PendingOpen, RetriesStay,
       IsOriginal, Starts, NoRow, NoTask, Idle, NoCall

\* What a step of worker t does to its job, to its row and to itself.
JobMoves(t) ==
  /\ UNCHANGED call
  /\ task[t].row \in Rows /\ task'[t].row = task[t].row
  /\ task'[t].retry = task[t].retry
  /\ task[t].state # "none" /\ task'[t].state # "none"
  /\ task'[t].state = "removed" => task[t].state = "removed"
  /\ \A u \in Tasks : u # t => task'[u] = task[u] /\ wk'[u] = wk[u]
  /\ \A j \in Rows : j # task[t].row => row'[j] = row[j]

RowMoves(t, r, s) ==
  \/ s.status = r.status /\ s.closed = r.closed
  \/ s.status = "failed" /\ r.status # "cancelled"
  \/ s.status = "processing" /\ At(t, "mark")
  \/ s.status = "completed" /\ At(t, "complete")

WorkerMoves(t, w, v) ==
  LET before == row[task[t].row].status
      after  == row'[task[t].row].status
  IN /\ v.late \in {0, w.late} \/ (w.pc = "bulk" /\ v.pc = "saveOffset" /\ v.late <= w.late + 1)
     /\ v.pc = "fetch" => before # "cancelled" /\ after = before
     /\ v.pc = "bulk" => w.pc = "fetch" /\ v.late = w.late
     /\ v.pc = "mark" => before # "completed" /\ after = before
     /\ v.pc \notin {"idle", "failed"} <=> task'[t].state = "active"
     /\ v.pc = "failed" => task'[t].state = "failed"
     /\ v.pc \in {"idle", "failed"} => v.late = 0

Moves(t) ==
  /\ JobMoves(t)
  /\ RowMoves(t, row[task[t].row], row'[task[t].row])
  /\ WorkerMoves(t, wk[t], wk'[t])

\* The steps of a worker that only move it on, or end its job.
LEMMA ControlMoves ==
  ASSUME TypeInv, WorkersRun, NEW t \in Tasks,
         \/ Dispatch(t) \/ Load(t) \/ ProjectCheck(t) \/ BatchCheck(t) \/ Fetch(t)
         \/ MembersCheck(t) \/ MemberStop(t) \/ Done(t) \/ Throw(t) \/ Bulk(t)
  PROVE  Moves(t)
<1>0. /\ row \in [Rows -> RowType] /\ task \in [Tasks -> TaskType] /\ TaskBudget
      /\ wk \in [Tasks -> WorkerType] /\ wk[t] \in WorkerType /\ task[t] \in TaskType
  BY DEF TypeInv, TypeOK
<1>1. task[t].state # "none" /\ task[t].row \in Rows /\ UNCHANGED <<row, call>>
  BY <1>0 DEF Dispatch, Load, ProjectCheck, BatchCheck, Fetch, MembersCheck, MemberStop, Done,
              Throw, Bulk, At, TaskBudget
<1>2. RowMoves(t, row[task[t].row], row'[task[t].row])
  BY <1>1 DEF RowMoves
<1>3. ASSUME NEW state \in {"waiting", "active", "completed", "failed"}, NEW attempts,
             task' = [task EXCEPT ![t].state = state]
               \/ task' = [task EXCEPT ![t].state = state, ![t].attempts = attempts],
             NEW w, wk' = [wk EXCEPT ![t] = w]
      PROVE  JobMoves(t) /\ task'[t].state = state /\ wk'[t] = w
  BY <1>0, <1>1, <1>3 DEF JobMoves, TaskType
<1>4. ASSUME NEW w, task' = task, task[t].state = "active", wk' = [wk EXCEPT ![t] = w]
      PROVE  JobMoves(t) /\ task'[t].state = "active" /\ wk'[t] = w
  BY <1>0, <1>1, <1>4 DEF JobMoves
<1>5. ASSUME Finish(t)
      PROVE  Moves(t)
  <2>1. JobMoves(t) /\ task'[t].state = "completed" /\ wk'[t] = Idle
    BY <1>3, <1>5 DEF Finish
  <2>2. WorkerMoves(t, wk[t], wk'[t])
    BY <2>1 DEF WorkerMoves, Idle
  <2>3. QED BY <1>2, <2>1, <2>2 DEF Moves
<1>6. ASSUME NEW w \in WorkerType, task' = task, task[t].state = "active",
             wk' = [wk EXCEPT ![t] = w], w.late = wk[t].late, w.pc \notin {"idle", "failed"},
             w.pc = "fetch" => row[task[t].row].status # "cancelled",
             w.pc = "bulk" => wk[t].pc = "fetch",
             w.pc = "mark" => row[task[t].row].status # "completed"
      PROVE  Moves(t)
  <2>1. JobMoves(t) /\ task'[t].state = "active" /\ wk'[t] = w
    BY <1>4, <1>6
  <2>2. WorkerMoves(t, wk[t], wk'[t])
    BY <1>1, <1>6, <2>1 DEF WorkerMoves
  <2>3. QED BY <1>2, <2>1, <2>2 DEF Moves
<1>7. ASSUME NEW pc \in WorkerPc \ {"idle", "failed", "bulk", "mark"}, GoTo(t, pc), task' = task,
             task[t].state = "active", pc = "fetch" => row[task[t].row].status # "cancelled"
      PROVE  Moves(t)
  <2> DEFINE w == [wk[t] EXCEPT !.pc = pc]
  <2>1. w \in WorkerType /\ w.late = wk[t].late /\ w.pc = pc
    BY <1>0 DEF WorkerType
  <2>2. wk' = [wk EXCEPT ![t] = w]
    BY <1>0, <1>7 DEF GoTo
  <2>3. QED BY <1>6, <1>7, <2>1, <2>2
<1>8. CASE Dispatch(t)
  <2> DEFINE w == [wk[t] EXCEPT !.pc = "load"]
  <2>1. /\ wk[t].pc \in {"idle", "failed"} /\ wk[t].late = 0
        /\ task' = [task EXCEPT ![t].state = "active"] /\ wk' = [wk EXCEPT ![t] = w]
    BY <1>0, <1>8 DEF Dispatch, WorkersRun, GoTo
  <2>2. w.pc = "load" /\ w.late = 0
    BY <1>0, <2>1 DEF WorkerType
  <2>3. JobMoves(t) /\ task'[t].state = "active" /\ wk'[t] = w
    BY <1>3, <2>1
  <2>4. WorkerMoves(t, wk[t], wk'[t])
    BY <2>2, <2>3 DEF WorkerMoves
  <2>5. QED BY <1>2, <2>3, <2>4 DEF Moves
<1>9. CASE Load(t)
  <2>1. CASE Finish(t)
    BY <1>5, <2>1
  <2>2. CASE ~Finish(t)
    <3> DEFINE r == row[task[t].row]
               w == [wk[t] EXCEPT !.pc = "mark", !.phases = r.phases, !.offset = r.offset]
    <3>1. r \in RowType /\ r.status \notin {"cancelled", "completed"}
      BY <1>0, <1>1, <1>9, <2>2 DEF Load
    <3>2. w \in WorkerType /\ w.pc = "mark" /\ w.late = wk[t].late
      BY <1>0, <3>1 DEF WorkerType, RowType, WorkerPc
    <3>3. wk' = [wk EXCEPT ![t] = w] /\ task' = task /\ task[t].state = "active"
      BY <1>0, <1>9, <2>2 DEF Load, At
    <3>4. QED BY <1>6, <3>1, <3>2, <3>3
  <2>3. QED BY <2>1, <2>2
<1>10. CASE ProjectCheck(t) \/ MembersCheck(t) \/ BatchCheck(t)
  BY <1>5, <1>7, <1>10 DEF ProjectCheck, MembersCheck, BatchCheck, StopOr, Cancelled, At,
                           WorkerPc
<1>11. CASE Fetch(t)
  <2>1. PICK batch \in Batches(wk[t].offset) :
          wk' = IF batch = {} THEN [wk EXCEPT ![t].pc = "issuesDone"]
                ELSE [wk EXCEPT ![t].pc = "bulk", ![t].batch = batch]
    BY <1>11 DEF Fetch
  <2> DEFINE w == [wk[t] EXCEPT !.pc = "bulk", !.batch = batch]
  <2>2. CASE batch = {}
    <3>1. GoTo(t, "issuesDone") /\ task' = task /\ task[t].state = "active"
      BY <1>11, <2>1, <2>2 DEF Fetch, GoTo, At
    <3>2. QED BY <1>7, <3>1 DEF WorkerPc
  <2>3. CASE batch # {}
    <3>1. batch \in SUBSET Issues
      BY DEF Batches, TypeInv, TypeOK
    <3>2. w \in WorkerType /\ w.pc = "bulk" /\ w.late = wk[t].late
      BY <1>0, <3>1 DEF WorkerType, WorkerPc
    <3>3. wk' = [wk EXCEPT ![t] = w] /\ task' = task /\ At(t, "fetch")
      BY <1>0, <1>11, <2>1, <2>3 DEF Fetch
    <3>4. QED BY <1>6, <3>2, <3>3 DEF At
  <2>4. QED BY <2>2, <2>3
<1>12. CASE Bulk(t)
  <2> DEFINE w == [wk[t] EXCEPT !.pc = "saveOffset", !.batch = {},
                                !.offset = wk[t].offset + Cardinality(wk[t].batch),
                                !.late = LateAfter(t)]
  <2>1. wk' = [wk EXCEPT ![t] = w] /\ task' = task /\ At(t, "bulk")
    BY <1>0, <1>12 DEF Bulk
  <2>2. w.pc = "saveOffset" /\ w.late = LateAfter(t) /\ wk[t].late \in 0..2
    BY <1>0 DEF WorkerType
  <2>3. LateAfter(t) <= wk[t].late + 1
    BY <2>2 DEF LateAfter
  <2>4. JobMoves(t) /\ task'[t].state = "active" /\ wk'[t] = w
    BY <1>4, <2>1 DEF At
  <2>5. WorkerMoves(t, wk[t], wk'[t])
    BY <2>1, <2>2, <2>3, <2>4 DEF WorkerMoves, At
  <2>6. QED BY <1>2, <2>4, <2>5 DEF Moves
<1>13. CASE MemberStop(t) \/ Done(t)
  BY <1>5, <1>13 DEF MemberStop, Done
<1>14. CASE Throw(t)
  <2> DEFINE last == task[t].attempts + 1 = MaxAttempts
             state == IF last THEN "failed" ELSE "waiting"
             w == IF last THEN [Idle EXCEPT !.pc = "failed"] ELSE Idle
  <2>1. wk' = [wk EXCEPT ![t] = w]
        /\ task' = [task EXCEPT ![t].state = state, ![t].attempts = task[t].attempts + 1]
    BY <1>0, <1>14 DEF Throw
  <2>2. w.late = 0 /\ w.pc = IF last THEN "failed" ELSE "idle"
    BY DEF Idle
  <2>3. JobMoves(t) /\ task'[t].state = state /\ wk'[t] = w
    BY <1>3, <2>1
  <2>4. WorkerMoves(t, wk[t], wk'[t])
    BY <2>2, <2>3 DEF WorkerMoves
  <2>5. QED BY <1>2, <2>3, <2>4 DEF Moves
<1>15. QED BY <1>8, <1>9, <1>10, <1>11, <1>12, <1>13, <1>14

\* The steps of a worker that write its row.
LEMMA RowStepMoves ==
  ASSUME TypeInv, WorkersRun, NEW t \in Tasks,
         \/ SkipUnavailable(t) \/ Mark(t) \/ ProjectSave(t) \/ Count(t) \/ SaveOffset(t)
         \/ IssuesDone(t) \/ MembersSave(t) \/ Complete(t) \/ OnFailed(t)
  PROVE  Moves(t)
<1>0. /\ row \in [Rows -> RowType] /\ task \in [Tasks -> TaskType] /\ TaskBudget
      /\ wk \in [Tasks -> WorkerType] /\ wk[t] \in WorkerType /\ task[t] \in TaskType
  BY DEF TypeInv, TypeOK
<1>1. UNCHANGED <<task, call>>
  BY DEF SkipUnavailable, Mark, ProjectSave, Count, SaveOffset, IssuesDone, MembersSave, Complete,
         OnFailed, SavePhase
<1>2. /\ task[t].state = "active" \/ (OnFailed(t) /\ wk[t].pc = "failed")
      /\ task[t].state # "none" /\ task[t].row \in Rows
  BY <1>0 DEF SkipUnavailable, Mark, ProjectSave, Count, SaveOffset, IssuesDone, MembersSave,
              Complete, OnFailed, At, TaskBudget, WorkersRun
<1> DEFINE j == task[t].row
<1>3. row[j] \in RowType
  BY <1>0, <1>2
<1>4. ASSUME NEW r, row' = [row EXCEPT ![j] = r], NEW w, wk' = [wk EXCEPT ![t] = w]
      PROVE  JobMoves(t) /\ row'[j] = r /\ wk'[t] = w
  BY <1>0, <1>1, <1>2, <1>4 DEF JobMoves
<1>5. ASSUME NEW r, row' = [row EXCEPT ![j] = r], RowMoves(t, row[j], r),
             NEW w, wk' = [wk EXCEPT ![t] = w], task[t].state = "active", w.late = wk[t].late,
             w.pc \notin {"idle", "failed", "fetch", "bulk", "mark"}
      PROVE  Moves(t)
  <2>1. JobMoves(t) /\ row'[j] = r /\ wk'[t] = w
    BY <1>4, <1>5
  <2>2. WorkerMoves(t, wk[t], wk'[t])
    BY <1>1, <1>5, <2>1 DEF WorkerMoves
  <2>3. QED BY <1>5, <2>1, <2>2 DEF Moves
<1>6. ASSUME NEW pc \in WorkerPc \ {"idle", "failed", "fetch", "bulk", "mark"}, GoTo(t, pc),
             NEW r, row' = [row EXCEPT ![j] = r], RowMoves(t, row[j], r), task[t].state = "active"
      PROVE  Moves(t)
  <2> DEFINE w == [wk[t] EXCEPT !.pc = pc]
  <2>1. w.late = wk[t].late /\ w.pc = pc
    BY <1>0 DEF WorkerType
  <2>2. wk' = [wk EXCEPT ![t] = w]
    BY <1>0, <1>6 DEF GoTo
  <2>3. QED BY <1>5, <1>6, <2>1, <2>2
<1>7. \A phases \in SUBSET Phases :
        NextPc(phases) \in WorkerPc \ {"idle", "failed", "fetch", "bulk", "mark"}
  BY DEF NextPc, WorkerPc
<1>8. /\ RowMoves(t, row[j], MarkFailed(row[j])) /\ RowMoves(t, row[j], row[j])
      /\ row = [row EXCEPT ![j] = row[j]]
  BY <1>0, <1>2, <1>3 DEF RowMoves, MarkFailed, RowType
<1>9. ASSUME NEW phase \in Phases, SavePhase(t, phase), task[t].state = "active"
      PROVE  Moves(t)
  <2> DEFINE phases == wk[t].phases \union {phase}
             r == WithPhases(row[j], phases, phase)
             w == [wk[t] EXCEPT !.phases = phases, !.pc = NextPc(phases),
                                !.offset = IF phase = 2 THEN 0 ELSE @, !.total = 0]
  <2>1. row' = [row EXCEPT ![j] = r] /\ wk' = [wk EXCEPT ![t] = w]
    BY <1>0, <1>9 DEF SavePhase
  <2>2. RowMoves(t, row[j], r)
    BY <1>3 DEF RowMoves, WithPhases, RowType
  <2>3. w.late = wk[t].late /\ w.pc = NextPc(phases) /\ phases \in SUBSET Phases
    BY <1>0 DEF WorkerType
  <2>4. QED BY <1>5, <1>7, <1>9, <2>1, <2>2, <2>3
<1>10. ASSUME row' = [row EXCEPT ![j].offset = wk[t].offset]
       PROVE  LET r == [row[j] EXCEPT !.offset = wk[t].offset]
              IN row' = [row EXCEPT ![j] = r] /\ RowMoves(t, row[j], r)
  BY <1>0, <1>2, <1>3, <1>10 DEF RowMoves, RowType
<1>11. CASE SkipUnavailable(t)
  <2>1. /\ row' = [row EXCEPT ![j] = MarkFailed(row[j])] \/ row' = [row EXCEPT ![j] = row[j]]
        /\ GoTo(t, "done") /\ task[t].state = "active"
    BY <1>0, <1>2, <1>8, <1>11 DEF SkipUnavailable, At
  <2>2. "done" \in WorkerPc \ {"idle", "failed", "fetch", "bulk", "mark"}
    BY DEF WorkerPc
  <2>3. QED BY <1>6, <1>8, <2>1, <2>2
<1>12. CASE Mark(t)
  <2> DEFINE r == [row[j] EXCEPT !.status = "processing"]
  <2>1. row' = [row EXCEPT ![j] = r] /\ GoTo(t, NextPc(wk[t].phases)) /\ At(t, "mark")
    BY <1>0, <1>2, <1>12 DEF Mark
  <2>2. RowMoves(t, row[j], r) /\ wk[t].phases \in SUBSET Phases
    BY <1>0, <1>3, <2>1 DEF RowMoves, RowType, WorkerType
  <2>3. QED BY <1>6, <1>7, <2>1, <2>2 DEF At
<1>13. CASE ProjectSave(t) \/ IssuesDone(t) \/ MembersSave(t)
  BY <1>9, <1>13 DEF ProjectSave, IssuesDone, MembersSave, At, Phases
<1>14. CASE Count(t)
  <2> DEFINE w == [wk[t] EXCEPT !.pc = "check", !.total = Cardinality(live)]
  <2>1. /\ row' = [row EXCEPT ![j].offset = wk[t].offset] /\ wk' = [wk EXCEPT ![t] = w]
        /\ task[t].state = "active"
    BY <1>0, <1>14 DEF Count, At
  <2>2. w.late = wk[t].late /\ w.pc = "check"
    BY <1>0 DEF WorkerType
  <2>3. QED BY <1>5, <1>10, <2>1, <2>2
<1>15. CASE SaveOffset(t)
  <2>1. /\ row' = [row EXCEPT ![j].offset = wk[t].offset] /\ GoTo(t, "check")
        /\ task[t].state = "active" /\ "check" \in WorkerPc \ {"idle", "failed", "fetch", "bulk", "mark"}
    BY <1>15 DEF SaveOffset, At, WorkerPc
  <2>2. QED BY <1>6, <1>10, <2>1
<1>16. CASE Complete(t)
  <2> DEFINE r == [row[j] EXCEPT !.status = "completed", !.closed = TRUE]
  <2>1. /\ row' = [row EXCEPT ![j] = r] /\ GoTo(t, "done") /\ At(t, "complete")
        /\ "done" \in WorkerPc \ {"idle", "failed", "fetch", "bulk", "mark"}
    BY <1>0, <1>2, <1>16 DEF Complete, WorkerPc
  <2>2. RowMoves(t, row[j], r)
    BY <1>3, <2>1 DEF RowMoves, RowType
  <2>3. QED BY <1>6, <2>1, <2>2 DEF At
<1>17. CASE OnFailed(t)
  <2>1. /\ row' = [row EXCEPT ![j] = MarkFailed(row[j])] \/ row' = [row EXCEPT ![j] = row[j]]
        /\ wk' = [wk EXCEPT ![t] = Idle] /\ wk[t].pc = "failed"
    BY <1>0, <1>2, <1>8, <1>17 DEF OnFailed
  <2>2. JobMoves(t) /\ wk'[t] = Idle /\ row'[j] \in {row[j], MarkFailed(row[j])}
    BY <1>4, <2>1
  <2>3. task'[t].state # "active"
    BY <1>1, <2>1 DEF WorkersRun
  <2>4. WorkerMoves(t, wk[t], wk'[t])
    BY <2>2, <2>3 DEF WorkerMoves, Idle
  <2>5. QED BY <1>8, <2>2, <2>4 DEF Moves
<1>18. QED BY <1>11, <1>12, <1>13, <1>14, <1>15, <1>16, <1>17

\* A step of a worker keeps the invariant.
LEMMA QueueWorker ==
  ASSUME TypeInv, QueueInv, NEW t \in Tasks, Moves(t)
  PROVE  QueueInv'
<1> DEFINE j == task[t].row
<1>1. JobMoves(t) /\ RowMoves(t, row[j], row'[j]) /\ WorkerMoves(t, wk[t], wk'[t]) /\ j \in Rows
  BY DEF Moves, JobMoves
<1>2. \A u \in Tasks :
        /\ task'[u].row = task[u].row /\ task'[u].retry = task[u].retry
        /\ task'[u].state = "none" <=> task[u].state = "none"
  BY <1>1 DEF JobMoves
<1>3. \A k \in Rows :
        /\ row'[k].status = "cancelled" => row[k].status = "cancelled"
        /\ row'[k].status = "none" => row[k].status = "none"
        /\ row'[k].status = "pending" => row[k].status = "pending" /\ row'[k].closed = row[k].closed
        /\ row'[k].status = "completed" => row[k].status = "completed"
                                           \/ (k = j /\ At(t, "complete"))
  BY <1>1 DEF JobMoves, RowMoves
<1>4. \A u \in Tasks : wk[u].pc # "idle" => task[u].state # "none" /\ task[u].row \in Rows
  BY DEF QueueInv, WorkersRun, TypeInv, TaskBudget
<1>5. wk[t].late \in 0..2 /\ wk'[t].late \in {0, wk[t].late, wk'[t].late}
  BY DEF TypeInv, TypeOK, WorkerType
<1>6. WorkersRun'
  BY <1>1 DEF QueueInv, WorkersRun, JobMoves, WorkerMoves
<1>7. CancelSeen'
  <2> SUFFICES ASSUME NEW u \in Tasks, wk'[u].pc # "idle", row'[task'[u].row].status = "cancelled"
               PROVE  wk'[u].late <= 1 /\ (wk'[u].pc \in {"fetch", "bulk"} => wk'[u].late = 0)
    BY DEF CancelSeen
  <2>1. CASE u # t
    <3>1. wk'[u] = wk[u] /\ task'[u] = task[u] /\ task[u].row \in Rows
      BY <1>1, <1>4, <2>1 DEF JobMoves
    <3>2. row[task[u].row].status = "cancelled"
      BY <1>3, <3>1
    <3>3. QED BY <3>1, <3>2 DEF QueueInv, CancelSeen
  <2>2. CASE u = t
    <3>1. row[j].status = "cancelled"
      BY <1>1, <1>2, <1>3, <2>2
    <3>2. wk[t].late <= 1 /\ (wk[t].pc \in {"fetch", "bulk"} => wk[t].late = 0)
      BY <1>5, <3>1 DEF QueueInv, CancelSeen, WorkersRun
    <3>3. QED BY <1>1, <1>5, <2>2, <3>1, <3>2 DEF WorkerMoves
  <2>3. QED BY <2>1, <2>2
<1>8. OneOriginal'
  <2>1. \A u \in Tasks, k \in Rows : IsOriginal(u, k)' <=> IsOriginal(u, k)
    BY <1>2 DEF IsOriginal
  <2>2. \A c \in Clients, k \in Rows : Starts(c, k)' <=> Starts(c, k)
    BY <1>1 DEF Starts, JobMoves
  <2>3. QED BY <1>3, <2>1, <2>2 DEF QueueInv, OneOriginal
<1>9. MarkFresh'
  <2> SUFFICES ASSUME NEW u \in Tasks, wk'[u].pc = "mark", Retries(task[u].row)' = {},
                      row'[task'[u].row].status = "completed"
               PROVE  FALSE
    BY <1>2 DEF MarkFresh
  <2>1. CASE u # t
    <3>1. wk[u].pc = "mark" /\ task'[u] = task[u] /\ task[u].row \in Rows /\ task[u].state # "none"
      BY <1>1, <1>4, <2>1 DEF JobMoves
    <3>2. \A v \in Tasks : task[v].state # "none" /\ task[v].row = task[u].row => ~task[v].retry
      BY <1>2 DEF Retries, TasksOf
    <3>3. row[task[u].row].status # "completed"
      BY <3>1, <3>2 DEF QueueInv, MarkFresh, Retries, TasksOf
    <3>4. task[u].row = j /\ task[t].state # "none"
      BY <1>1, <1>3, <3>1, <3>3 DEF JobMoves
    <3>5. IsOriginal(u, j) /\ IsOriginal(t, j)
      BY <3>1, <3>2, <3>4 DEF IsOriginal
    <3>6. QED BY <1>1, <2>1, <3>5 DEF QueueInv, OneOriginal
  <2>2. CASE u = t
    <3>1. row'[j].status = row[j].status /\ row[j].status # "completed"
      BY <1>1, <2>2 DEF WorkerMoves
    <3>2. QED BY <1>2, <2>2, <3>1
  <2>3. QED BY <2>1, <2>2
<1>10. PendingOpen' /\ RetriesStay'
  <2>1. PendingOpen'
    BY <1>3 DEF QueueInv, PendingOpen
  <2>2. RetriesStay'
    BY <1>1 DEF QueueInv, RetriesStay, JobMoves
  <2>3. QED BY <2>1, <2>2
<1>11. QED BY <1>6, <1>7, <1>8, <1>9, <1>10 DEF QueueInv

\* The calls, while the jobs and the workers do not move.
LEMMA QueueCall ==
  ASSUME TypeInv, QueueInv, NEW c \in Clients,
         \/ StartCheck(c) \/ StartInsert(c) \/ RetryUpdate(c) \/ CancelUpdate(c) \/ CallFails(c)
         \/ \E j \in Rows : RetryCheck(c, j) \/ CancelCheck(c, j)
  PROVE  QueueInv'
<1>0. /\ row \in [Rows -> RowType] /\ task \in [Tasks -> TaskType]
      /\ wk \in [Tasks -> WorkerType] /\ call \in [Clients -> CallType]
  BY DEF TypeInv, TypeOK
<1>1. /\ UNCHANGED task
      /\ \A t \in Tasks : wk'[t].pc = wk[t].pc /\ wk'[t].late \in {0, wk[t].late}
  BY <1>0 DEF StartCheck, StartInsert, RetryUpdate, CancelUpdate, CallFails, RetryCheck, CancelCheck,
              jobVars, WorkerType
<1>2. \A u \in Tasks : wk[u].pc # "idle" => task[u].state # "none" /\ task[u].row \in Rows
  BY DEF QueueInv, WorkersRun, TypeInv, TaskBudget
<1>3. \A k \in Rows :
        /\ row'[k].status = "cancelled" =>
             \/ row[k].status = "cancelled"
             \/ \A t \in Tasks : task[t].row = k => wk'[t].late = 0
        /\ row'[k].status = "none" => row[k].status = "none"
        /\ row'[k].status = "pending" => ~row'[k].closed
        /\ row'[k].status = "completed" => row[k].status = "completed"
  <2>1. CASE StartInsert(c)
    <3>1. PICK j \in Rows : row' = [row EXCEPT ![j] = [NoRow EXCEPT !.status = "pending"]]
      BY <2>1 DEF StartInsert
    <3>2. QED BY <1>0, <3>1 DEF NoRow, QueueInv, PendingOpen
  <2>2. CASE RetryUpdate(c)
    BY <1>0, <2>2 DEF RetryUpdate, RowType, QueueInv, PendingOpen
  <2>3. CASE CancelUpdate(c)
    <3>1. /\ \A k \in Rows : k # call[c].row => row'[k] = row[k]
          /\ call[c].row \in Rows => row'[call[c].row].status = "cancelled"
          /\ \A t \in Tasks : task[t].row = call[c].row => wk'[t].late = 0
      BY <1>0, <2>3 DEF CancelUpdate, RowType, WorkerType
    <3>2. QED BY <3>1 DEF QueueInv, PendingOpen
  <2>4. CASE UNCHANGED row
    BY <2>4 DEF QueueInv, PendingOpen
  <2>5. QED
    BY <2>1, <2>2, <2>3, <2>4 DEF StartCheck, CallFails, RetryCheck, CancelCheck, jobVars
<1>4. WorkersRun' /\ RetriesStay'
  BY <1>1 DEF QueueInv, WorkersRun, RetriesStay
<1>5. PendingOpen'
  BY <1>3 DEF PendingOpen
<1>6. MarkFresh'
  BY <1>1, <1>2, <1>3 DEF QueueInv, MarkFresh, Retries, TasksOf
<1>7. CancelSeen'
  <2> SUFFICES ASSUME NEW u \in Tasks, wk[u].pc # "idle", row'[task[u].row].status = "cancelled"
               PROVE  wk'[u].late <= 1 /\ (wk[u].pc \in {"fetch", "bulk"} => wk'[u].late = 0)
    BY <1>1 DEF CancelSeen
  <2>1. CASE wk'[u].late = 0
    BY <2>1
  <2>2. CASE row[task[u].row].status = "cancelled"
    BY <1>1, <2>2 DEF QueueInv, CancelSeen
  <2>3. QED BY <1>2, <1>3, <2>1, <2>2
<1>8. OneOriginal'
  <2>1. \A u \in Tasks, k \in Rows : IsOriginal(u, k)' <=> IsOriginal(u, k)
    BY <1>1 DEF IsOriginal
  <2>2. CASE StartInsert(c)
    <3>1. PICK j \in Rows :
            /\ row[j].status = "none"
            /\ row' = [row EXCEPT ![j] = [NoRow EXCEPT !.status = "pending"]]
            /\ call' = [call EXCEPT ![c] = [pc |-> "enqueueFirst", row |-> j]]
      BY <2>2 DEF StartInsert
    <3>2. row'[j].status = "pending" /\ \A k \in Rows : k # j => row'[k] = row[k]
      BY <1>0, <3>1 DEF NoRow
    <3>3. \A b \in Clients, k \in Rows : Starts(b, k)' =>
             (b = c /\ k = j) \/ (b # c /\ Starts(b, k))
      BY <1>0, <3>1 DEF Starts
    <3>4. /\ \A b \in Clients : ~Starts(b, j)
          /\ \A t \in Tasks : ~IsOriginal(t, j)
      BY <3>1 DEF QueueInv, OneOriginal
    <3>5. QED BY <2>1, <3>2, <3>3, <3>4 DEF QueueInv, OneOriginal
  <2>3. CASE ~StartInsert(c)
    <3>1. \A b \in Clients, k \in Rows : Starts(b, k)' => Starts(b, k)
      BY <1>0, <2>3 DEF Starts, StartCheck, RetryUpdate, CancelUpdate, CallFails, RetryCheck,
         CancelCheck, Return, NoCall, CallType
    <3>2. QED BY <1>3, <2>1, <3>1 DEF QueueInv, OneOriginal
  <2>4. QED BY <2>2, <2>3
<1>9. QED BY <1>4, <1>5, <1>6, <1>7, <1>8 DEF QueueInv

\* A call adds a job, or removes those under the original id.
LEMMA QueueAdd ==
  ASSUME TypeInv, QueueInv, NEW c \in Clients, StartEnqueue(c) \/ RetryEnqueue(c)
  PROVE  QueueInv'
<1>0. task \in [Tasks -> TaskType] /\ call \in [Clients -> CallType]
  BY DEF TypeInv, TypeOK
<1>1. UNCHANGED <<row, wk>> /\ call' = [call EXCEPT ![c] = NoCall]
  BY DEF StartEnqueue, RetryEnqueue, Return
<1> DEFINE j == call[c].row
<1>2. PICK t \in Tasks, retry \in BOOLEAN :
        /\ task[t].state = "none" /\ (~retry => call[c].pc = "enqueueFirst")
        /\ task' = [task EXCEPT ![t] = [row |-> j, retry |-> retry, state |-> "waiting",
                                         attempts |-> 0, stalls |-> 0]]
  BY DEF StartEnqueue, RetryEnqueue, AddTask
<1>3. j \in Rows
  BY DEF StartEnqueue, RetryEnqueue, TypeInv, CallRows
<1>4. /\ \A u \in Tasks : u # t => task'[u] = task[u]
      /\ task'[t].row = j /\ task'[t].retry = retry /\ task'[t].state = "waiting"
  BY <1>0, <1>2
<1>5. wk[t].pc \in {"idle", "failed"} /\ wk[t].pc # "failed"
  BY <1>2 DEF QueueInv, WorkersRun
<1>6. WorkersRun' /\ RetriesStay' /\ PendingOpen'
  BY <1>1, <1>4, <1>5 DEF QueueInv, WorkersRun, RetriesStay, PendingOpen
<1>7. CancelSeen'
  BY <1>1, <1>4, <1>5 DEF QueueInv, CancelSeen
<1>8. MarkFresh'
  <2> SUFFICES ASSUME NEW u \in Tasks, wk[u].pc = "mark", Retries(task[u].row)' = {}
               PROVE  row[task'[u].row].status # "completed"
    BY <1>1 DEF MarkFresh
  <2>1. u # t /\ task'[u] = task[u]
    BY <1>4, <1>5
  <2>2. Retries(task[u].row) = {}
    <3>1. SUFFICES ASSUME NEW v \in Tasks, task[v].state # "none", task[v].row = task[u].row,
                          task[v].retry
                   PROVE  FALSE
      BY DEF Retries, TasksOf
    <3>2. v # t
      BY <1>2, <3>1
    <3>3. v \in Retries(task[u].row)'
      BY <1>4, <2>1, <3>1, <3>2 DEF Retries, TasksOf
    <3>4. QED BY <3>3
  <2>3. QED BY <2>1, <2>2 DEF QueueInv, MarkFresh
<1>9. OneOriginal'
  <2>1. \A u \in Tasks, k \in Rows :
          IsOriginal(u, k)' <=> IF u = t THEN k = j /\ ~retry ELSE IsOriginal(u, k)
    BY <1>4 DEF IsOriginal
  <2>2. \A b \in Clients, k \in Rows : Starts(b, k)' <=> b # c /\ Starts(b, k)
    BY <1>0, <1>1 DEF Starts, NoCall
  <2>3. ~retry => Starts(c, j)
    BY <1>2 DEF Starts
  <2>4. \A k \in Rows, u \in Tasks : IsOriginal(u, k)' => IsOriginal(u, k) \/ (k = j /\ Starts(c, j))
    BY <2>1, <2>3
  <2>5. \A k \in Rows, u, v \in Tasks : IsOriginal(u, k)' /\ IsOriginal(v, k)' => u = v
    BY <1>3, <2>1, <2>3 DEF QueueInv, OneOriginal
  <2>6. \A k \in Rows : row[k].status = "none" => \A b \in Clients : ~Starts(b, k)
    BY DEF QueueInv, OneOriginal
  <2>7. \A k \in Rows, b \in Clients, u \in Tasks : ~(Starts(b, k)' /\ IsOriginal(u, k)')
    BY <1>3, <2>2, <2>4 DEF QueueInv, OneOriginal
  <2>8. QED BY <1>1, <2>2, <2>4, <2>5, <2>6, <2>7 DEF QueueInv, OneOriginal
<1>10. QED BY <1>6, <1>7, <1>8, <1>9 DEF QueueInv

LEMMA QueueRemove ==
  ASSUME TypeInv, QueueInv, NEW c \in Clients, CancelRemove(c)
  PROVE  QueueInv'
<1>0. task \in [Tasks -> TaskType] /\ call \in [Clients -> CallType]
  BY DEF TypeInv, TypeOK
<1>1. UNCHANGED <<row, wk>> /\ call' = [call EXCEPT ![c] = NoCall]
  BY DEF CancelRemove, Return
<1>2. \A t \in Tasks :
        \/ task'[t] = task[t]
        \/ /\ task'[t].state = "removed" /\ task[t].state \notin {"none", "active"}
           /\ task'[t].row = task[t].row /\ task'[t].retry = task[t].retry /\ ~task[t].retry
  BY <1>0 DEF CancelRemove, Originals, TasksOf, TaskType
<1>3. \A t \in Tasks :
        /\ task'[t].row = task[t].row /\ task'[t].retry = task[t].retry
        /\ task'[t].state = "none" <=> task[t].state = "none"
        /\ task'[t].state = "active" <=> task[t].state = "active"
  BY <1>2
<1>4. WorkersRun' /\ RetriesStay' /\ PendingOpen'
  BY <1>1, <1>2 DEF QueueInv, WorkersRun, RetriesStay, PendingOpen
<1>5. CancelSeen' /\ MarkFresh'
  BY <1>1, <1>3 DEF QueueInv, CancelSeen, MarkFresh, Retries, TasksOf
<1>6. OneOriginal'
  <2>1. \A u \in Tasks, k \in Rows : IsOriginal(u, k)' <=> IsOriginal(u, k)
    BY <1>3 DEF IsOriginal
  <2>2. \A b \in Clients, k \in Rows : Starts(b, k)' => Starts(b, k)
    BY <1>0, <1>1 DEF Starts, NoCall
  <2>3. QED BY <1>1, <2>1, <2>2 DEF QueueInv, OneOriginal
<1>7. QED BY <1>4, <1>5, <1>6 DEF QueueInv

LEMMA QueueCrash ==
  ASSUME TypeInv, QueueInv, Crash
  PROVE  QueueInv'
<1>0. task \in [Tasks -> TaskType]
  BY DEF TypeInv, TypeOK
<1>1. UNCHANGED <<row, call>> /\ \A t \in Tasks : wk'[t] = Idle
  BY DEF Crash
<1>2. \A t \in Tasks :
        \/ task'[t] = task[t] /\ task[t].state # "active"
        \/ /\ task[t].state = "active" /\ task'[t].state \in {"failed", "waiting"}
           /\ task'[t].row = task[t].row /\ task'[t].retry = task[t].retry
  BY <1>0 DEF Crash, TaskType
<1>3. WorkersRun' /\ RetriesStay' /\ PendingOpen' /\ CancelSeen' /\ MarkFresh'
  BY <1>1, <1>2 DEF QueueInv, WorkersRun, RetriesStay, PendingOpen, CancelSeen, MarkFresh, Idle
<1>4. \A u \in Tasks, k \in Rows : IsOriginal(u, k)' <=> IsOriginal(u, k)
  BY <1>2 DEF IsOriginal
<1>5. OneOriginal'
  BY <1>1, <1>4 DEF QueueInv, OneOriginal, Starts
<1>6. QED BY <1>3, <1>5 DEF QueueInv

LEMMA QueueKept ==
  ASSUME QueueInv, UNCHANGED <<row, task, wk, call>>
  PROVE  QueueInv'
BY DEF QueueInv, WorkersRun, CancelSeen, OneOriginal, MarkFresh, PendingOpen, RetriesStay,
       IsOriginal, Starts, Retries, TasksOf

LEMMA QueueStep == TypeInv /\ QueueInv /\ [Next]_vars => QueueInv'
<1> SUFFICES ASSUME TypeInv, QueueInv, [Next]_vars
             PROVE  QueueInv'
  OBVIOUS
<1>1. ASSUME NEW c \in Clients, StartCheck(c) \/ CallStep(c) \/ CallFails(c)
      PROVE  QueueInv'
  BY <1>1, QueueCall, QueueAdd, QueueRemove DEF CallStep
<1>2. ASSUME NEW c \in Clients, NEW j \in Rows, RetryCheck(c, j) \/ CancelCheck(c, j)
      PROVE  QueueInv'
  BY <1>2, QueueCall
<1>3. ASSUME NEW t \in Tasks, Dispatch(t) \/ WorkerStep(t) \/ Throw(t)
      PROVE  QueueInv'
  BY <1>3, QueueWorker, ControlMoves, RowStepMoves DEF WorkerStep, QueueInv
<1>4. ASSUME NEW i \in Issues, IssueStep(i)
      PROVE  QueueInv'
  BY <1>4, QueueKept DEF IssueStep, CreateIssue, UpdateIssue, DeleteIssue, ArriveIssue,
     IndexIssue, RemoveIssue, jobVars
<1>5. CASE Crash
  BY <1>5, QueueCrash
<1>6. CASE UNCHANGED vars
  BY <1>6, QueueKept DEF vars, jobVars
<1>7. QED BY <1>1, <1>2, <1>3, <1>4, <1>5, <1>6 DEF Next

LEMMA QueueAlways == Spec => [](TypeInv /\ QueueInv)
BY TypeInit, TypeStep, QueueInit, QueueStep, PTL DEF Spec

\* A worker of a cancelled row writes at most the batch it had fetched, however many
\* workers, retries and cancels there are (search.worker.ts, checkReindexCancelled).
THEOREM CancelAlwaysStops == Spec => []CancelledStops
<1>1. QueueInv => CancelledStops
  BY DEF QueueInv, CancelSeen, CancelledStops
<1>2. QED BY QueueAlways, <1>1, PTL

\* A nonempty finite set of numbers has a greatest one: the numbers from one on are fewer
\* the greater it is.
LEMMA Greatest ==
  ASSUME NEW S \in SUBSET Nat, IsFiniteSet(S), S # {}
  PROVE  \E m \in S : \A n \in S : m >= n
<1> DEFINE Tails == {T \in SUBSET S : \E m \in S : T = {n \in S : n >= m}}
<1>1. Tails \subseteq FiniteSubsetsOf(S)
  BY FS_FiniteSubsetsOfFinite
<1>2. Tails # {}
  <2>1. PICK m : m \in S
    OBVIOUS
  <2>2. {n \in S : n >= m} \in Tails
    BY <2>1
  <2>3. QED BY <2>2
<1>3. IsWellFoundedOn(StrictSubsetOrdering(S), FiniteSubsetsOf(S))
  BY FS_StrictSubsetOrderingWellFounded
<1>4. \E T \in Tails : \A U \in Tails : ~(<<U, T>> \in StrictSubsetOrdering(S))
  <2> HIDE DEF Tails
  <2>1. QED BY <1>1, <1>2, <1>3, WFMin
<1>5. PICK m \in S : \A U \in Tails : ~(<<U, {n \in S : n >= m}>> \in StrictSubsetOrdering(S))
  BY <1>4
<1>6. ASSUME NEW n \in S, n > m
      PROVE  FALSE
  <2> DEFINE T == {k \in S : k >= m}
             U == {k \in S : k >= n}
  <2>1. m \in Nat /\ n \in Nat /\ \A k \in S : k \in Nat
    OBVIOUS
  <2>2. \A k \in S : k >= n => k >= m
    BY <1>6, <2>1
  <2>3. U \subseteq T
    BY <2>2
  <2>4. m \in T /\ m \notin U
    BY <1>6, <2>1
  <2>5. U \in Tails /\ U \in SUBSET S /\ T \in SUBSET S
    OBVIOUS
  <2>6. <<U, T>> \in StrictSubsetOrdering(S)
    BY <2>3, <2>4, <2>5 DEF StrictSubsetOrdering
  <2>7. QED BY <1>5, <2>5, <2>6
<1>7. \A n \in S : m >= n
  <2>1. m \in Nat /\ \A k \in S : k \in Nat
    OBVIOUS
  <2>2. QED BY <1>6, <2>1
<1>8. QED BY <1>7

\* A row that no job, handler or call will touch again counts as stalled, so it can be
\* retried (SearchReindexService.computeEffectiveStatus).
THEOREM NeverStuck == Spec => []NoStuckRow
<1>1. ASSUME TypeInv, QueueInv, NEW j \in Rows, row[j].status \in Active, LiveTasks(j) = {}
      PROVE  Stalled(row[j], QueueState(j))
  <2>1. row[j].status \in {"pending", "processing"} /\ task \in [Tasks -> TaskType]
    BY <1>1 DEF Active, TypeInv, TypeOK
  <2>2. ASSUME NEW S \in SUBSET TasksOf(j), S # {}, \A t \in S : task[t].state # "removed"
        PROVE  task[Max(S)].state \in {"completed", "failed"}
    <3>1. S \in SUBSET Nat /\ IsFiniteSet(S) /\ S \subseteq Tasks
      <4>1. IsFiniteSet(Tasks) /\ Tasks \subseteq Nat
        BY ConstantsAssumption, FS_Interval DEF Tasks
      <4>2. S \subseteq Tasks
        BY DEF TasksOf
      <4>3. QED BY <4>1, <4>2, FS_Subset
    <3>2. Max(S) \in S
      BY <2>2, <3>1, Greatest DEF Max
    <3>3. task[Max(S)].state \notin {"none", "waiting", "active", "removed"}
      BY <1>1, <2>2, <3>2 DEF LiveTasks, TasksOf
    <3>4. QED BY <2>1, <3>1, <3>2, <3>3 DEF TaskType
  <2>3. CASE Retries(j) # {}
    <3>1. Retries(j) \in SUBSET TasksOf(j) /\ \A t \in Retries(j) : task[t].state # "removed"
      BY <1>1 DEF Retries, TasksOf, QueueInv, RetriesStay
    <3>2. task[Max(Retries(j))].state \in {"completed", "failed"}
      BY <2>2, <2>3, <3>1
    <3>3. QueueState(j) \in {"completed", "failed"}
      BY <2>3, <3>2 DEF QueueState
    <3>4. QED BY <1>1, <2>1, <3>3 DEF Stalled, QueueInv, PendingOpen, Active
  <2>4. CASE Retries(j) = {} /\ Originals(j) # {}
    <3>1. Originals(j) \in SUBSET TasksOf(j) /\ \A t \in Originals(j) : task[t].state # "removed"
      BY DEF Originals
    <3>2. task[Max(Originals(j))].state \in {"completed", "failed"}
      BY <2>2, <2>4, <3>1
    <3>3. QueueState(j) \in {"completed", "failed"}
      BY <2>4, <3>2 DEF QueueState
    <3>4. QED BY <1>1, <2>1, <3>3 DEF Stalled, QueueInv, PendingOpen, Active
  <2>5. CASE Retries(j) = {} /\ Originals(j) = {}
    BY <2>1, <2>5 DEF QueueState, Stalled
  <2>6. QED BY <2>3, <2>4, <2>5
<1>2. TypeInv /\ QueueInv => NoStuckRow
  BY <1>1 DEF NoStuckRow
<1>3. QED BY QueueAlways, <1>2, PTL

\* Unless a call reopens it or it has been retried, a completed row stays as it is: a job
\* delivered again finds it completed and returns (search.worker.ts, loadReindexJob).
THEOREM CompletedIsFinal == Spec => CompletedUntilRetried
<1>1. ASSUME TypeInv, QueueInv, [Next]_vars, NEW j \in Rows,
             row[j].status = "completed", row'[j].status \in Active, call' = call
      PROVE  Retries(j) # {}
  <2>1. row' # row /\ row'[j].status \in {"pending", "processing"}
    BY <1>1 DEF Active
  <2>2. ASSUME NEW c \in Clients
        PROVE  /\ ~(StartCheck(c) \/ CallStep(c) \/ CallFails(c))
               /\ \A k \in Rows : ~(RetryCheck(c, k) \/ CancelCheck(c, k))
    <3>1. call \in [Clients -> CallType] /\ row \in [Rows -> RowType]
      BY <1>1 DEF TypeInv, TypeOK
    <3>2. CASE StartInsert(c)
      BY <1>1, <3>1, <3>2 DEF StartInsert
    <3>3. CASE RetryUpdate(c) \/ CancelUpdate(c)
      BY <1>1, <3>1, <3>3 DEF RetryUpdate, CancelUpdate, CallType
    <3>4. QED
      BY <2>1, <3>2, <3>3 DEF StartCheck, CallStep, CallFails, StartEnqueue, RetryEnqueue,
         CancelRemove, RetryCheck, CancelCheck, jobVars
  <2>3. PICK t \in Tasks : Dispatch(t) \/ WorkerStep(t) \/ Throw(t)
    BY <1>1, <2>1, <2>2 DEF Next, vars, jobVars, IssueStep, CreateIssue, UpdateIssue,
       DeleteIssue, ArriveIssue, IndexIssue, RemoveIssue,
       Crash
  <2>4. Moves(t)
    BY <1>1, <2>3, ControlMoves, RowStepMoves DEF WorkerStep, QueueInv
  <2>5. j = task[t].row /\ At(t, "mark")
    BY <1>1, <2>1, <2>4 DEF Moves, JobMoves, RowMoves
  <2>6. QED BY <1>1, <2>5 DEF QueueInv, MarkFresh, At
<1>2. TypeInv /\ QueueInv /\ [Next]_vars =>
        \A j \in Rows : row[j].status = "completed" /\ row'[j].status \in Active =>
                          call' # call \/ Retries(j) # {}
  BY <1>1
<1>3. QED BY QueueAlways, <1>2, PTL DEF Spec, CompletedUntilRetried
-----------------------------------------------------------------------------
(* ResumeSound and CompletedCovers                                         *)

\* The missing issues among the first n, among those beyond the total counted at the
\* start, and among those created during the run; and how many may be missing.
Early(n, total) == {i \in Missing : Rank(i) <= n \/ i \notin InitIssues \/ Rank(i) > total}
Slack == shifts + lost

\* Progress up to n, but for the issues in hand, misses no more than it may.
Covered(n, total, hand) == Cardinality(Early(n, total) \ hand) <= Slack
AllCovered == Cardinality(Missing) <= Slack

Looping == {"check", "fetch", "bulk", "saveOffset"}

\* Outside the loop nothing lies beyond the total: there are MaxIssues issues at most.
Total(w) == IF w.pc \in Looping THEN w.total ELSE MaxIssues

RowCovered(r) ==
  /\ Covered(r.offset, MaxIssues, {})
  /\ 2 \in r.phases \/ r.status = "completed" => AllCovered

WorkerCovered(w) ==
  /\ Covered(w.offset, Total(w), {})
  /\ 2 \in w.phases \/ w.pc = "issuesDone" => AllCovered
  /\ w.pc \in {"members", "memberDocs", "complete"} => 2 \in w.phases
  /\ w.pc = "bulk" => Covered(w.offset + Cardinality(w.batch), w.total, w.batch)

\* An issue that leaves moves the ones behind it up by one, and one of them may come to lie
\* before an offset that had not reached it; an issue that comes moves them down by one, and
\* one of them beyond the total.  The shift itself is counted for it.
CoverInv ==
  /\ \A j \in Rows : RowCovered(row[j])
  /\ \A t \in Tasks : WorkerCovered(wk[t])

\* A delete-issue job of an issue that is live again is one of an issue that came back, so
\* what it removes is not answered for.
JobInv ==
  /\ live \subseteq issues /\ deleteJobs \subseteq issues
  /\ deleteJobs \intersect live \subseteq strays

\* What a step does to the issues keeps all of these.
CoverageKept ==
  /\ \A n, total \in Nat, hand \in SUBSET Issues :
       Covered(n, total, hand) => Covered(n, total, hand)'
  /\ AllCovered => AllCovered'

LEMMA JobStep ==
  ASSUME TypeInv, JobInv, [Next]_vars
  PROVE  JobInv'
<1>1. CASE UNCHANGED listVars /\ deleteJobs' \subseteq deleteJobs
  BY <1>1 DEF JobInv, listVars
<1>2. ASSUME NEW i \in Issues, CreateIssue(i) \/ DeleteIssue(i) \/ ArriveIssue(i)
      PROVE  JobInv'
  BY <1>2 DEF JobInv, CreateIssue, DeleteIssue, ArriveIssue
<1>3. ASSUME NEW i \in Issues, UpdateIssue(i) \/ IndexIssue(i) \/ RemoveIssue(i)
      PROVE  JobInv'
  <2>1. UNCHANGED listVars /\ deleteJobs' \subseteq deleteJobs
    BY <1>3 DEF UpdateIssue, IndexIssue, RemoveIssue
  <2>2. QED BY <1>1, <2>1
<1>4. ASSUME NEW c \in Clients, StartCheck(c) \/ CallStep(c) \/ CallFails(c)
      PROVE  JobInv'
  <2>1. UNCHANGED listVars /\ deleteJobs' \subseteq deleteJobs
    BY <1>4 DEF StartCheck, CallStep, CallFails, StartInsert, StartEnqueue, RetryUpdate,
       RetryEnqueue, CancelUpdate, CancelRemove, indexVars
  <2>2. QED BY <1>1, <2>1
<1>5. ASSUME NEW c \in Clients, NEW j \in Rows, RetryCheck(c, j) \/ CancelCheck(c, j)
      PROVE  JobInv'
  BY <1>1, <1>5 DEF RetryCheck, CancelCheck, indexVars
<1>6. ASSUME NEW t \in Tasks, Dispatch(t) \/ WorkerStep(t) \/ Throw(t)
      PROVE  JobInv'
  <2>1. UNCHANGED listVars /\ deleteJobs' \subseteq deleteJobs
    BY <1>6 DEF Dispatch, WorkerStep, Throw, SkipUnavailable, Load, Mark, ProjectCheck,
       ProjectSave, Count, BatchCheck, Fetch, Bulk, SaveOffset, IssuesDone, MembersCheck,
       MemberStop, MembersSave, Complete, Done, OnFailed, SavePhase, indexVars
  <2>2. QED BY <1>1, <2>1
<1>7. CASE Crash \/ UNCHANGED vars
  BY <1>1, <1>7 DEF Crash, vars, indexVars
<1>8. QED BY <1>2, <1>3, <1>4, <1>5, <1>6, <1>7 DEF Next, IssueStep

\* If a set of issues grows by no more than the slack does, it stays within the slack.
LEMMA Grows ==
  ASSUME NEW S \in SUBSET Issues, NEW T \in SUBSET Issues, NEW X \in SUBSET Issues,
         T \subseteq S \union X,
         NEW a \in Nat, NEW b \in Nat, Cardinality(S) <= a, a + Cardinality(X) <= b
  PROVE  Cardinality(T) <= b
<1>1. /\ IsFiniteSet(S) /\ IsFiniteSet(X) /\ IsFiniteSet(S \union X)
      /\ Cardinality(S) \in Nat /\ Cardinality(X) \in Nat /\ Cardinality(T) \in Nat
      /\ Cardinality(S \cap X) \in Nat /\ Cardinality(S \union X) \in Nat
  BY IssueSetFinite
<1>2. Cardinality(S \union X) = Cardinality(S) + Cardinality(X) - Cardinality(S \cap X)
  BY <1>1, FS_Union
<1>3. Cardinality(T) <= Cardinality(S \union X)
  BY <1>1, FS_Subset
<1>4. QED BY <1>1, <1>2, <1>3

LEMMA CoverTypes ==
  ASSUME TypeOK
  PROVE  /\ Slack \in Nat
         /\ Missing \in SUBSET Issues /\ Missing \subseteq live /\ Missing \subseteq Untied
         /\ \A n, total : Early(n, total) \in SUBSET Issues
         /\ \A i : Rank(i) \in Nat /\ Rank(i) <= Cardinality(live) /\ Rank(i) <= MaxIssues
<1>1. Slack \in Nat
  BY ConstantsAssumption DEF Slack, TypeOK
<1>2. Missing \in SUBSET Issues /\ Missing \subseteq live /\ Missing \subseteq Untied
  BY DEF Missing, TypeOK
<1>3. \A n, total : Early(n, total) \in SUBSET Issues
  BY <1>2 DEF Early
<1>4. ASSUME NEW i
      PROVE  /\ Rank(i) \in Nat /\ Rank(i) <= Cardinality(live) /\ Rank(i) <= MaxIssues
  <2>1. {k \in live : Stamp[k] <= Stamp[i]} \in SUBSET live
    OBVIOUS
  <2>2. Rank(i) \in Nat /\ Rank(i) <= Cardinality(live)
    BY <2>1, LiveFinite, FS_Subset, FS_CardinalityType DEF Rank
  <2>3. QED BY <2>2, LiveFinite, ConstantsAssumption
<1>5. QED BY <1>1, <1>2, <1>3, <1>4

\* Later issues rank higher.
LEMMA RankMonotone ==
  ASSUME TypeOK, NEW i \in live, NEW k \in live, Stamp[i] < Stamp[k]
  PROVE  Rank(i) < Rank(k)
<1> DEFINE A == {l \in live : Stamp[l] <= Stamp[i]}
           B == {l \in live : Stamp[l] <= Stamp[k]}
<1>1. IsFiniteSet(A) /\ IsFiniteSet(B) /\ \A l \in live : Stamp[l] \in Nat
  <2>1. A \in SUBSET live /\ B \in SUBSET live
    OBVIOUS
  <2>2. \A l \in live : Stamp[l] \in Nat
    BY ConstantsAssumption DEF TypeOK, Issues
  <2>3. QED BY <2>1, <2>2, LiveFinite, FS_Subset
<1>2. k \notin A /\ A \union {k} \in SUBSET B
  BY <1>1
<1>3. Cardinality(A \union {k}) = Cardinality(A) + 1
  BY <1>1, <1>2, FS_AddElement
<1>4. Cardinality(A \union {k}) <= Cardinality(B)
  BY <1>1, <1>2, FS_Subset
<1>5. Cardinality(A) = Rank(i) /\ Cardinality(B) = Rank(k)
  BY DEF Rank
<1>6. Rank(i) \in Nat /\ Rank(k) \in Nat
  BY CoverTypes
<1>7. QED BY <1>3, <1>4, <1>5, <1>6

LEMMA RankInjective ==
  ASSUME TypeOK, NEW i \in live \intersect Untied, NEW k \in live \intersect Untied,
         Rank(i) = Rank(k)
  PROVE  i = k
<1>1. Stamp[i] \in Nat /\ Stamp[k] \in Nat /\ Rank(i) \in Nat
  BY ConstantsAssumption, CoverTypes DEF TypeOK, Issues
<1>2. ~(Stamp[i] < Stamp[k]) /\ ~(Stamp[k] < Stamp[i])
  BY <1>1, RankMonotone
<1>3. Stamp[i] = Stamp[k]
  BY <1>1, <1>2
<1>4. QED BY <1>3 DEF Untied

\* At most one missing issue has a given rank.
LEMMA OneOfRank ==
  ASSUME TypeOK, NEW r
  PROVE  LET X == {i \in Missing : Rank(i) = r}
         IN  X \in SUBSET Issues /\ Cardinality(X) \in Nat /\ Cardinality(X) <= 1
<1> DEFINE X == {i \in Missing : Rank(i) = r}
<1>1. X \in SUBSET Issues /\ X \subseteq live \intersect Untied
  BY CoverTypes
<1>2. CASE X = {}
  BY <1>1, <1>2, FS_EmptySet, IssueSetFinite
<1>3. CASE X # {}
  <2>1. PICK x : x \in X
    BY <1>3
  <2>2. X = {x}
    BY <1>1, <2>1, RankInjective
  <2>3. QED BY <2>2, <1>1, FS_Singleton, IssueSetFinite
<1>4. QED BY <1>2, <1>3

\* Whatever order a query returns the ties in, an issue without ties has its own place.
LEMMA PlaceIsRank ==
  ASSUME TypeOK, NEW p \in Orders, NEW i \in live \intersect Untied
  PROVE  p[i] = Rank(i)
<1> DEFINE S == {k \in live : Stamp[k] <= Stamp[i]}
           f == [k \in S |-> p[k]]
<1>1. /\ p \in [live -> 1..Cardinality(live)]
      /\ \A k, l \in live : p[k] = p[l] => k = l
      /\ \A m \in 1..Cardinality(live) : \E k \in live : p[k] = m
      /\ \A k, l \in live : Stamp[k] < Stamp[l] => p[k] < p[l]
  BY DEF Orders, Bijection, Injection, Surjection, IsInjective
<1>2. Cardinality(live) \in Nat /\ IsFiniteSet(live)
  BY LiveFinite
<1>3. \A k \in live : p[k] \in Nat /\ 1 <= p[k] /\ p[k] <= Cardinality(live)
  BY <1>1, <1>2
<1>4. \A k \in live : Stamp[k] \in Nat /\ (Stamp[k] = Stamp[i] => k = i)
  BY ConstantsAssumption DEF TypeOK, Issues, Untied
<1>5. \A k \in live : k \in S <=> p[k] <= p[i]
  <2> SUFFICES ASSUME NEW k \in live
               PROVE  Stamp[k] <= Stamp[i] <=> p[k] <= p[i]
    OBVIOUS
  <2>1. CASE Stamp[k] < Stamp[i]
    BY <1>1, <1>3, <1>4, <2>1
  <2>2. CASE Stamp[k] = Stamp[i]
    BY <1>3, <1>4, <2>2
  <2>3. CASE Stamp[i] < Stamp[k]
    <3>1. p[i] < p[k]
      BY <1>1, <2>3
    <3>2. QED BY <1>3, <1>4, <2>3, <3>1
  <2>4. QED BY <1>4, <2>1, <2>2, <2>3
<1>6. f \in [S -> 1..p[i]]
  BY <1>3, <1>5
<1>7. \A k, l \in S : f[k] = f[l] => k = l
  BY <1>1
<1>8. \A m \in 1..p[i] : \E k \in S : f[k] = m
  <2> SUFFICES ASSUME NEW m \in 1..p[i]
               PROVE  \E k \in S : f[k] = m
    OBVIOUS
  <2>1. m \in 1..Cardinality(live) /\ m <= p[i]
    BY <1>2, <1>3
  <2>2. PICK k \in live : p[k] = m
    BY <1>1, <2>1
  <2>3. k \in S
    BY <1>5, <2>1, <2>2
  <2>4. QED BY <2>2, <2>3
<1>9. f \in Bijection(S, 1..p[i])
  <2> HIDE DEF f, S
  <2>1. f \in Injection(S, 1..p[i])
    BY <1>6, <1>7 DEF Injection, IsInjective
  <2>2. f \in Surjection(S, 1..p[i])
    BY <1>6, <1>8 DEF Surjection
  <2>3. QED BY <2>1, <2>2 DEF Bijection
<1>10. IsFiniteSet(S)
  <2>1. S \in SUBSET live
    OBVIOUS
  <2>2. QED BY <1>2, <2>1, FS_Subset
<1>11. Cardinality(1..p[i]) = Cardinality(S)
  <2> HIDE DEF f, S
  <2>1. ExistsBijection(S, 1..p[i])
    BY <1>9 DEF ExistsBijection
  <2>2. QED BY <1>10, <2>1, FS_Bijection
<1>12. Cardinality(1..p[i]) = p[i]
  <2>1. p[i] \in Nat /\ 1 <= p[i]
    BY <1>3
  <2>2. QED BY <2>1, FS_Interval
<1>13. QED BY <1>11, <1>12 DEF Rank

\* What a batch holds: no more than BatchSize issues, those without ties whose place is
\* next, and none only when nothing lies behind the offset.
LEMMA BatchHolds ==
  ASSUME TypeOK, NEW from \in Nat, NEW batch \in Batches(from)
  PROVE  /\ batch \in SUBSET Issues
         /\ Cardinality(batch) \in Nat /\ Cardinality(batch) <= BatchSize
         /\ \A i \in Missing :
              from < Rank(i) /\ Rank(i) <= from + BatchSize => i \in batch
         /\ batch = {} => \A i \in live : Rank(i) <= from
<1>1. PICK p \in Orders : batch = {i \in live : from < p[i] /\ p[i] <= from + BatchSize}
  BY DEF Batches
<1>2. /\ p \in [live -> 1..Cardinality(live)]
      /\ \A k, l \in live : p[k] = p[l] => k = l
      /\ \A m \in 1..Cardinality(live) : \E k \in live : p[k] = m
  BY DEF Orders, Bijection, Injection, Surjection, IsInjective
<1>3. Cardinality(live) \in Nat /\ batch \in SUBSET Issues
  BY <1>1, LiveFinite DEF TypeOK
<1>4. \A k \in live : p[k] \in Nat
  BY <1>2, <1>3
<1>5. Cardinality(batch) \in Nat /\ Cardinality(batch) <= BatchSize
  <2> DEFINE R == (from + 1)..(from + BatchSize)
             f == [i \in batch |-> p[i]]
  <2>1. f \in [batch -> R]
    BY <1>1, <1>4, ConstantsAssumption
  <2>2. \A i, k \in batch : f[i] = f[k] => i = k
    BY <1>1, <1>2
  <2>3. f \in Injection(batch, R)
    BY <2>1, <2>2 DEF Injection, IsInjective
  <2>4. IsFiniteSet(R) /\ Cardinality(R) = BatchSize
    <3>1. (from + 1) \in Int /\ (from + BatchSize) \in Int /\ from + 1 <= from + BatchSize
      BY ConstantsAssumption
    <3>2. (from + BatchSize) - (from + 1) + 1 = BatchSize
      BY ConstantsAssumption
    <3>3. QED BY <3>1, <3>2, FS_Interval
  <2> HIDE DEF f, R
  <2>5. Cardinality(batch) <= Cardinality(R)
    BY <2>3, <2>4, FS_Injection
  <2>6. QED BY <1>3, <2>4, <2>5, IssueSetFinite
<1>6. \A i \in Missing : from < Rank(i) /\ Rank(i) <= from + BatchSize => i \in batch
  BY <1>1, CoverTypes, PlaceIsRank
<1>7. ASSUME batch = {}
      PROVE  \A i \in live : Rank(i) <= from
  <2>1. Cardinality(live) <= from
    <3>1. SUFFICES ASSUME ~(Cardinality(live) <= from) PROVE FALSE
      OBVIOUS
    <3>2. from + 1 \in 1..Cardinality(live)
      BY <1>3, <3>1
    <3>3. PICK k \in live : p[k] = from + 1
      BY <1>2, <3>2
    <3>4. k \in batch
      BY <1>1, <3>3, ConstantsAssumption
    <3>5. QED BY <1>7, <3>4
  <2>2. QED BY <1>3, <2>1, CoverTypes
<1>8. QED BY <1>3, <1>5, <1>6, <1>7

\* Less progress misses no more, and nothing lies beyond the number of live issues.
LEMMA CoverLess ==
  ASSUME TypeOK, NEW n \in Nat, NEW m \in Nat, m <= n, NEW total, NEW hand,
         Covered(n, total, hand)
  PROVE  /\ Covered(m, total, hand) /\ Covered(m, MaxIssues, hand)
         /\ Covered(m, Cardinality(live), hand)
<1>1. ASSUME NEW other \in {total, MaxIssues, Cardinality(live)}
      PROVE  Covered(m, other, hand)
  <2>1. Early(m, other) \ hand \subseteq (Early(n, total) \ hand) \union {}
    <3>1. \A i \in Missing : Rank(i) <= m => Rank(i) <= n
      BY CoverTypes
    <3>2. \A i \in Missing : Rank(i) > other => other = total
      BY CoverTypes, LiveFinite, ConstantsAssumption
    <3>3. QED BY <3>1, <3>2 DEF Early
  <2>2. Early(m, other) \ hand \in SUBSET Issues /\ Early(n, total) \ hand \in SUBSET Issues
    BY CoverTypes
  <2>3. Slack + Cardinality({}) <= Slack /\ Slack \in Nat
    BY CoverTypes, FS_EmptySet
  <2>4. QED BY <2>1, <2>2, <2>3, Grows DEF Covered
<1>2. QED BY <1>1

\* When everything up to the total is behind n, nothing else may be missing.
LEMMA CoverAll ==
  ASSUME TypeOK, NEW n \in Nat, NEW total \in Nat, Covered(n, total, {}),
         total <= n \/ \A i \in live : Rank(i) <= n
  PROVE  AllCovered
<1>1. Missing \subseteq live /\ \A i : Rank(i) \in Nat
  BY CoverTypes
<1>2. \A i \in Missing : Rank(i) <= n \/ Rank(i) > total
  BY <1>1
<1>3. Early(n, total) \ {} = Missing
  BY <1>2 DEF Early
<1>4. QED BY <1>3 DEF Covered, AllCovered

LEMMA SumsGrow ==
  ASSUME NEW a \in Nat, NEW b \in Nat, NEW s \in Nat, NEW l \in Nat,
         NEW u \in Nat, NEW v \in Nat, s + a <= u, l + b <= v
  PROVE  u + v \in Nat /\ s + l \in Nat /\ (s + l) + (a + b) <= u + v
OBVIOUS

\* What is lost is counted.
LEMMA SlackGrows ==
  ASSUME TypeOK, TypeOK', NEW a \in Nat, NEW b \in Nat,
         shifts + a <= shifts', lost + b <= lost'
  PROVE  Slack \in Nat /\ Slack' \in Nat /\ Slack + (a + b) <= Slack'
<1>1. shifts \in Nat /\ shifts' \in Nat /\ lost \in Nat /\ lost' \in Nat
  BY ConstantsAssumption DEF TypeOK
<1>2. PICK s, l \in Nat : s = shifts' /\ l = lost'
  BY <1>1
<1>3. shifts + a <= s /\ lost + b <= l
  BY <1>2
<1> HIDE <1>2
<1>6. s + l \in Nat /\ (shifts + lost) + (a + b) <= s + l /\ shifts + lost \in Nat
  BY <1>1, <1>3, SumsGrow
<1>4. Slack = shifts + lost /\ Slack' = s + l
  BY <1>2 DEF Slack
<1>5. QED BY <1>4, <1>6

\* A step without shifts may lose the issues X, if it counts them.
LEMMA CoverLosing ==
  ASSUME TypeOK, TypeOK', NEW X \in SUBSET Issues,
         shifts' = shifts, lost + Cardinality(X) <= lost',
         Missing' \subseteq Missing \union X,
         \A i \in Missing : Rank(i)' = Rank(i)
  PROVE  CoverageKept
<1>1. /\ Slack \in Nat /\ Slack' \in Nat /\ Cardinality(X) \in Nat
      /\ Slack + Cardinality(X) <= Slack'
  <2>1. PICK c \in Nat : c = Cardinality(X)
    BY IssueSetFinite
  <2>2. shifts + 0 <= shifts' /\ lost + c <= lost' /\ 0 + c = c
    BY <2>1, ConstantsAssumption DEF TypeOK
  <2>3. QED BY <2>1, <2>2, SlackGrows
<1>2. ASSUME NEW n \in Nat, NEW total \in Nat, NEW hand \in SUBSET Issues,
             Covered(n, total, hand)
      PROVE  Covered(n, total, hand)'
  <2>1. Early(n, total)' \subseteq Early(n, total) \union X
    BY DEF Early
  <2>2. (Early(n, total)' \ hand) \subseteq (Early(n, total) \ hand) \union X
    BY <2>1
  <2>3. (Early(n, total)' \ hand) \in SUBSET Issues /\ (Early(n, total) \ hand) \in SUBSET Issues
    BY <2>2, CoverTypes
  <2>4. QED BY <1>1, <1>2, <2>2, <2>3, Grows DEF Covered
<1>3. AllCovered => AllCovered'
  <2>1. Missing' \in SUBSET Issues
    BY CoverTypes
  <2>2. QED BY <1>1, <2>1, CoverTypes, Grows DEF AllCovered
<1>4. QED BY <1>2, <1>3 DEF CoverageKept

LEMMA CoverQuiet ==
  ASSUME TypeOK, TypeOK', UNCHANGED listVars, NEW X \in SUBSET Issues,
         lost + Cardinality(X) <= lost', Missing' \subseteq Missing \union X
  PROVE  CoverageKept
<1>1. live' = live /\ shifts' = shifts
  BY DEF listVars
<1>2. \A i \in Missing : Rank(i)' = Rank(i)
  BY <1>1 DEF Rank
<1>3. QED BY <1>1, <1>2, CoverLosing

LEMMA CoverIndex ==
  ASSUME TypeOK, TypeOK', UNCHANGED listVars, lost <= lost',
         es \union indexJobs \subseteq es' \union indexJobs'
  PROVE  CoverageKept
<1>1. Missing' \subseteq Missing \union {}
  BY DEF Missing, listVars
<1>2. lost + Cardinality({}) <= lost'
  BY FS_EmptySet, ConstantsAssumption DEF TypeOK
<1>3. {} \in SUBSET Issues
  OBVIOUS
<1>4. QED BY <1>1, <1>2, <1>3, CoverQuiet

\* An issue that leaves moves the issues behind it up by one, ...
LEMMA LeavingRanks ==
  ASSUME TypeOK, NEW d \in Issues, DeleteIssue(d), NEW i
  PROVE  Rank(i)' \in {Rank(i), Rank(i) - 1}
<1> DEFINE A == {k \in live : Stamp[k] <= Stamp[i]}
<1>1. {k \in live' : Stamp[k] <= Stamp[i]} = A \ {d}
  BY DEF DeleteIssue
<1>2. IsFiniteSet(A)
  <2>1. A \in SUBSET live
    OBVIOUS
  <2>2. QED BY <2>1, LiveFinite, FS_Subset
<1>3. Rank(i) = Cardinality(A)
  BY DEF Rank
<1> HIDE DEF A
<1>4. Cardinality(A \ {d}) \in {Cardinality(A), Cardinality(A) - 1}
  BY <1>2, FS_RemoveElement
<1>5. Rank(i)' = Cardinality(A \ {d})
  BY <1>1 DEF Rank
<1>6. QED BY <1>3, <1>4, <1>5

\* ... and one that comes moves them down by one.
LEMMA ArrivingRanks ==
  ASSUME TypeOK, NEW d \in Issues, ArriveIssue(d), NEW i
  PROVE  Rank(i)' \in {Rank(i), Rank(i) + 1}
<1> DEFINE A == {k \in live : Stamp[k] <= Stamp[i]}
<1>1. {k \in live' : Stamp[k] <= Stamp[i]} \in {A, A \union {d}}
  BY DEF ArriveIssue
<1>2. IsFiniteSet(A)
  <2>1. A \in SUBSET live
    OBVIOUS
  <2>2. QED BY <2>1, LiveFinite, FS_Subset
<1>3. Rank(i) = Cardinality(A)
  BY DEF Rank
<1> HIDE DEF A
<1>4. Cardinality(A \union {d}) \in {Cardinality(A), Cardinality(A) + 1}
  BY <1>2, FS_AddElement
<1>5. Rank(i)' \in {Cardinality(A), Cardinality(A \union {d})}
  BY <1>1 DEF Rank
<1>6. QED BY <1>3, <1>4, <1>5

\* A shift brings at most one more issue before n or beyond the total, and is counted itself.
LEMMA CoverShift ==
  ASSUME TypeOK, TypeOK', NEW d \in Issues, DeleteIssue(d) \/ ArriveIssue(d)
  PROVE  CoverageKept
<1>1. Missing' \subseteq Missing /\ Missing' \in SUBSET Issues
  <2>1. CASE DeleteIssue(d)
    BY <2>1, CoverTypes DEF DeleteIssue, Missing
  <2>2. CASE ArriveIssue(d)
    BY <2>2, CoverTypes DEF ArriveIssue, Missing
  <2>3. QED BY <2>1, <2>2
<1>2. Slack \in Nat /\ Slack' = Slack + 1
  <2>1. shifts' = shifts + 1 /\ lost' = lost /\ shifts \in Nat /\ lost \in Nat
    BY ConstantsAssumption DEF DeleteIssue, ArriveIssue, TypeOK
  <2>2. QED BY <2>1 DEF Slack
<1>3. ASSUME NEW n \in Nat, NEW total \in Nat, NEW hand \in SUBSET Issues,
             Covered(n, total, hand)
      PROVE  Covered(n, total, hand)'
  <2> DEFINE X(r) == {i \in Missing : Rank(i) = r}
  <2>1. PICK r \in Nat : Early(n, total)' \subseteq Early(n, total) \union X(r)
    <3>1. \A i : Rank(i) \in Nat
      BY CoverTypes
    <3>2. CASE DeleteIssue(d)
      <4>1. \A i : Rank(i)' \in {Rank(i), Rank(i) - 1}
        BY <3>2, LeavingRanks
      <4>2. ASSUME NEW i \in Missing', Rank(i)' <= n \/ i \notin InitIssues \/ Rank(i)' > total
            PROVE  i \in Missing /\ (i \in Early(n, total) \/ Rank(i) = n + 1)
        <5>1. i \in Missing
          BY <1>1
        <5>2. PICK a, b \in Int : /\ a = Rank(i) /\ b = Rank(i)' /\ a \in Nat
                                  /\ b \in {a, a - 1}
          BY <3>1, <4>1
        <5>3. a <= n \/ i \notin InitIssues \/ a > total \/ a = n + 1
          BY <4>2, <5>2
        <5>4. QED BY <5>1, <5>2, <5>3 DEF Early
      <4>3. Early(n, total)' \subseteq Early(n, total) \union X(n + 1)
        BY <4>2 DEF Early
      <4>4. QED BY <4>3
    <3>3. CASE ArriveIssue(d)
      <4>1. \A i : Rank(i)' \in {Rank(i), Rank(i) + 1}
        BY <3>3, ArrivingRanks
      <4>2. ASSUME NEW i \in Missing', Rank(i)' <= n \/ i \notin InitIssues \/ Rank(i)' > total
            PROVE  i \in Missing /\ (i \in Early(n, total) \/ Rank(i) = total)
        <5>1. i \in Missing
          BY <1>1
        <5>2. PICK a, b \in Int : /\ a = Rank(i) /\ b = Rank(i)' /\ a \in Nat
                                  /\ b \in {a, a + 1}
          BY <3>1, <4>1
        <5>3. a <= n \/ i \notin InitIssues \/ a > total \/ a = total
          BY <4>2, <5>2
        <5>4. QED BY <5>1, <5>2, <5>3 DEF Early
      <4>3. Early(n, total)' \subseteq Early(n, total) \union X(total)
        BY <4>2 DEF Early
      <4>4. QED BY <4>3
    <3>4. QED BY <3>2, <3>3
  <2>2. X(r) \in SUBSET Issues /\ Cardinality(X(r)) \in Nat /\ Cardinality(X(r)) <= 1
    BY OneOfRank
  <2>3. (Early(n, total)' \ hand) \subseteq (Early(n, total) \ hand) \union X(r)
    BY <2>1
  <2>4. (Early(n, total)' \ hand) \in SUBSET Issues /\ (Early(n, total) \ hand) \in SUBSET Issues
    BY <2>2, <2>3, CoverTypes
  <2>5. Slack + Cardinality(X(r)) <= Slack + 1 /\ Slack + 1 \in Nat
    BY <1>2, <2>2
  <2> HIDE DEF X
  <2>6. Cardinality(Early(n, total)' \ hand) <= Slack + 1
    BY <1>2, <1>3, <2>2, <2>3, <2>4, <2>5, Grows DEF Covered
  <2>7. QED BY <1>2, <2>6 DEF Covered
<1>4. AllCovered => AllCovered'
  <2>1. Missing' \subseteq Missing \union {}
    BY <1>1
  <2>2. Slack + Cardinality({}) <= Slack + 1 /\ Slack + 1 \in Nat
    BY <1>2, FS_EmptySet
  <2>3. AllCovered => Cardinality(Missing') <= Slack + 1
    BY <1>1, <1>2, <2>1, <2>2, CoverTypes, Grows DEF AllCovered
  <2>4. QED BY <1>2, <2>3 DEF AllCovered
<1>5. QED BY <1>3, <1>4 DEF CoverageKept

\* A row or a worker whose values after a step were covered before it is covered after it.
LEMMA CoverParts ==
  ASSUME TypeInv', CoverageKept
  PROVE  /\ \A j \in Rows : RowCovered(row'[j]) => RowCovered(row[j])'
         /\ \A t \in Tasks : WorkerCovered(wk'[t]) => WorkerCovered(wk[t])'
<1>1. /\ \A j \in Rows : row'[j].offset \in Nat
      /\ \A t \in Tasks : wk'[t].offset \in Nat /\ wk'[t].batch \in SUBSET Issues
                          /\ wk'[t].total \in Nat
  BY DEF TypeInv, TypeOK, RowType, WorkerType
<1>2. \A t \in Tasks : wk'[t].offset + Cardinality(wk'[t].batch) \in Nat
  BY <1>1, IssueSetFinite
<1>3. {} \in SUBSET Issues /\ MaxIssues \in Nat
  BY ConstantsAssumption
<1>4. ASSUME NEW j \in Rows, RowCovered(row'[j])
      PROVE  RowCovered(row[j])'
  <2>1. RowCovered(row'[j])
    BY <1>4
  <2>2. Covered(row'[j].offset, MaxIssues, {}) => Covered(row[j].offset, MaxIssues, {})'
    BY <1>1, <1>3 DEF CoverageKept, Covered, Early, Slack, Missing, Rank
  <2>3. QED BY <2>1, <2>2 DEF RowCovered, CoverageKept
<1>5. ASSUME NEW t \in Tasks, WorkerCovered(wk'[t])
      PROVE  WorkerCovered(wk[t])'
  <2>1. WorkerCovered(wk'[t])
    BY <1>5
  <2>2. Total(wk'[t]) \in Nat /\ Total(wk'[t]) = Total(wk[t])'
    BY <1>1, <1>3 DEF Total
  <2>3. Covered(wk'[t].offset, Total(wk'[t]), {}) => Covered(wk[t].offset, Total(wk[t]), {})'
    BY <1>1, <1>3, <2>2 DEF CoverageKept, Covered, Early, Slack, Missing, Rank
  <2>4. QED BY <1>1, <1>2, <2>1, <2>3 DEF WorkerCovered, CoverageKept
<1>6. QED BY <1>4, <1>5

\* A step of calls and workers keeps the invariant if every row and every worker it changes
\* is covered as things were before it.
LEMMA CoverKept ==
  ASSUME TypeInv', CoverageKept,
         \A j \in Rows : RowCovered(row'[j]),
         \A t \in Tasks : WorkerCovered(wk'[t])
  PROVE  CoverInv'
BY CoverParts DEF CoverInv

\* CoverKept for steps that leave the issues and the index alone.
LEMMA CoverKeptQuiet ==
  ASSUME TypeInv, TypeInv', UNCHANGED indexVars,
         \A j \in Rows : RowCovered(row'[j]),
         \A t \in Tasks : WorkerCovered(wk'[t])
  PROVE  CoverInv'
<1>1. lost <= lost'
  BY ConstantsAssumption DEF TypeInv, TypeOK, indexVars
<1>2. CoverageKept
  BY <1>1, CoverIndex DEF TypeInv, indexVars
<1>3. QED BY <1>2, CoverKept

LEMMA CoverInit == Init => CoverInv
<1> SUFFICES ASSUME Init PROVE CoverInv
  OBVIOUS
<1>1. TypeOK
  BY TypeInit DEF TypeInv
<1>2. live = InitIssues
  BY DEF Init
<1>3. Early(0, MaxIssues) \ {} = {}
  <2>1. ASSUME NEW i \in live
        PROVE  ~(Rank(i) <= 0)
    <3> DEFINE A == {k \in live : Stamp[k] <= Stamp[i]}
    <3>1. A \in SUBSET live /\ i \in A
      BY <1>1, ConstantsAssumption DEF TypeOK, Issues
    <3>2. IsFiniteSet(A)
      BY <3>1, <1>1, LiveFinite, FS_Subset
    <3>3. Rank(i) = Cardinality(A)
      BY DEF Rank
    <3> HIDE DEF A
    <3>4. Cardinality(A) # 0
      BY <3>1, <3>2, FS_EmptySet
    <3>5. QED BY <1>1, <3>3, <3>4, CoverTypes
  <2>2. \A i \in live : ~(Rank(i) > MaxIssues)
    BY <1>1, CoverTypes, ConstantsAssumption
  <2>3. QED BY <1>1, <1>2, <2>1, <2>2, CoverTypes DEF Early
<1>4. Covered(0, MaxIssues, {})
  BY <1>1, <1>3, CoverTypes, FS_EmptySet DEF Covered
<1>5. QED BY <1>4 DEF Init, CoverInv, RowCovered, WorkerCovered, NoRow, Idle, Total, Looping

\* What holds of some progress holds of none: a new row, and a worker that has just started
\* or given up, claim nothing.
LEMMA FreshCovered ==
  ASSUME TypeInv, NEW n \in Nat, NEW total, Covered(n, total, {})
  PROVE  /\ Covered(0, MaxIssues, {})
         /\ WorkerCovered(Idle) /\ WorkerCovered([Idle EXCEPT !.pc = "failed"])
<1>1. Covered(0, MaxIssues, {})
  BY CoverLess DEF TypeInv
<1>2. QED BY <1>1 DEF WorkerCovered, Idle, Total, Looping
LEMMA CoverCalls ==
  ASSUME TypeInv, TypeInv', CoverInv, NEW c \in Clients,
         StartCheck(c) \/ CallStep(c) \/ CallFails(c)
         \/ \E j \in Rows : RetryCheck(c, j) \/ CancelCheck(c, j)
  PROVE  CoverInv'
<1>1. UNCHANGED indexVars
  BY DEF StartCheck, CallStep, CallFails, RetryCheck, CancelCheck, StartInsert,
         StartEnqueue, RetryUpdate, RetryEnqueue, CancelUpdate, CancelRemove
<1>2. row \in [Rows -> RowType] /\ wk \in [Tasks -> WorkerType]
  BY DEF TypeInv, TypeOK
<1>3. \A j \in Rows :
        /\ \/ row'[j].offset = row[j].offset /\ row'[j].phases = row[j].phases
           \/ row'[j].offset = 0 /\ row'[j].phases = {}
        /\ row'[j].status = "completed" => row[j].status = "completed"
  <2>1. CASE StartInsert(c)
    <3>1. PICK j \in Rows : row' = [row EXCEPT ![j] = [NoRow EXCEPT !.status = "pending"]]
      BY <2>1 DEF StartInsert
    <3>2. \A k \in Rows : row'[k] = IF k = j THEN [NoRow EXCEPT !.status = "pending"]
                                    ELSE row[k]
      BY <1>2, <3>1
    <3>3. QED BY <3>2 DEF NoRow
  <2>2. CASE RetryUpdate(c) \/ CancelUpdate(c)
    BY <1>2, <2>2 DEF RetryUpdate, CancelUpdate, RowType
  <2>3. CASE UNCHANGED row
    BY <1>2, <2>3
  <2>4. QED
    BY <2>1, <2>2, <2>3 DEF StartCheck, CallStep, CallFails, RetryCheck, CancelCheck,
       StartEnqueue, RetryEnqueue, CancelRemove, jobVars
<1>4. \A t \in Tasks : wk'[t] \in {wk[t], [wk[t] EXCEPT !.late = 0]}
  <2>1. CASE RetryUpdate(c) \/ CancelUpdate(c)
    BY <1>2, <2>1 DEF RetryUpdate, CancelUpdate
  <2>2. CASE UNCHANGED wk
    BY <2>2
  <2>3. QED
    BY <2>1, <2>2 DEF StartCheck, CallStep, CallFails, RetryCheck, CancelCheck, StartInsert,
       StartEnqueue, RetryEnqueue, CancelRemove, jobVars
<1>5. \A j \in Rows : RowCovered(row'[j])
  <2> TAKE j \in Rows
  <2>1. RowCovered(row[j]) /\ row[j].offset \in Nat
    BY <1>2 DEF CoverInv, RowType
  <2>2. Covered(0, MaxIssues, {})
    BY <2>1, FreshCovered DEF RowCovered
  <2>3. QED BY <1>3, <2>1, <2>2 DEF RowCovered
<1>6. \A t \in Tasks : WorkerCovered(wk'[t])
  <2> TAKE t \in Tasks
  <2>1. WorkerCovered(wk[t]) /\ wk[t] \in WorkerType
    BY <1>2 DEF CoverInv
  <2>2. WorkerCovered([wk[t] EXCEPT !.late = 0])
    BY <2>1 DEF WorkerCovered, WorkerType, Total
  <2>3. QED BY <1>4, <2>1, <2>2
<1>7. QED BY <1>1, <1>5, <1>6, CoverKeptQuiet

\* What a worker claims at its different places.
LEMMA CoverPlaces ==
  ASSUME TypeInv, NEW w \in WorkerType, WorkerCovered(w)
  PROVE  /\ \A pc \in {"load", "project", "projectSave", "count", "done"} :
              WorkerCovered([w EXCEPT !.pc = pc])
         /\ WorkerCovered([w EXCEPT !.pc = NextPc(w.phases)])
         /\ 2 \in w.phases => WorkerCovered([w EXCEPT !.pc = "memberDocs"])
         /\ w.pc \in Looping => /\ WorkerCovered([w EXCEPT !.pc = "fetch"])
                               /\ WorkerCovered([w EXCEPT !.pc = "check"])
         /\ AllCovered => WorkerCovered([w EXCEPT !.pc = "issuesDone"])
<1>1. \A pc : /\ [w EXCEPT !.pc = pc].pc = pc
              /\ [w EXCEPT !.pc = pc].offset = w.offset
              /\ [w EXCEPT !.pc = pc].phases = w.phases
              /\ [w EXCEPT !.pc = pc].total = w.total
  BY DEF WorkerType
<1>2. /\ NextPc(w.phases) \in {"project", "count", "members", "complete"}
      /\ NextPc(w.phases) \in {"members", "complete"} => 2 \in w.phases
  BY DEF NextPc
<1> DEFINE at(pc) == [w EXCEPT !.pc = pc]
<1>3. \A pc : /\ Covered(at(pc).offset, Total(w), {})
              /\ Covered(at(pc).offset, MaxIssues, {})
              /\ 2 \in at(pc).phases => AllCovered
  <2>1. w.offset \in Nat /\ Covered(w.offset, Total(w), {})
    BY DEF WorkerType, WorkerCovered
  <2>2. Covered(w.offset, MaxIssues, {})
    BY <2>1, CoverLess DEF TypeInv
  <2>3. QED BY <1>1, <2>1, <2>2 DEF WorkerCovered
<1>4. \A pc : /\ at(pc).pc = pc
              /\ at(pc).phases = w.phases
              /\ at(pc).total = w.total
  BY <1>1
<1> HIDE DEF at
<1>5. \A pc \in {"load", "project", "projectSave", "count", "done"} : WorkerCovered(at(pc))
  BY <1>3, <1>4 DEF WorkerCovered, Total, Looping
<1>6. WorkerCovered(at(NextPc(w.phases)))
  BY <1>2, <1>3, <1>4 DEF WorkerCovered, Total, Looping
<1>7. 2 \in w.phases => WorkerCovered(at("memberDocs"))
  BY <1>3, <1>4 DEF WorkerCovered, Total, Looping
<1>8. w.pc \in Looping => WorkerCovered(at("fetch")) /\ WorkerCovered(at("check"))
  BY <1>3, <1>4 DEF WorkerCovered, Total, Looping
<1>9. AllCovered => WorkerCovered(at("issuesDone"))
  BY <1>3, <1>4 DEF WorkerCovered, Total, Looping
<1>10. QED BY <1>5, <1>6, <1>7, <1>8, <1>9 DEF at

\* Steps of a worker that leave the rows' progress and the index alone.
LEMMA CoverControl ==
  ASSUME TypeInv, TypeInv', CoverInv, NEW t \in Tasks,
         \/ Dispatch(t) \/ SkipUnavailable(t) \/ Load(t) \/ Mark(t) \/ ProjectCheck(t)
         \/ BatchCheck(t) \/ Fetch(t) \/ MembersCheck(t) \/ MemberStop(t)
         \/ Complete(t) \/ Done(t) \/ OnFailed(t)
  PROVE  CoverInv'
<1>0. /\ row \in [Rows -> RowType] /\ wk \in [Tasks -> WorkerType]
      /\ TaskBudget /\ TypeOK /\ wk[t] \in WorkerType
      /\ wk[t].offset \in Nat /\ wk[t].total \in Nat
  BY DEF TypeInv, TypeOK, WorkerType
<1>1. UNCHANGED indexVars
  BY DEF Dispatch, SkipUnavailable, Load, Mark, ProjectCheck, BatchCheck, Fetch,
         MembersCheck, MemberStop, Complete, Done, OnFailed
<1>2. /\ \A u \in Tasks : WorkerCovered(wk[u])
      /\ \A j \in Rows : RowCovered(row[j])
      /\ WorkerCovered(wk[t]) /\ Covered(wk[t].offset, Total(wk[t]), {})
  BY DEF CoverInv, WorkerCovered
<1>3. \A j \in Rows : RowCovered(row'[j])
  <2>1. CASE SkipUnavailable(t) \/ OnFailed(t)
    <3>1. \A r \in RowType : RowCovered(r) => RowCovered(MarkFailed(r))
      BY DEF MarkFailed, RowType, RowCovered
    <3>2. QED BY <1>0, <1>2, <2>1, <3>1 DEF SkipUnavailable, OnFailed
  <2>2. CASE Mark(t)
    BY <1>0, <1>2, <2>2 DEF Mark, RowType, RowCovered
  <2>3. CASE Complete(t)
    <3>1. AllCovered
      BY <1>2, <2>3 DEF Complete, At, WorkerCovered
    <3>2. QED BY <1>0, <1>2, <2>3, <3>1 DEF Complete, RowType, RowCovered
  <2>4. CASE UNCHANGED row
    BY <1>2, <2>4
  <2>5. QED
    BY <2>1, <2>2, <2>3, <2>4 DEF Dispatch, Load, ProjectCheck, BatchCheck, Fetch,
       MembersCheck, MemberStop, Done
<1>4. SUFFICES \A u \in Tasks : WorkerCovered(wk'[u])
  BY <1>1, <1>3, CoverKeptQuiet
<1>5. ASSUME NEW w, WorkerCovered(w), wk' = [wk EXCEPT ![t] = w]
      PROVE  \A u \in Tasks : WorkerCovered(wk'[u])
  BY <1>0, <1>2, <1>5
<1>6. ASSUME NEW pc, GoTo(t, pc), WorkerCovered([wk[t] EXCEPT !.pc = pc])
      PROVE  \A u \in Tasks : WorkerCovered(wk'[u])
  BY <1>0, <1>5, <1>6 DEF GoTo
<1>7. WorkerCovered(Idle)
  BY <1>0, <1>2, FreshCovered
<1>8. Finish(t) => \A u \in Tasks : WorkerCovered(wk'[u])
  BY <1>5, <1>7 DEF Finish
<1>9. CASE Dispatch(t) \/ SkipUnavailable(t) \/ Complete(t) \/ ProjectCheck(t) \/ Mark(t)
  BY <1>0, <1>2, <1>6, <1>8, <1>9, CoverPlaces
     DEF Dispatch, SkipUnavailable, Complete, ProjectCheck, StopOr, Mark
<1>10. CASE Load(t)
  <2> DEFINE r == row[task[t].row]
             new == [wk[t] EXCEPT !.pc = "mark", !.phases = r.phases, !.offset = r.offset]
  <2>1. task[t].row \in Rows
    BY <1>0, <1>10 DEF Load, At, TaskBudget
  <2>2. Covered(r.offset, MaxIssues, {}) /\ (2 \in r.phases => AllCovered)
    BY <1>2, <2>1 DEF RowCovered
  <2>3. new.pc = "mark" /\ new.phases = r.phases /\ new.offset = r.offset
    BY <1>0 DEF WorkerType
  <2>4. WorkerCovered(new)
    <3> HIDE DEF new
    <3>1. QED BY <2>2, <2>3 DEF WorkerCovered, Total, Looping
  <2>5. CASE ~Finish(t)
    BY <1>0, <1>5, <1>10, <2>4, <2>5 DEF Load
  <2>6. QED BY <1>8, <2>5
<1>11. CASE MembersCheck(t)
  <2>1. 2 \in wk[t].phases
    BY <1>2, <1>11 DEF MembersCheck, At, WorkerCovered
  <2>2. QED BY <1>0, <1>2, <1>6, <1>8, <1>11, <2>1, CoverPlaces DEF MembersCheck, StopOr
<1>12. CASE BatchCheck(t)
  <2>1. wk[t].pc = "check" /\ wk[t].pc \in Looping
    BY <1>12 DEF BatchCheck, At, Looping
  <2>2. CASE wk[t].offset < wk[t].total
    BY <1>0, <1>2, <1>6, <1>8, <1>12, <2>1, <2>2, CoverPlaces DEF BatchCheck, StopOr
  <2>3. CASE ~(wk[t].offset < wk[t].total)
    <3>1. Covered(wk[t].offset, wk[t].total, {})
      BY <1>2, <2>1 DEF Total
    <3>2. wk[t].total <= wk[t].offset
      BY <1>0, <2>3
    <3>3. AllCovered
      BY <1>0, <3>1, <3>2, CoverAll
    <3>4. QED BY <1>0, <1>2, <1>6, <1>12, <2>3, <3>3, CoverPlaces DEF BatchCheck
  <2>4. QED BY <2>2, <2>3
<1>13. CASE Fetch(t)
  <2>1. PICK batch \in Batches(wk[t].offset) :
          wk' = IF batch = {} THEN [wk EXCEPT ![t].pc = "issuesDone"]
                ELSE [wk EXCEPT ![t].pc = "bulk", ![t].batch = batch]
    BY <1>13 DEF Fetch
  <2>2. /\ batch \in SUBSET Issues
        /\ Cardinality(batch) \in Nat /\ Cardinality(batch) <= BatchSize
        /\ \A i \in Missing :
             wk[t].offset < Rank(i) /\ Rank(i) <= wk[t].offset + BatchSize => i \in batch
        /\ batch = {} => \A i \in live : Rank(i) <= wk[t].offset
    BY <1>0, BatchHolds
  <2>3. Covered(wk[t].offset, wk[t].total, {})
    BY <1>2, <1>13 DEF Fetch, At, Total, Looping
  <2>4. CASE batch = {}
    <3>1. AllCovered
      BY <1>0, <2>2, <2>3, <2>4, CoverAll
    <3>2. GoTo(t, "issuesDone")
      BY <2>1, <2>4 DEF GoTo
    <3>3. QED BY <1>0, <1>2, <1>6, <3>1, <3>2, CoverPlaces
  <2>5. CASE batch # {}
    <3> DEFINE n == wk[t].offset + Cardinality(batch)
               total == wk[t].total
               new == [wk[t] EXCEPT !.pc = "bulk", !.batch = batch]
    <3>1. Early(n, total) \ batch \subseteq (Early(wk[t].offset, total) \ {}) \union {}
      <4> SUFFICES ASSUME NEW i \in Missing, Rank(i) <= n, i \notin batch
                   PROVE  Rank(i) <= wk[t].offset
        BY DEF Early
      <4>1. Rank(i) \in Nat
        BY <1>0, CoverTypes
      <4>2. Rank(i) <= wk[t].offset + BatchSize
        BY <1>0, <2>2, <4>1, ConstantsAssumption
      <4>3. QED BY <1>0, <2>2, <4>1, <4>2
    <3>2. Covered(n, total, batch)
      <4>1. /\ Early(n, total) \ batch \in SUBSET Issues
            /\ Early(wk[t].offset, total) \ {} \in SUBSET Issues /\ {} \in SUBSET Issues
        BY <1>0, CoverTypes
      <4>2. Slack \in Nat /\ Slack + Cardinality({}) <= Slack
        BY <1>0, CoverTypes, FS_EmptySet
      <4>3. QED BY <2>3, <3>1, <4>1, <4>2, Grows DEF Covered
    <3>3. /\ new.pc = "bulk" /\ new.offset = wk[t].offset /\ new.phases = wk[t].phases
          /\ new.total = wk[t].total /\ new.batch = batch
      BY <1>0 DEF WorkerType
    <3>4. 2 \in wk[t].phases => AllCovered
      BY <1>2 DEF WorkerCovered
    <3>5. WorkerCovered(new)
      <4> HIDE DEF new
      <4>1. QED BY <2>3, <3>2, <3>3, <3>4 DEF WorkerCovered, Total, Looping
    <3>6. wk' = [wk EXCEPT ![t] = new]
      BY <1>0, <2>1, <2>5
    <3> HIDE DEF new
    <3>7. QED BY <1>5, <3>5, <3>6
  <2>6. QED BY <2>4, <2>5
<1>14. CASE MemberStop(t) \/ Done(t)
  BY <1>8, <1>14 DEF MemberStop, Done
<1>15. CASE OnFailed(t)
  BY <1>5, <1>7, <1>15 DEF OnFailed
<1>16. QED BY <1>9, <1>10, <1>11, <1>12, <1>13, <1>14, <1>15

\* Steps of a worker that save progress in the row.
LEMMA CoverProgress ==
  ASSUME TypeInv, TypeInv', CoverInv, NEW t \in Tasks,
         ProjectSave(t) \/ Count(t) \/ SaveOffset(t) \/ IssuesDone(t) \/ MembersSave(t)
  PROVE  CoverInv'
<1>0. /\ row \in [Rows -> RowType] /\ wk \in [Tasks -> WorkerType]
      /\ TypeOK /\ wk[t] \in WorkerType /\ wk[t].offset \in Nat
  BY DEF TypeInv, TypeOK, WorkerType
<1>1. UNCHANGED indexVars
  BY DEF ProjectSave, Count, SaveOffset, IssuesDone, MembersSave, SavePhase
<1>2. /\ \A u \in Tasks : WorkerCovered(wk[u])
      /\ \A j \in Rows : RowCovered(row[j])
      /\ WorkerCovered(wk[t]) /\ Covered(wk[t].offset, Total(wk[t]), {})
  BY DEF CoverInv, WorkerCovered
<1>3. SUFFICES /\ \A j \in Rows : RowCovered(row'[j])
               /\ \A u \in Tasks : WorkerCovered(wk'[u])
  BY <1>1, CoverKeptQuiet
<1>4. Covered(0, MaxIssues, {}) /\ Covered(wk[t].offset, MaxIssues, {})
  BY <1>0, <1>2, CoverLess
<1>5. ASSUME NEW phase \in Phases, SavePhase(t, phase), phase = 2 => AllCovered
      PROVE  /\ \A j \in Rows : RowCovered(row'[j])
             /\ \A u \in Tasks : WorkerCovered(wk'[u])
  <2> DEFINE phases == wk[t].phases \union {phase}
  <2>1. 2 \in phases => AllCovered
    BY <1>2, <1>5 DEF WorkerCovered
  <2>2. \A r \in RowType : RowCovered(r) => RowCovered(WithPhases(r, phases, phase))
    <3> SUFFICES ASSUME NEW r \in RowType, RowCovered(r)
                 PROVE  RowCovered(WithPhases(r, phases, phase))
      OBVIOUS
    <3> DEFINE s == WithPhases(r, phases, phase)
    <3>1. s.offset \in {0, r.offset} /\ s.phases = phases /\ s.status = r.status
      BY DEF WithPhases, RowType
    <3> HIDE DEF s
    <3>2. Covered(s.offset, MaxIssues, {})
      BY <1>4, <3>1 DEF RowCovered
    <3>3. RowCovered(s)
      BY <2>1, <3>1, <3>2 DEF RowCovered
    <3>4. QED BY <3>3 DEF s
  <2>3. \A j \in Rows : row'[j] \in {row[j], WithPhases(row[j], phases, phase)}
    BY <1>0, <1>5 DEF SavePhase
  <2>4. \A j \in Rows : RowCovered(row'[j])
    BY <1>0, <1>2, <2>2, <2>3
  <2> DEFINE new == [wk[t] EXCEPT !.phases = phases, !.pc = NextPc(phases),
                                  !.offset = IF phase = 2 THEN 0 ELSE @, !.total = 0]
  <2>5. new.offset \in {0, wk[t].offset} /\ new.phases = phases /\ new.pc = NextPc(phases)
    BY <1>0 DEF WorkerType
  <2>6. /\ NextPc(phases) \in {"project", "count", "members", "complete"}
        /\ NextPc(phases) \in {"members", "complete"} => 2 \in phases
    BY DEF NextPc
  <2>7. wk' = [wk EXCEPT ![t] = new]
    BY <1>0, <1>5 DEF SavePhase
  <2> HIDE DEF new, phases
  <2>8. WorkerCovered(new)
    <3>1. Covered(new.offset, MaxIssues, {})
      BY <1>4, <2>5
    <3>2. QED BY <2>1, <2>5, <2>6, <3>1 DEF WorkerCovered, Total, Looping
  <2>9. QED BY <1>0, <1>2, <2>4, <2>7, <2>8
<1>6. CASE ProjectSave(t) \/ MembersSave(t)
  BY <1>5, <1>6 DEF ProjectSave, MembersSave, Phases
<1>7. CASE IssuesDone(t)
  <2>1. AllCovered
    BY <1>2, <1>7 DEF IssuesDone, At, WorkerCovered
  <2>2. QED BY <1>5, <1>7, <2>1 DEF IssuesDone, Phases
<1>8. ASSUME row' = [row EXCEPT ![task[t].row].offset = wk[t].offset]
      PROVE  \A j \in Rows : RowCovered(row'[j])
  <2>1. \A j \in Rows : /\ row'[j].phases = row[j].phases /\ row'[j].status = row[j].status
                       /\ row'[j].offset \in {row[j].offset, wk[t].offset}
    BY <1>0, <1>8 DEF RowType
  <2>2. \A j \in Rows : Covered(row'[j].offset, MaxIssues, {})
    BY <1>2, <1>4, <2>1 DEF RowCovered
  <2>3. QED BY <1>2, <2>1, <2>2 DEF RowCovered
<1>9. CASE Count(t)
  <2> DEFINE new == [wk[t] EXCEPT !.pc = "check", !.total = Cardinality(live)]
  <2>1. Covered(wk[t].offset, Cardinality(live), {})
    BY <1>0, <1>2, CoverLess
  <2>2. /\ new.pc = "check" /\ new.total = Cardinality(live)
        /\ new.offset = wk[t].offset /\ new.phases = wk[t].phases
    BY <1>0 DEF WorkerType
  <2>3. wk' = [wk EXCEPT ![t] = new]
    BY <1>0, <1>9 DEF Count
  <2> HIDE DEF new
  <2>4. WorkerCovered(new)
    BY <1>2, <2>1, <2>2 DEF WorkerCovered, Total, Looping
  <2>5. QED BY <1>0, <1>2, <1>8, <1>9, <2>3, <2>4 DEF Count
<1>10. CASE SaveOffset(t)
  <2>1. wk[t].pc \in Looping
    BY <1>10 DEF SaveOffset, At, Looping
  <2>2. WorkerCovered([wk[t] EXCEPT !.pc = "check"])
    BY <1>0, <1>2, <2>1, CoverPlaces
  <2>3. QED BY <1>0, <1>2, <1>8, <1>10, <2>2 DEF SaveOffset, GoTo
<1>11. QED BY <1>6, <1>7, <1>9, <1>10

\* The batch is written, but for the documents that were rejected and are counted as lost.
LEMMA CoverBulk ==
  ASSUME TypeInv, TypeInv', CoverInv, NEW t \in Tasks, Bulk(t)
  PROVE  CoverInv'
<1>0. /\ TypeOK /\ TypeOK' /\ wk \in [Tasks -> WorkerType] /\ wk[t] \in WorkerType
      /\ lost \in Nat /\ wk[t].batch \in SUBSET Issues /\ wk[t].offset \in Nat
  BY ConstantsAssumption DEF TypeInv, TypeOK, WorkerType
<1>1. PICK rejected \in SUBSET wk[t].batch :
        /\ lost' = lost + Cardinality(rejected)
        /\ es' = es \union (wk[t].batch \ rejected)
  BY DEF Bulk
<1>2. rejected \in SUBSET Issues /\ Cardinality(rejected) \in Nat
  BY <1>0, <1>1, IssueSetFinite
<1>3. UNCHANGED <<row, listVars, indexJobs>>
  BY DEF Bulk
<1>4. CoverageKept
  BY <1>0, <1>1, <1>2, <1>3, CoverIndex
<1>n. PICK n \in Nat : n = wk[t].offset + Cardinality(wk[t].batch)
  BY <1>0, IssueSetFinite
<1> DEFINE new == [wk[t] EXCEPT !.pc = "saveOffset", !.batch = {}, !.offset = n,
                                !.late = LateAfter(t)]
<1>5. wk' = [wk EXCEPT ![t] = new]
  BY <1>0, <1>n DEF Bulk
<1>6. /\ new.pc = "saveOffset" /\ new.offset = n /\ new.phases = wk[t].phases
      /\ new.total = wk[t].total /\ wk[t].total \in Nat
  BY <1>0 DEF WorkerType
<1>7. /\ Covered(n, wk[t].total, wk[t].batch)
      /\ 2 \in wk[t].phases => AllCovered
  BY <1>n DEF CoverInv, WorkerCovered, Bulk, At
<1> DEFINE total == wk[t].total
<1>8. Early(n, total)' \subseteq (Early(n, total) \ wk[t].batch) \union rejected
  <2>1. \A i : Rank(i)' = Rank(i)
    BY <1>3 DEF Rank, listVars
  <2>2. Missing' \subseteq (Missing \ wk[t].batch) \union rejected
    BY <1>1, <1>3 DEF Missing, listVars
  <2>3. total' \in Nat /\ total' = total
    BY <1>0, <1>5, <1>6
  <2> HIDE DEF total
  <2>4. QED BY <2>1, <2>2, <2>3 DEF Early
<1> HIDE DEF new
<1>9. Cardinality(Early(n, total)' \ {}) <= Slack'
  <2>1. Slack \in Nat /\ Slack' \in Nat /\ Slack + (0 + Cardinality(rejected)) <= Slack'
    <3>1. shifts + 0 <= shifts' /\ lost + Cardinality(rejected) <= lost'
      BY <1>0, <1>1, <1>2, <1>3, ConstantsAssumption DEF TypeOK, listVars
    <3>2. QED BY <1>0, <1>2, <3>1, SlackGrows
  <2>2. Early(n, total) \ wk[t].batch \in SUBSET Issues
    BY <1>0, CoverTypes
  <2>3. Early(n, total)' \ {} \in SUBSET Issues
    BY <1>2, <1>8, <2>2
  <2>4. Early(n, total)' \ {} \subseteq (Early(n, total) \ wk[t].batch) \union rejected
    BY <1>8
  <2>5. 0 + Cardinality(rejected) = Cardinality(rejected)
    BY <1>2
  <2>6. QED BY <1>2, <1>7, <2>1, <2>2, <2>3, <2>4, <2>5, Grows DEF Covered
<1>10. WorkerCovered(wk[t])'
  <2>1. wk'[t] = new
    BY <1>0, <1>5
  <2>2. Covered(wk[t].offset, Total(wk[t]), {})'
    BY <1>6, <1>9, <2>1 DEF Covered, Early, Slack, Missing, Rank, Total, Looping
  <2>3. (2 \in wk[t].phases => AllCovered)'
    BY <1>4, <1>6, <1>7, <2>1 DEF CoverageKept
  <2>4. QED BY <1>6, <2>1, <2>2, <2>3 DEF WorkerCovered
<1>11. /\ \A u \in Tasks : u # t => wk'[u] = wk[u] /\ WorkerCovered(wk[u])
       /\ \A j \in Rows : RowCovered(row'[j])
  BY <1>0, <1>3, <1>5 DEF CoverInv
<1>12. \A u \in Tasks : u # t => WorkerCovered(wk'[u])
  BY <1>11
<1>13. QED BY <1>4, <1>10, <1>11, <1>12, CoverParts DEF CoverInv

\* An attempt throws or the worker dies: the workers involved forget everything.
LEMMA CoverFailures ==
  ASSUME TypeInv, TypeInv', CoverInv, Crash \/ \E t \in Tasks : Throw(t)
  PROVE  CoverInv'
<1>0. wk \in [Tasks -> WorkerType] /\ lost \in Nat
  BY ConstantsAssumption DEF TypeInv, TypeOK
<1>1. UNCHANGED <<row, listVars, indexJobs, lost>> /\ es \subseteq es'
  BY DEF Crash, Throw, indexVars
<1>2. CoverageKept
  BY <1>0, <1>1, CoverIndex DEF TypeInv
<1>3. \A t \in Tasks : wk'[t] \in {wk[t], Idle, [Idle EXCEPT !.pc = "failed"]}
  BY <1>0 DEF Crash, Throw
<1>4. \A t \in Tasks : WorkerCovered(wk'[t])
  <2> TAKE t \in Tasks
  <2>1. WorkerCovered(wk[t]) /\ wk[t].offset \in Nat /\ Covered(wk[t].offset, Total(wk[t]), {})
    BY <1>0 DEF CoverInv, WorkerCovered, WorkerType
  <2>2. WorkerCovered(Idle) /\ WorkerCovered([Idle EXCEPT !.pc = "failed"])
    BY <2>1, FreshCovered
  <2>3. QED BY <1>3, <2>1, <2>2
<1>5. QED BY <1>1, <1>2, <1>4, CoverKept DEF CoverInv

\* A step that leaves the rows and the workers alone.
LEMMA CoverIssuesOnly ==
  ASSUME TypeInv', CoverInv, CoverageKept, UNCHANGED <<row, wk>>
  PROVE  CoverInv'
<1>1. /\ \A j \in Rows : RowCovered(row'[j])
      /\ \A t \in Tasks : WorkerCovered(wk'[t])
  BY DEF CoverInv
<1>2. QED BY <1>1, CoverKept

\* What is lost is counted, and what a delete-issue job removes is not answered for.
LEMMA CoverIssues ==
  ASSUME TypeInv, TypeInv', JobInv, CoverInv, NEW i \in Issues, IssueStep(i)
  PROVE  CoverInv'
<1>0. lost \in Nat /\ TypeOK /\ TypeOK'
  BY ConstantsAssumption DEF TypeInv, TypeOK
<1>1. UNCHANGED <<row, wk>>
  BY DEF IssueStep, CreateIssue, UpdateIssue, DeleteIssue, ArriveIssue, IndexIssue,
         RemoveIssue, jobVars
<1>2. SUFFICES CoverageKept
  BY <1>1, CoverIssuesOnly
<1>loss. /\ {} \in SUBSET Issues /\ lost + Cardinality({}) <= lost
         /\ {i} \in SUBSET Issues /\ lost + Cardinality({i}) <= lost + 1
  <2>1. Cardinality({}) = 0 /\ Cardinality({i}) = 1
    BY FS_EmptySet, FS_Singleton
  <2>2. lost + 0 <= lost /\ lost + 1 <= lost + 1
    <3>1. SUFFICES ASSUME NEW n \in Nat PROVE n + 0 <= n /\ n + 1 <= n + 1
      BY <1>0
    <3>2. QED OBVIOUS
  <2>3. QED BY <2>1, <2>2
<1>3. CASE CreateIssue(i)
  <2> DEFINE X == IF lost' = lost THEN {} ELSE {i}
  <2>1. /\ i \notin issues /\ live' = live \union {i} /\ UNCHANGED <<shifts, strays, es>>
        /\ \/ indexJobs' = indexJobs \union {i} /\ lost' = lost
           \/ lost' = lost + 1 /\ indexJobs' = indexJobs
        /\ \A k \in issues : Stamp[k] <= Stamp[i]
    BY <1>3 DEF CreateIssue
  <2>2. X \in SUBSET Issues /\ lost + Cardinality(X) <= lost'
    BY <1>0, <1>loss, <2>1
  <2>3. Missing' \subseteq Missing \union X
    BY <1>0, <2>1 DEF Missing
  <2>4. ASSUME NEW k \in Missing
        PROVE  Rank(k)' = Rank(k)
    <3>1. k \in issues /\ k # i /\ k \in Untied
      BY <1>0, <2>1, CoverTypes DEF JobInv
    <3>2. Stamp[k] \in Nat /\ Stamp[i] \in Nat /\ Stamp[k] <= Stamp[i] /\ Stamp[k] # Stamp[i]
      BY <1>0, <2>1, <3>1, ConstantsAssumption DEF TypeOK, Issues, Untied
    <3>3. ~(Stamp[i] <= Stamp[k])
      BY <3>2
    <3>4. {l \in live' : Stamp[l] <= Stamp[k]} = {l \in live : Stamp[l] <= Stamp[k]}
      BY <2>1, <3>3
    <3>5. QED BY <3>4 DEF Rank
  <2> HIDE DEF X
  <2>5. QED BY <1>0, <2>1, <2>2, <2>3, <2>4, CoverLosing
<1>4. CASE UpdateIssue(i)
  BY <1>0, <1>4, CoverIndex DEF UpdateIssue
<1>5. CASE DeleteIssue(i) \/ ArriveIssue(i)
  BY <1>0, <1>5, CoverShift
<1>6. CASE IndexIssue(i)
  <2>1. /\ UNCHANGED listVars /\ indexJobs' = indexJobs \ {i}
        /\ \/ es' = es \union {i} /\ lost' = lost
           \/ es' = es /\ lost' = lost + 1
    BY <1>6 DEF IndexIssue
  <2>2. CASE es' = es \union {i} /\ lost' = lost
    <3>1. es \union indexJobs \subseteq es' \union indexJobs' /\ lost <= lost'
      BY <1>0, <2>1, <2>2
    <3>2. QED BY <1>0, <2>1, <3>1, CoverIndex
  <2>3. CASE es' = es /\ lost' = lost + 1
    <3>1. Missing' \subseteq Missing \union {i}
      BY <2>1, <2>3 DEF Missing, listVars
    <3>2. QED BY <1>0, <1>loss, <2>1, <2>3, <3>1, CoverQuiet
  <2>4. QED BY <2>1, <2>2, <2>3
<1>7. CASE RemoveIssue(i)
  <2>1. /\ UNCHANGED <<listVars, indexJobs, lost>> /\ i \in deleteJobs
        /\ es \ {i} \subseteq es'
    BY <1>7 DEF RemoveIssue
  <2>2. i \notin live \/ i \in strays
    BY <2>1 DEF JobInv
  <2>3. Missing' \subseteq Missing \union {}
    BY <2>1, <2>2 DEF Missing, listVars
  <2>4. QED BY <1>0, <1>loss, <2>1, <2>3, CoverQuiet
<1>8. QED BY <1>3, <1>4, <1>5, <1>6, <1>7 DEF IssueStep

CoverageInv == TypeInv /\ JobInv /\ CoverInv

LEMMA CoverStep == CoverageInv /\ [Next]_vars => CoverageInv'
<1> SUFFICES ASSUME TypeInv, JobInv, CoverInv, [Next]_vars
             PROVE  CoverInv'
  BY TypeStep, JobStep DEF CoverageInv
<1>0. TypeInv'
  BY TypeStep
<1>1. ASSUME NEW c \in Clients, StartCheck(c) \/ CallStep(c) \/ CallFails(c)
      PROVE  CoverInv'
  BY <1>0, <1>1, CoverCalls
<1>2. ASSUME NEW c \in Clients, NEW j \in Rows, RetryCheck(c, j) \/ CancelCheck(c, j)
      PROVE  CoverInv'
  BY <1>0, <1>2, CoverCalls
<1>3. ASSUME NEW t \in Tasks, Dispatch(t) \/ WorkerStep(t)
      PROVE  CoverInv'
  BY <1>0, <1>3, CoverControl, CoverProgress, CoverBulk DEF WorkerStep
<1>4. CASE Crash \/ \E t \in Tasks : Throw(t)
  BY <1>0, <1>4, CoverFailures
<1>5. ASSUME NEW i \in Issues, IssueStep(i)
      PROVE  CoverInv'
  BY <1>0, <1>5, CoverIssues
<1>6. CASE UNCHANGED vars
  <2>1. UNCHANGED indexVars /\ row' = row /\ wk' = wk
    BY <1>6 DEF vars, jobVars
  <2>2. QED BY <1>0, <2>1, CoverKeptQuiet DEF CoverInv
<1>7. QED BY <1>1, <1>2, <1>3, <1>4, <1>5, <1>6 DEF Next

LEMMA CoverAlways == Spec => []CoverageInv
<1>1. Init => CoverageInv
  <2>1. Init => JobInv
    BY DEF Init, JobInv
  <2>2. QED BY <2>1, TypeInit, CoverInit DEF CoverageInv
<1>2. QED BY <1>1, CoverStep, PTL DEF Spec

\* Whatever starts, retries, cancels, crashes and concurrent workers, and issues that are
\* created, deleted, restored, moved or imported anywhere in the order, do meanwhile: of
\* the issues a row's saved progress says are done, no more are missing from the index
\* than shifts and losses explain (search.worker.ts, processReindexProject).
THEOREM ResumeIsSound == Spec => []ResumeSound
<1>1. ASSUME CoverageInv, NEW j \in Rows
      PROVE  Explained({i \in Missing : Rank(i) <= row[j].offset \/ 2 \in row[j].phases})
  <2> DEFINE done == {i \in Missing : Rank(i) <= row[j].offset \/ 2 \in row[j].phases}
  <2>1. /\ TypeOK /\ RowCovered(row[j])
        /\ Slack \in Nat /\ Slack + Cardinality({}) <= Slack /\ {} \in SUBSET Issues
    BY <1>1, CoverTypes, FS_EmptySet DEF CoverageInv, TypeInv, CoverInv
  <2>2. done \in SUBSET Issues
    BY <2>1, CoverTypes
  <2>3. CASE 2 \in row[j].phases
    <3>1. Cardinality(Missing) <= Slack /\ Missing \in SUBSET Issues
      BY <2>1, <2>3, CoverTypes DEF RowCovered, AllCovered
    <3>2. done \subseteq Missing \union {}
      OBVIOUS
    <3> HIDE DEF done
    <3>3. Cardinality(done) <= Slack
      BY <2>1, <2>2, <3>1, <3>2, Grows
    <3>4. QED BY <3>3 DEF Explained, Slack, done
  <2>4. CASE 2 \notin row[j].phases
    <3> DEFINE early == Early(row[j].offset, MaxIssues) \ {}
    <3>1. Cardinality(early) <= Slack /\ early \in SUBSET Issues
      BY <2>1, CoverTypes DEF RowCovered, Covered
    <3>2. done \subseteq early \union {}
      BY <2>4 DEF Early
    <3> HIDE DEF done, early
    <3>3. Cardinality(done) <= Slack
      BY <2>1, <2>2, <3>1, <3>2, Grows
    <3>4. QED BY <3>3 DEF Explained, Slack, done
  <2>5. QED BY <2>3, <2>4
<1>2. CoverageInv => ResumeSound
  BY <1>1 DEF ResumeSound
<1>3. QED BY CoverAlways, <1>2, PTL

\* In the same company a completed reindex misses at most one issue for each issue that
\* left the project or came to it and each document lost (search.worker.ts,
\* processReindexProject): the OFFSET of the batches skips no more than that.
THEOREM CompletedAlwaysCovers == Spec => []CompletedCovers
<1>1. CoverageInv => CompletedCovers
  BY DEF CoverageInv, CoverInv, RowCovered, AllCovered, Slack, Explained, CompletedCovers
<1>2. QED BY CoverAlways, <1>1, PTL
=============================================================================
