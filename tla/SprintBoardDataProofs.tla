------------------------- MODULE SprintBoardDataProofs -------------------------
(***************************************************************************)
(* More proofs about SprintBoard for every value of its constants: what    *)
(* the completion of a sprint, the hand-over, the removal of a column and  *)
(* a reorder guarantee about issues and columns although they read and     *)
(* write in statements of their own.  Each comes from what a call still    *)
(* knows of the tables that no other call has written since it began.      *)
(***************************************************************************)
EXTENDS SprintBoardProofs, FiniteSetTheorems

\* An issue without a column, or in one that the completion of a sprint takes for done.
Closed(i, done) == issue[i].column = NoColumn \/ issue[i].column \in done

\* What a call record remembers of its own request and choices.
Remembers(o) ==
  /\ o.pc \in {"column_refill", "column_remove"} => o.fallback # o.column
  /\ o.pc \in {"complete_done", "complete_find", "complete_move", "complete_save"} =>
       o.other # o.sprint
  /\ o.pc \in {"reorder_check", "reorder_move"} =>
       o.column \in Columns /\ \A i \in o.issues : o.rows[i].column = o.column

\* What it knows of the columns until another call writes one, ...
KnowsColumns(o) ==
  /\ o.pc \in {"column_refill", "column_remove"} => o.fallback \in Live
  /\ o.pc \in {"complete_find", "complete_move", "complete_save"} =>
       \A k \in o.done : column[k] \in Done

\* ... of the issues until another call writes some, ...
KnowsIssues(o) ==
  /\ o.pc = "column_remove" => InColumn(o.column) = {}
  /\ o.pc = "complete_move" => \A i \in InSprint(o.sprint) \ o.issues : Closed(i, o.done)
  /\ o.pc = "complete_save" /\ o.done # {} =>
       \A i \in InSprint(o.sprint) : Closed(i, o.done)
  /\ o.pc = "reorder_move" /\ WipLimit > 0 =>
       Cardinality(InColumn(o.column)) + Cardinality(o.issues \ InColumn(o.column)) <= WipLimit

\* ... and of both.
KnowsBoard(o) == o.pc = "start_handover" => Blockers(o.other) = {}

Known(o) ==
  /\ Remembers(o)
  /\ "columns" \notin o.dirty => KnowsColumns(o)
  /\ "issues" \notin o.dirty => KnowsIssues(o)
  /\ o.dirty \cap {"issues", "columns"} = {} => KnowsBoard(o)

\* The foreign key of issues to their columns.
ColumnRefs == \A i \in Issues : ColumnRef(issue[i].column)

\* The inductive invariant, next to that of SprintBoardProofs.
BoardInv ==
  /\ ColumnRefs
  /\ ColumnRemains
  /\ \A c \in Clients : Known(call[c])

-----------------------------------------------------------------------------
(* The calls that do not step                                              *)

LEMMA NoCallKnown == Known(NoCall) /\ Known(NoCall)'
BY DEF Known, Remembers, KnowsColumns, KnowsIssues, KnowsBoard, NoCall

\* What a record knows it still knows when nothing is written.
LEMMA StillKnown ==
  ASSUME NEW o, Known(o), UNCHANGED <<issue, column>>
  PROVE  Known(o)'
<1>1. /\ \A k : InColumn(k)' = InColumn(k)
      /\ \A s : InSprint(s)' = InSprint(s)
      /\ Live' = Live
  BY DEF InColumn, InSprint, Live, ColumnExists
<1>2. KnowsColumns(o) => KnowsColumns(o)'
  BY <1>1 DEF KnowsColumns
<1>3. KnowsIssues(o) => KnowsIssues(o)'
  BY <1>1 DEF KnowsIssues, Closed
<1>4. KnowsBoard(o) => KnowsBoard(o)'
  BY <1>1 DEF KnowsBoard, Blockers
<1>5. QED BY <1>2, <1>3, <1>4 DEF Known, Remembers

\* ... and a record that is a call's is known by the call.
LEMMA NextRecord ==
  ASSUME NEW o, NEW d \in Clients, o = call'[d], Known(o)'
  PROVE  Known(call[d])'
BY DEF Known, Remembers, KnowsColumns, KnowsIssues, KnowsBoard

\* A call that others step past carries everything but dirty along.
LEMMA DirtiedFields ==
  ASSUME TypeOK, NEW c \in Clients, NEW o \in CallType, NEW tables \in SUBSET Tables,
         NEW d \in Clients \ {c}
  PROVE  LET e == Dirtied(c, tables, o)[d] IN
         /\ e.pc = call[d].pc /\ e.sprint = call[d].sprint /\ e.other = call[d].other
         /\ e.column = call[d].column /\ e.fallback = call[d].fallback
         /\ e.done = call[d].done /\ e.issues = call[d].issues /\ e.rows = call[d].rows
         /\ At(d, "idle") \/ e.dirty = call[d].dirty \cup tables
<1> DEFINE E == [call[d] EXCEPT !.dirty = @ \cup tables]
<1>1. /\ E.pc = call[d].pc /\ E.sprint = call[d].sprint /\ E.other = call[d].other
      /\ E.column = call[d].column /\ E.fallback = call[d].fallback
      /\ E.done = call[d].done /\ E.issues = call[d].issues /\ E.rows = call[d].rows
      /\ E.dirty = call[d].dirty \cup tables
  BY DEF TypeOK, CallType
<1>2. QED BY <1>1 DEF Dirtied

\* Two records that differ in dirty at most remember the same.
LEMMA FieldsRemember ==
  ASSUME NEW o, NEW e, Remembers(o), e.pc = o.pc, e.sprint = o.sprint, e.other = o.other,
         e.column = o.column, e.fallback = o.fallback, e.issues = o.issues, e.rows = o.rows
  PROVE  Remembers(e)
BY DEF Remembers

\* The record o of another call becomes e, and what it knows is still so: the tables that
\* change are in its dirty set, and a new column has no issues yet.
LEMMA OthersKnow ==
  ASSUME TypeOK, ColumnRefs, NEW tables, NEW o \in CallType, NEW e, Known(o),
         e.pc = o.pc, e.sprint = o.sprint, e.other = o.other, e.column = o.column,
         e.fallback = o.fallback, e.done = o.done, e.issues = o.issues, e.rows = o.rows,
         o.pc = "idle" \/ e.dirty = o.dirty \cup tables,
         UNCHANGED issue \/ "issues" \in tables,
         \/ UNCHANGED column
         \/ "columns" \in tables
         \/ \E k \in Columns, kind \in Kinds : /\ column[k] = "none"
                                               /\ column' = [column EXCEPT ![k] = kind]
  PROVE  Known(e)'
<1>1. Remembers(e)
  BY FieldsRemember DEF Known
<1>2. CASE o.pc = "idle"
  BY <1>1, <1>2 DEF Known, Remembers, KnowsColumns, KnowsIssues, KnowsBoard
<1>3. ASSUME "columns" \notin e.dirty, o.pc # "idle" PROVE KnowsColumns(e)'
  <2>1. KnowsColumns(o) /\ "columns" \notin tables
    BY <1>3 DEF Known
  <2>2. CASE UNCHANGED column
    BY <2>1, <2>2 DEF KnowsColumns, Live, ColumnExists
  <2>3. ASSUME NEW k \in Columns, NEW kind \in Kinds, column[k] = "none",
               column' = [column EXCEPT ![k] = kind]
        PROVE  KnowsColumns(e)'
    <3>1. \A j \in Columns : column[j] # "none" => column'[j] = column[j]
      BY <2>3 DEF TypeOK
    <3>2. o.done \subseteq Columns
      BY DEF CallType
    <3>3. QED BY <2>1, <3>1, <3>2 DEF KnowsColumns, Live, ColumnExists, Done
  <2>4. QED BY <2>1, <2>2, <2>3
<1>4. ASSUME "issues" \notin e.dirty, o.pc # "idle" PROVE KnowsIssues(e)'
  <2>1. KnowsIssues(o) /\ UNCHANGED issue
    BY <1>4 DEF Known
  <2>2. QED BY <2>1 DEF KnowsIssues, InColumn, InSprint, Closed
<1>5. ASSUME e.dirty \cap {"issues", "columns"} = {}, o.pc # "idle" PROVE KnowsBoard(e)'
  <2>1. KnowsBoard(o) /\ UNCHANGED issue /\ "columns" \notin tables
    BY <1>5 DEF Known
  <2>2. CASE UNCHANGED column
    BY <2>1, <2>2 DEF KnowsBoard, Blockers, InSprint
  <2>3. ASSUME NEW k \in Columns, NEW kind \in Kinds, column[k] = "none",
               column' = [column EXCEPT ![k] = kind]
        PROVE  KnowsBoard(e)'
    <3>1. \A i \in Issues : issue[i].column # NoColumn =>
            column'[issue[i].column] = column[issue[i].column]
      BY <2>3 DEF TypeOK, ColumnRefs, ColumnRef, ColumnExists
    <3>2. QED BY <2>1, <3>1 DEF KnowsBoard, Blockers, InSprint
  <2>4. QED BY <2>1, <2>2, <2>3
<1>6. CASE o.pc # "idle"
  BY <1>1, <1>3, <1>4, <1>5, <1>6 DEF Known, Remembers
<1>7. QED BY <1>2, <1>6

-----------------------------------------------------------------------------
(* Steps that read, and steps that write                                   *)

\* A step of a call that writes nothing.
LEMMA LookBoard ==
  ASSUME TypeOK, BoardInv, NEW c \in Clients, NEW o, Known(o),
         call' = [call EXCEPT ![c] = o], UNCHANGED <<issue, column, stale>>
  PROVE  BoardInv'
<1>1. ColumnRefs' /\ ColumnRemains'
  BY DEF BoardInv, ColumnRefs, ColumnRef, ColumnExists, ColumnRemains, Live
<1>2. ASSUME NEW d \in Clients PROVE Known(call[d])'
  <2>1. PICK e : e = call'[d]
    OBVIOUS
  <2>2. Known(call'[d])
    BY DEF BoardInv, TypeOK
  <2>3. Known(e)
    BY <2>1, <2>2 DEF Known, Remembers, KnowsColumns, KnowsIssues, KnowsBoard
  <2>4. QED BY <2>1, <2>3, StillKnown, NextRecord
<1>3. QED BY <1>1, <1>2 DEF BoardInv

\* A step that writes tables.
LEMMA WriteBoard ==
  ASSUME TypeOK, BoardInv, NEW c \in Clients, NEW o \in CallType, NEW tables \in SUBSET Tables,
         call' = Dirtied(c, tables, o), Known(o)',
         UNCHANGED issue \/ "issues" \in tables,
         \/ UNCHANGED column
         \/ "columns" \in tables
         \/ \E k \in Columns, kind \in Kinds : /\ column[k] = "none"
                                               /\ column' = [column EXCEPT ![k] = kind],
         ColumnRefs', ColumnRemains'
  PROVE  BoardInv'
<1>1. ASSUME NEW d \in Clients \ {c} PROVE Known(call[d])'
  <2>1. PICK r \in CallType : r = call[d]
    BY DEF TypeOK
  <2>2. PICK e : e = call'[d]
    OBVIOUS
  <2>3. /\ e.pc = r.pc /\ e.sprint = r.sprint /\ e.other = r.other /\ e.column = r.column
        /\ e.fallback = r.fallback /\ e.done = r.done /\ e.issues = r.issues
        /\ e.rows = r.rows /\ (r.pc = "idle" \/ e.dirty = r.dirty \cup tables)
    BY <2>1, <2>2, DirtiedFields DEF At
  <2>4. Known(r)
    BY <2>1 DEF BoardInv, Known, Remembers, KnowsColumns, KnowsIssues, KnowsBoard
  <2>5. Known(e)'
    BY <2>3, <2>4, OthersKnow DEF BoardInv
  <2>6. QED BY <2>2, <2>5, NextRecord
<1>2. Known(call[c])'
  <2>1. call'[c] = o
    BY DirtiedCalls
  <2>2. QED BY <2>1, NextRecord
<1>3. QED BY <1>1, <1>2 DEF BoardInv

LEMMA BeginBoard ==
  ASSUME Inv, BoardInv, NEW c \in Clients, NEW o, Known(o), Begin(c, o) \/ Go(c, o)
  PROVE  BoardInv'
BY LookBoard DEF Begin, Go, Inv

LEMMA RejectBoard ==
  ASSUME Inv, BoardInv, NEW c \in Clients, Reject(c)
  PROVE  BoardInv'
BY BeginBoard, NoCallKnown DEF Reject

\* What the issues refer to after a step that writes no column.
LEMMA SameRefs ==
  ASSUME ColumnRefs, UNCHANGED column, NEW i \in Issues,
         issue'[i].column = issue[i].column \/ ColumnRef(issue'[i].column)
  PROVE  ColumnRef(issue[i].column)'
BY DEF ColumnRefs, ColumnRef, ColumnExists

\* A write to sprints and issues.
LEMMA IssueWriteBoard ==
  ASSUME Inv, BoardInv, NEW c \in Clients, NEW o \in CallType, NEW tables \in SUBSET Tables,
         Write(c, tables, o) \/ (WriteOnce(c, tables) /\ o = NoCall), Known(o)',
         UNCHANGED issue \/ "issues" \in tables, UNCHANGED column,
         \A i \in Issues : issue'[i].column = issue[i].column \/ ColumnRef(issue'[i].column)
  PROVE  BoardInv'
<1>1. ColumnRefs'
  BY SameRefs DEF BoardInv, ColumnRefs
<1>2. stale \subseteq stale' /\ call' = Dirtied(c, tables, o)
  BY DEF Write, WriteOnce
<1>3. ColumnRemains'
  BY <1>2 DEF BoardInv, ColumnRemains, Live, ColumnExists
<1>4. QED BY <1>1, <1>2, <1>3, WriteBoard DEF Inv

-----------------------------------------------------------------------------
(* The calls of SprintsService                                             *)

LEMMA SprintLoadsBoard ==
  ASSUME Inv, BoardInv, NEW c \in Clients, NEW s \in Sprints,
         \/ UpdateLoad(c, s) \/ StartLoad(c, s) \/ DeleteLoad(c, s)
         \/ \E t \in Sprints \cup {NoSprint} : CompleteLoad(c, s, t)
  PROVE  BoardInv'
<1>1. CASE UpdateLoad(c, s)
  <2> DEFINE o == [NoCall EXCEPT !.pc = "update_save", !.sprint = s, !.row = sprint[s]]
  <2>1. o.pc = "update_save"
    BY DEF NoCall
  <2>2. Known(o)
    BY <2>1 DEF Known, Remembers, KnowsColumns, KnowsIssues, KnowsBoard
  <2>3. QED BY <1>1, <2>2, BeginBoard DEF UpdateLoad
<1>2. CASE StartLoad(c, s)
  <2> DEFINE o == [NoCall EXCEPT !.pc = "start_find", !.sprint = s, !.row = sprint[s]]
  <2>1. o.pc = "start_find"
    BY DEF NoCall
  <2>2. Known(o)
    BY <2>1 DEF Known, Remembers, KnowsColumns, KnowsIssues, KnowsBoard
  <2>3. QED BY <1>2, <2>2, BeginBoard DEF StartLoad
<1>3. CASE DeleteLoad(c, s)
  <2> DEFINE o == [NoCall EXCEPT !.pc = "delete_unassign", !.sprint = s]
  <2>1. o.pc = "delete_unassign"
    BY DEF NoCall
  <2>2. Known(o)
    BY <2>1 DEF Known, Remembers, KnowsColumns, KnowsIssues, KnowsBoard
  <2>3. QED BY <1>3, <2>2, BeginBoard DEF DeleteLoad
<1>4. ASSUME NEW t \in Sprints \cup {NoSprint}, CompleteLoad(c, s, t) PROVE BoardInv'
  <2> DEFINE o == [NoCall EXCEPT !.pc = "complete_target", !.sprint = s, !.other = t,
                                 !.row = sprint[s]]
  <2>1. o.pc = "complete_target"
    BY DEF NoCall
  <2>2. Known(o)
    BY <2>1 DEF Known, Remembers, KnowsColumns, KnowsIssues, KnowsBoard
  <2>3. QED BY <1>4, <2>2, BeginBoard DEF CompleteLoad
<1>5. QED BY <1>1, <1>2, <1>3, <1>4

LEMMA StartLooksBoard ==
  ASSUME Inv, BoardInv, NEW c \in Clients, StartFind(c) \/ StartCount(c)
  PROVE  BoardInv'
<1>0. call[c] \in CallType
  BY DEF Inv, TypeOK
<1>1. CASE StartFind(c)
  <2>1. CASE GoTo(c, "start_save")
    <3> DEFINE o == [call[c] EXCEPT !.pc = "start_save"]
    <3>1. o.pc = "start_save"
      BY <1>0 DEF CallType
    <3>2. Known(o)
      BY <3>1 DEF Known, Remembers, KnowsColumns, KnowsIssues, KnowsBoard
    <3>3. QED BY <2>1, <3>2, BeginBoard DEF GoTo
  <2>2. ASSUME NEW a \in Active, Go(c, [call[c] EXCEPT !.pc = "start_count", !.other = a])
        PROVE  BoardInv'
    <3> DEFINE o == [call[c] EXCEPT !.pc = "start_count", !.other = a]
    <3>1. o.pc = "start_count"
      BY <1>0 DEF CallType
    <3>2. Known(o)
      BY <3>1 DEF Known, Remembers, KnowsColumns, KnowsIssues, KnowsBoard
    <3>3. QED BY <2>2, <3>2, BeginBoard
  <2>3. QED BY <1>1, <2>1, <2>2, RejectBoard DEF StartFind
<1>2. CASE StartCount(c) /\ ~Reject(c)
  <2> DEFINE o == [call[c] EXCEPT !.pc = "start_handover"]
  <2>1. Go(c, o) /\ Blockers(call[c].other) = {}
    BY <1>2 DEF StartCount, GoTo
  <2>2. o.pc = "start_handover" /\ o.other = call[c].other
    BY <1>0 DEF CallType
  <2>3. Known(o)
    BY <2>1, <2>2 DEF Known, Remembers, KnowsColumns, KnowsIssues, KnowsBoard
  <2>4. QED BY <2>1, <2>3, BeginBoard
<1>3. QED BY <1>1, <1>2, RejectBoard

LEMMA CompleteLooksBoard ==
  ASSUME Inv, BoardInv, NEW c \in Clients,
         CompleteTarget(c) \/ CompleteDone(c) \/ CompleteFind(c)
  PROVE  BoardInv'
<1>0. call[c] \in CallType /\ Known(call[c]) /\ Sound(call[c])
  BY DEF Inv, TypeOK, BoardInv
<1>1. CASE CompleteTarget(c) /\ ~Reject(c)
  <2> DEFINE o == [call[c] EXCEPT !.pc = "complete_done"]
  <2>1. Go(c, o) /\ (call[c].other = NoSprint \/ call[c].other # call[c].sprint)
    BY <1>1 DEF CompleteTarget, GoTo
  <2>2. call[c].sprint \in Sprints
    BY <1>0, <1>1 DEF CompleteTarget, At, Sound, Names
  <2>3. o.pc = "complete_done" /\ o.other # o.sprint
    BY <1>0, <2>1, <2>2, ConstantsAssumption DEF CallType
  <2>4. Known(o)
    BY <2>3 DEF Known, Remembers, KnowsColumns, KnowsIssues, KnowsBoard
  <2>5. QED BY <2>1, <2>4, BeginBoard
<1>2. CASE CompleteDone(c)
  <2> DEFINE done == {k \in Columns : column[k] \in Done}
             pc == IF done = {} THEN "complete_save" ELSE "complete_find"
             o == [call[c] EXCEPT !.pc = pc, !.done = done]
  <2>1. Go(c, o)
    BY <1>2 DEF CompleteDone
  <2>2. o.pc = pc /\ o.other = call[c].other /\ o.sprint = call[c].sprint /\ o.done = done
    BY <1>0 DEF CallType
  <2>3. o.other # o.sprint
    BY <1>0, <1>2, <2>2 DEF CompleteDone, At, Known, Remembers
  <2>4. /\ \A k \in o.done : column[k] \in Done
        /\ o.pc \in {"complete_save", "complete_find"}
        /\ o.pc = "complete_save" => o.done = {}
    BY <2>2
  <2> HIDE DEF o
  <2>5. Known(o)
    BY <2>3, <2>4 DEF Known, Remembers, KnowsColumns, KnowsIssues, KnowsBoard
  <2>6. QED BY <2>1, <2>5, BeginBoard
<1>3. CASE CompleteFind(c)
  <2> DEFINE open == {i \in InSprint(call[c].sprint) :
                        issue[i].column # NoColumn /\ issue[i].column \notin call[c].done}
             pc == IF open = {} THEN "complete_save" ELSE "complete_move"
             o == [call[c] EXCEPT !.pc = pc, !.issues = open]
  <2>1. Go(c, o)
    BY <1>3 DEF CompleteFind
  <2>2. /\ o.pc = pc /\ o.other = call[c].other /\ o.sprint = call[c].sprint
        /\ o.done = call[c].done /\ o.issues = open /\ o.dirty = call[c].dirty
    BY <1>0 DEF CallType
  <2>3. /\ o.other # o.sprint
        /\ "columns" \notin o.dirty => \A k \in o.done : column[k] \in Done
    BY <1>0, <1>3, <2>2 DEF CompleteFind, At, Known, Remembers, KnowsColumns
  <2>4. \A i \in InSprint(o.sprint) \ o.issues : Closed(i, o.done)
    BY <2>2 DEF Closed, InSprint
  <2>5. /\ o.pc \in {"complete_save", "complete_move"}
        /\ o.pc = "complete_save" => o.issues = {}
    BY <2>2
  <2> HIDE DEF o
  <2>6. Known(o)
    BY <2>3, <2>4, <2>5 DEF Known, Remembers, KnowsColumns, KnowsIssues, KnowsBoard
  <2>7. QED BY <2>1, <2>6, BeginBoard
<1>4. QED BY <1>1, <1>2, <1>3, RejectBoard

LEMMA SprintWritesBoard ==
  ASSUME Inv, BoardInv, NEW c \in Clients,
         \/ \E s \in Sprints : CreateSprint(c, s)
         \/ UpdateSave(c) \/ StartHandOver(c) \/ StartSave(c) \/ CompleteSave(c)
  PROVE  BoardInv'
<1>1. NoCall \in CallType /\ Known(NoCall)' /\ {} \in SUBSET Tables
  BY NoCallSoundNext, NoCallKnown
<1>2. {"sprints"} \in SUBSET Tables
  BY DEF Tables
<1>3. ASSUME Write(c, {"sprints"}, NoCall), UNCHANGED <<issue, column>> PROVE BoardInv'
  BY <1>1, <1>2, <1>3, IssueWriteBoard
<1>4. ASSUME NEW s \in Sprints, CreateSprint(c, s) PROVE BoardInv'
  BY <1>1, <1>4, IssueWriteBoard DEF CreateSprint
<1>5. CASE StartHandOver(c)
  BY <1>3, <1>5, RejectBoard DEF StartHandOver
<1>6. CASE UpdateSave(c) \/ StartSave(c) \/ CompleteSave(c)
  BY <1>3, <1>6 DEF UpdateSave, StartSave, CompleteSave
<1>7. QED BY <1>4, <1>5, <1>6

\* The issues found leave the sprint: those that stay are closed.
LEMMA CompleteMoveBoard ==
  ASSUME Inv, BoardInv, NEW c \in Clients, CompleteMove(c)
  PROVE  BoardInv'
<1>0. /\ call[c] \in CallType /\ Known(call[c]) /\ issue \in [Issues -> IssueType]
      /\ {"issues"} \in SUBSET Tables
  BY DEF Inv, TypeOK, BoardInv, Tables
<1>1. CASE ~Reject(c)
  <2>1. PICK o \in CallType : o = [call[c] EXCEPT !.pc = "complete_save"]
    BY <1>0, <1>1 DEF CallType
  <2>2. /\ o.pc = "complete_save" /\ o.other = call[c].other /\ o.sprint = call[c].sprint
        /\ o.done = call[c].done /\ o.issues = call[c].issues /\ o.dirty = call[c].dirty
    BY <1>0, <2>1 DEF CallType
  <2>3. /\ Write(c, {"issues"}, o) /\ UNCHANGED <<sprint, column>>
        /\ issue' = [i \in Issues |-> IF i \in o.issues
                                        THEN [issue[i] EXCEPT !.sprint = o.other]
                                        ELSE issue[i]]
    BY <1>1, <2>1, <2>2 DEF CompleteMove
  <2>4. \A i \in Issues : /\ issue'[i].column = issue[i].column
                          /\ i \in o.issues => issue'[i].sprint = o.other
                          /\ i \notin o.issues => issue'[i].sprint = issue[i].sprint
    BY <1>0, <2>3 DEF IssueType
  <2>5. /\ o.other # o.sprint
        /\ "columns" \notin o.dirty => \A k \in o.done : column[k] \in Done
        /\ "issues" \notin o.dirty => \A i \in InSprint(o.sprint) \ o.issues : Closed(i, o.done)
    BY <1>0, <2>2 DEF CompleteMove, At, Known, Remembers, KnowsColumns, KnowsIssues
  <2>6. "issues" \notin o.dirty => \A i \in InSprint(o.sprint)' : Closed(i, o.done)'
    BY <2>4, <2>5 DEF InSprint, Closed
  <2>7. Known(o)'
    BY <2>2, <2>3, <2>5, <2>6 DEF Known, Remembers, KnowsColumns, KnowsIssues, KnowsBoard
  <2>8. QED BY <1>0, <2>3, <2>4, <2>7, IssueWriteBoard
<1>2. QED BY <1>1, RejectBoard

LEMMA DeleteBoard ==
  ASSUME Inv, BoardInv, NEW c \in Clients, DeleteUnassign(c) \/ DeleteRemove(c)
  PROVE  BoardInv'
<1>0. /\ call[c] \in CallType /\ issue \in [Issues -> IssueType]
      /\ {"issues"} \in SUBSET Tables /\ {"sprints", "issues"} \in SUBSET Tables
      /\ NoCall \in CallType /\ Known(NoCall)'
  BY NoCallSoundNext, NoCallKnown DEF Inv, TypeOK, Tables
<1>1. issue' = Unassigned(call[c].sprint) /\ UNCHANGED column
  BY DEF DeleteUnassign, DeleteRemove
<1>2. \A i \in Issues : issue'[i].column = issue[i].column
  BY <1>0, <1>1 DEF Unassigned, IssueType
<1>3. CASE DeleteUnassign(c)
  <2>1. PICK o \in CallType : o = [call[c] EXCEPT !.pc = "delete_remove"]
    BY <1>0 DEF CallType
  <2>2. o.pc = "delete_remove"
    BY <1>0, <2>1 DEF CallType
  <2>3. Known(o)'
    BY <2>2 DEF Known, Remembers, KnowsColumns, KnowsIssues, KnowsBoard
  <2>4. QED BY <1>0, <1>1, <1>2, <1>3, <2>1, <2>3, IssueWriteBoard DEF DeleteUnassign
<1>4. CASE DeleteRemove(c)
  BY <1>0, <1>1, <1>2, <1>4, IssueWriteBoard DEF DeleteRemove
<1>5. QED BY <1>3, <1>4

-----------------------------------------------------------------------------
(* The calls of BoardsService and IssuesService                            *)

LEMMA ColumnLooksBoard ==
  ASSUME Inv, BoardInv, NEW c \in Clients,
         \/ \E k \in Columns : ColumnLoad(c, k) \/ ColumnRemoveLoad(c, k)
         \/ ColumnList(c)
  PROVE  BoardInv'
<1>0. call[c] \in CallType
  BY DEF Inv, TypeOK
<1>1. ASSUME NEW k \in Columns, NEW pc \in {"column_save", "column_list"},
             Begin(c, [NoCall EXCEPT !.pc = pc, !.column = k])
      PROVE  BoardInv'
  <2> DEFINE o == [NoCall EXCEPT !.pc = pc, !.column = k]
  <2>1. o.pc = pc
    BY DEF NoCall
  <2>2. Known(o)
    BY <2>1 DEF Known, Remembers, KnowsColumns, KnowsIssues, KnowsBoard
  <2>3. QED BY <1>1, <2>2, BeginBoard
<1>2. ASSUME NEW k \in Live \ {call[c].column},
             Go(c, [call[c] EXCEPT !.pc = "column_refill", !.fallback = k])
      PROVE  BoardInv'
  <2> DEFINE o == [call[c] EXCEPT !.pc = "column_refill", !.fallback = k]
  <2>1. o.pc = "column_refill" /\ o.fallback = k /\ o.column = call[c].column
    BY <1>0 DEF CallType
  <2>2. Known(o)
    BY <2>1 DEF Known, Remembers, KnowsColumns, KnowsIssues, KnowsBoard
  <2>3. QED BY <1>2, <2>2, BeginBoard
<1>3. CASE ColumnList(c)
  BY <1>2, <1>3, RejectBoard DEF ColumnList
<1>4. QED BY <1>1, <1>3 DEF ColumnLoad, ColumnRemoveLoad

\* A new column has no issues, and a saved one exists.
LEMMA ColumnAddsBoard ==
  ASSUME Inv, BoardInv, NEW c \in Clients,
         \/ \E k \in Columns, kind \in Kinds : AddColumn(c, k, kind)
         \/ ColumnSave(c)
  PROVE  BoardInv'
<1>0. /\ column \in [Columns -> Kinds \cup {"none"}]
      /\ {} \in SUBSET Tables /\ {"columns"} \in SUBSET Tables
      /\ NoCall \in CallType /\ Known(NoCall)' /\ TypeOK
  BY NoCallSoundNext, NoCallKnown DEF Inv, TypeOK, Tables
<1>1. ASSUME NEW k, NEW kind \in Kinds, column' = [column EXCEPT ![k] = kind], UNCHANGED issue,
             stale \subseteq stale'
      PROVE  ColumnRefs' /\ ColumnRemains'
  <2>1. \A j \in Columns : column[j] # "none" => column'[j] # "none"
    BY <1>0, <1>1 DEF Kinds, Done, Blocking
  <2>2. ColumnRefs'
    BY <1>1, <2>1 DEF BoardInv, ColumnRefs, ColumnRef, ColumnExists
  <2>3. ColumnRemains'
    BY <1>1, <2>1 DEF BoardInv, ColumnRemains, Live, ColumnExists
  <2>4. QED BY <2>2, <2>3
<1>2. ASSUME NEW k \in Columns, NEW kind \in Kinds, AddColumn(c, k, kind) PROVE BoardInv'
  <2>1. /\ column' = [column EXCEPT ![k] = kind] /\ column[k] = "none"
        /\ UNCHANGED issue /\ call' = Dirtied(c, {}, NoCall) /\ stale \subseteq stale'
    BY <1>2 DEF AddColumn, ColumnExists, WriteOnce
  <2>2. QED BY <1>0, <1>1, <2>1, WriteBoard
<1>3. ASSUME NEW kind \in Kinds, column' = [column EXCEPT ![call[c].column] = kind],
             ColumnSave(c)
      PROVE  BoardInv'
  <2>1. UNCHANGED issue /\ call' = Dirtied(c, {"columns"}, NoCall) /\ stale \subseteq stale'
    BY <1>3 DEF ColumnSave, Write
  <2>2. QED BY <1>0, <1>1, <1>3, <2>1, WriteBoard
<1>4. QED BY <1>2, <1>3 DEF ColumnSave

\* The issues of the column go to another one.
LEMMA ColumnRefillBoard ==
  ASSUME Inv, BoardInv, NEW c \in Clients, ColumnRefill(c)
  PROVE  BoardInv'
<1>0. /\ call[c] \in CallType /\ Known(call[c]) /\ issue \in [Issues -> IssueType]
      /\ {"issues"} \in SUBSET Tables
  BY DEF Inv, TypeOK, BoardInv, Tables
<1>1. CASE ~Reject(c)
  <2>1. PICK o \in CallType : o = [call[c] EXCEPT !.pc = "column_remove"]
    BY <1>0, <1>1 DEF CallType
  <2>2. /\ o.pc = "column_remove" /\ o.column = call[c].column
        /\ o.fallback = call[c].fallback /\ o.dirty = call[c].dirty
    BY <1>0, <2>1 DEF CallType
  <2>3. /\ InColumn(o.column) = {} \/ ColumnRef(o.fallback)
        /\ Write(c, {"issues"}, o) /\ UNCHANGED <<sprint, column>>
        /\ issue' = [i \in Issues |-> IF i \in InColumn(o.column)
                                        THEN [issue[i] EXCEPT !.column = o.fallback]
                                        ELSE issue[i]]
    BY <1>1, <2>1, <2>2 DEF ColumnRefill
  <2>4. \A i \in Issues :
          /\ issue[i].column = o.column => issue'[i].column = o.fallback
          /\ issue[i].column # o.column => issue'[i].column = issue[i].column
    BY <1>0, <2>3 DEF IssueType, InColumn
  <2>5. /\ o.fallback # o.column
        /\ "columns" \notin o.dirty => o.fallback \in Live
    BY <1>0, <2>2 DEF ColumnRefill, At, Known, Remembers, KnowsColumns
  <2>6. InColumn(o.column)' = {}
    BY <2>4, <2>5 DEF InColumn
  <2>7. Known(o)'
    BY <2>2, <2>3, <2>5, <2>6
       DEF Known, Remembers, KnowsColumns, KnowsIssues, KnowsBoard, Live, ColumnExists
  <2>8. \A i \in Issues : issue'[i].column = issue[i].column \/ ColumnRef(issue'[i].column)
    BY <2>3, <2>4 DEF InColumn
  <2>9. QED BY <1>0, <2>3, <2>7, <2>8, IssueWriteBoard
<1>2. QED BY <1>1, RejectBoard

\* The column found as fallback remains.
LEMMA ColumnRemoveBoard ==
  ASSUME Inv, BoardInv, NEW c \in Clients, ColumnRemove(c)
  PROVE  BoardInv'
<1>0. /\ call[c] \in CallType /\ Known(call[c]) /\ issue \in [Issues -> IssueType]
      /\ column \in [Columns -> Kinds \cup {"none"}] /\ TypeOK
      /\ {"columns", "issues"} \in SUBSET Tables
      /\ NoCall \in CallType /\ Known(NoCall)'
  BY NoCallSoundNext, NoCallKnown DEF Inv, TypeOK, BoardInv, Tables
<1> DEFINE k == call[c].column
<1>1. /\ column' = [column EXCEPT ![k] = "none"]
      /\ call' = Dirtied(c, {"columns", "issues"}, NoCall)
      /\ stale' = stale \cup ({"columns", "issues"} \cap call[c].dirty)
  BY DEF ColumnRemove, Write
<1>2. /\ \A i \in Issues :
           issue'[i].column = IF issue[i].column = k THEN NoColumn ELSE issue[i].column
      /\ \A j \in Columns : j # k => column'[j] = column[j]
  BY <1>0, <1>1 DEF ColumnRemove, IssueType
<1>3. ColumnRefs'
  BY <1>2 DEF BoardInv, ColumnRefs, ColumnRef, ColumnExists
<1>4. ColumnRemains'
  <2>1. CASE "columns" \in call[c].dirty
    BY <1>1, <2>1 DEF ColumnRemains
  <2>2. CASE "columns" \notin call[c].dirty
    <3>1. call[c].fallback \in Live /\ call[c].fallback # k
      BY <1>0, <2>2 DEF ColumnRemove, At, Known, Remembers, KnowsColumns
    <3>2. QED BY <1>2, <3>1 DEF ColumnRemains, Live, ColumnExists
  <2>3. QED BY <2>1, <2>2
<1>5. QED BY <1>0, <1>1, <1>3, <1>4, WriteBoard

LEMMA IssueLooksBoard ==
  ASSUME Inv, BoardInv, NEW c \in Clients,
         \/ \E moved \in SUBSET Issues, k \in Columns, t \in Sprints \cup {NoSprint, Keep} :
              ReorderLoad(c, moved, k, t)
         \/ \E i \in Issues, k \in Columns \cup {NoColumn, Keep},
              t \in Sprints \cup {NoSprint, Keep} : IssueLoad(c, i, k, t)
         \/ ReorderCheck(c)
  PROVE  BoardInv'
<1>0. call[c] \in CallType /\ Known(call[c])
  BY DEF Inv, TypeOK, BoardInv
<1>1. ASSUME NEW moved \in SUBSET Issues, NEW k \in Columns,
             NEW t \in Sprints \cup {NoSprint, Keep}, ReorderLoad(c, moved, k, t)
      PROVE  BoardInv'
  <2> DEFINE o == [NoCall EXCEPT !.pc = "reorder_check", !.issues = moved, !.column = k,
                                 !.sprint = t, !.rows = Rows(moved, k, t)]
  <2>1. o.pc = "reorder_check" /\ o.issues = moved /\ o.column = k /\ o.rows = Rows(moved, k, t)
    BY DEF NoCall
  <2>2. \A i \in moved : Rows(moved, k, t)[i].column = k
    BY ConstantsAssumption DEF Rows, Chosen
  <2>3. Known(o)
    BY <2>1, <2>2 DEF Known, Remembers, KnowsColumns, KnowsIssues, KnowsBoard
  <2>4. QED BY <1>1, <2>3, BeginBoard DEF ReorderLoad
<1>2. ASSUME NEW i \in Issues, NEW k, NEW t, IssueLoad(c, i, k, t) PROVE BoardInv'
  <2> DEFINE o == [NoCall EXCEPT !.pc = "issue_save", !.issues = {i}, !.rows = Rows({i}, k, t)]
  <2>1. o.pc = "issue_save"
    BY DEF NoCall
  <2>2. Known(o)
    BY <2>1 DEF Known, Remembers, KnowsColumns, KnowsIssues, KnowsBoard
  <2>3. QED BY <1>2, <2>2, BeginBoard DEF IssueLoad
<1>3. CASE ReorderCheck(c) /\ ~Reject(c)
  <2> DEFINE o == [call[c] EXCEPT !.pc = "reorder_move", !.sprint = NoSprint]
  <2>1. /\ Go(c, o)
        /\ WipLimit > 0 =>
             Cardinality(InColumn(call[c].column))
               + Cardinality(call[c].issues \ InColumn(call[c].column)) <= WipLimit
    BY <1>3 DEF ReorderCheck
  <2>2. /\ o.pc = "reorder_move" /\ o.issues = call[c].issues /\ o.column = call[c].column
        /\ o.rows = call[c].rows
    BY <1>0 DEF CallType
  <2>3. o.column \in Columns /\ \A i \in o.issues : o.rows[i].column = o.column
    BY <1>0, <1>3, <2>2 DEF ReorderCheck, At, Known, Remembers
  <2> HIDE DEF o
  <2>4. Known(o)
    BY <2>1, <2>2, <2>3 DEF Known, Remembers, KnowsColumns, KnowsIssues, KnowsBoard
  <2>5. QED BY <2>1, <2>4, BeginBoard
<1>4. QED BY <1>1, <1>2, <1>3, RejectBoard

LEMMA IssueWritesBoard ==
  ASSUME Inv, BoardInv, NEW c \in Clients,
         \/ ReorderMove(c) \/ IssueSave(c)
         \/ \E moved \in SUBSET Issues :
              \/ \E t \in Sprints \cup {NoSprint} : BulkSprint(c, moved, t)
              \/ \E k \in Columns \cup {NoColumn} : BulkColumn(c, moved, k)
  PROVE  BoardInv'
<1>0. /\ call[c] \in CallType /\ issue \in [Issues -> IssueType]
      /\ {"issues"} \in SUBSET Tables /\ NoCall \in CallType /\ Known(NoCall)'
  BY NoCallSoundNext, NoCallKnown DEF Inv, TypeOK, Tables
<1>1. CASE SaveRows(c) /\ ~Reject(c)
  <2>1. \A i \in Issues : issue'[i].column = issue[i].column \/ ColumnRef(issue'[i].column)
    BY <1>1 DEF SaveRows
  <2>2. QED BY <1>0, <1>1, <2>1, IssueWriteBoard DEF SaveRows
<1>2. ASSUME NEW moved \in SUBSET Issues, NEW t, BulkSprint(c, moved, t) PROVE BoardInv'
  <2>1. \A i \in Issues : issue'[i].column = issue[i].column
    BY <1>0, <1>2 DEF BulkSprint, IssueType
  <2>2. QED BY <1>0, <1>2, <2>1, IssueWriteBoard DEF BulkSprint
<1>3. ASSUME NEW moved \in SUBSET Issues, NEW k, BulkColumn(c, moved, k) PROVE BoardInv'
  <2>1. \A i \in Issues : issue'[i].column = issue[i].column \/ ColumnRef(issue'[i].column)
    BY <1>0, <1>3 DEF BulkColumn, IssueType
  <2>2. QED BY <1>0, <1>3, <2>1, IssueWriteBoard DEF BulkColumn
<1>4. QED BY <1>1, <1>2, <1>3, RejectBoard DEF ReorderMove, IssueSave

-----------------------------------------------------------------------------
(* The invariant                                                           *)

LEMMA BoardInvInit == Init => BoardInv
<1> SUFFICES ASSUME Init PROVE BoardInv
  OBVIOUS
<1>1. ColumnRefs /\ ColumnRemains
  BY DEF Init, ColumnRefs, ColumnRef, Live, ColumnRemains
<1>2. \A c \in Clients : Known(call[c])
  BY NoCallKnown DEF Init
<1>3. QED BY <1>1, <1>2 DEF BoardInv

\* The steps of a client, by the lemma they come under.
LEMMA StepBoard ==
  ASSUME Inv, BoardInv, NEW c \in Clients,
         SprintStep(c) \/ ColumnStep(c) \/ IssueStep(c) \/ CallFails(c)
  PROVE  BoardInv'
<1>1. CASE SprintStep(c)
  BY <1>1, SprintLoadsBoard, StartLooksBoard, CompleteLooksBoard, SprintWritesBoard,
     CompleteMoveBoard, DeleteBoard DEF SprintStep
<1>2. CASE ColumnStep(c)
  BY <1>2, ColumnLooksBoard, ColumnAddsBoard, ColumnRefillBoard, ColumnRemoveBoard
     DEF ColumnStep
<1>3. CASE IssueStep(c)
  BY <1>3, IssueLooksBoard, IssueWritesBoard DEF IssueStep
<1>4. CASE CallFails(c)
  BY <1>4, RejectBoard DEF CallFails
<1>5. QED BY <1>1, <1>2, <1>3, <1>4

\* The migration writes sprints alone, of which nothing is known.
LEMMA MigrationBoard ==
  ASSUME Inv, BoardInv, NEW c \in Clients, MigrationStep(c)
  PROVE  BoardInv'
<1>1. WriteOnce(c, {"sprints"}) /\ UNCHANGED <<issue, column>>
  BY DEF MigrationStep, ImportSprint
<1>2. {"sprints"} \in SUBSET Tables /\ NoCall \in CallType /\ Known(NoCall)'
  BY NoCallSoundNext, NoCallKnown DEF Tables
<1>3. QED BY <1>1, <1>2, IssueWriteBoard

LEMMA BoardInvNext == Inv /\ BoardInv /\ [Next]_vars => BoardInv'
<1>1. ASSUME Inv, BoardInv, UNCHANGED vars PROVE BoardInv'
  <2>1. ColumnRefs' /\ ColumnRemains'
    BY <1>1 DEF vars, BoardInv, ColumnRefs, ColumnRef, ColumnExists, ColumnRemains, Live
  <2>2. ASSUME NEW c \in Clients PROVE Known(call[c])'
    <3>1. PICK o : o = call[c]
      OBVIOUS
    <3>2. Known(o)
      BY <1>1, <3>1 DEF BoardInv, Known, Remembers, KnowsColumns, KnowsIssues, KnowsBoard
    <3>3. QED BY <1>1, <3>1, <3>2, StillKnown, NextRecord DEF vars
  <2>3. QED BY <2>1, <2>2 DEF BoardInv
<1>2. QED BY <1>1, StepBoard, MigrationBoard DEF Next, CallStep

LEMMA BoardInvAlways == Spec => [](Inv /\ BoardInv)
BY InvInit, InvNext, BoardInvInit, BoardInvNext, PTL DEF Spec

\* A board keeps a column unless two calls change columns at once: the fallback that the
\* removal of a column has found is there until another call writes a column
\* (boards.service.ts:286-319).
THEOREM ColumnRemainsAlways == Spec => []ColumnRemains
<1>1. BoardInv => ColumnRemains
  BY DEF BoardInv
<1>2. QED BY <1>1, BoardInvAlways, PTL

-----------------------------------------------------------------------------
(* What the calls guarantee when they write                                *)

\* The completion of a sprint that nobody has disturbed leaves nothing open in it
\* (sprints.service.ts:285-352).
THEOREM CompletionMovesAll == Spec => NothingOpenLeft
<1>1. ASSUME Inv, BoardInv, NEW c \in Clients, At(c, "complete_save"),
             Undisturbed(c, {"issues", "columns"}), call[c].done # {},
             NEW i \in InSprint(call[c].sprint)
      PROVE  issue[i].column = NoColumn \/ column[issue[i].column] \in Done
  <2>1. Known(call[c]) /\ "issues" \notin call[c].dirty /\ "columns" \notin call[c].dirty
    BY <1>1 DEF BoardInv, Undisturbed
  <2>2. Closed(i, call[c].done) /\ \A k \in call[c].done : column[k] \in Done
    BY <1>1, <2>1 DEF At, Known, KnowsColumns, KnowsIssues
  <2>3. QED BY <2>2 DEF Closed
<1>2. Inv /\ BoardInv =>
        \A c \in Clients :
          /\ Leaves(c, "complete_save") /\ sprint' # sprint
          /\ Undisturbed(c, {"issues", "columns"}) /\ call[c].done # {}
          => \A i \in InSprint(call[c].sprint) :
               issue[i].column = NoColumn \/ column[issue[i].column] \in Done
  BY <1>1 DEF Leaves
<1>3. QED BY <1>2, BoardInvAlways, PTL DEF NothingOpenLeft

\* A hand-over that nobody has disturbed finds no blocking issue in the sprint it closes,
\* although it counted them before it took its locks (sprints.service.ts:107-137, 220-259).
THEOREM HandOverUnblocked == Spec => BlockersHoldHandOver
<1>1. Inv /\ BoardInv =>
        \A c \in Clients :
          /\ Leaves(c, "start_handover") /\ sprint' # sprint
          /\ Undisturbed(c, {"issues", "columns"})
          => Blockers(call[c].other) = {}
  BY DEF BoardInv, Known, KnowsBoard, Leaves, At, Undisturbed
<1>2. QED BY <1>1, BoardInvAlways, PTL DEF BlockersHoldHandOver

\* The statement of a call that somebody else steps past stays its next.
LEMMA OthersStay ==
  ASSUME TypeOK, NEW c \in Clients, NEW d \in Clients \ {c},
         \/ \E o : call' = [call EXCEPT ![c] = o]
         \/ \E o, tables : call' = Dirtied(c, tables, o)
  PROVE  call'[d].pc = call[d].pc
<1>1. ASSUME NEW tables PROVE [call[d] EXCEPT !.dirty = @ \cup tables].pc = call[d].pc
  BY DEF TypeOK, CallType
<1>2. d \in Clients /\ d # c
  OBVIOUS
<1>3. \A o, tables : call' = Dirtied(c, tables, o) => call'[d].pc = call[d].pc
  BY <1>1, <1>2 DEF Dirtied
<1>4. \A o : call' = [call EXCEPT ![c] = o] => call'[d].pc = call[d].pc
  BY <1>2 DEF TypeOK
<1>5. QED BY <1>3, <1>4

\* How the calls change in a step.
LEMMA StepCalls ==
  ASSUME NEW c \in Clients, SprintStep(c) \/ ColumnStep(c) \/ IssueStep(c) \/ CallFails(c)
  PROVE  \/ \E o : call' = [call EXCEPT ![c] = o]
         \/ \E o, tables : call' = Dirtied(c, tables, o)
<1>1. \A o : Begin(c, o) \/ Go(c, o) => \E p : call' = [call EXCEPT ![c] = p]
  BY DEF Begin, Go
<1>2. \A o, tables : Write(c, tables, o) => \E p, t : call' = Dirtied(c, t, p)
  BY DEF Write
<1>3. \A tables : WriteOnce(c, tables) => \E p, t : call' = Dirtied(c, t, p)
  BY DEF WriteOnce
<1>4. CASE SprintStep(c)
  BY <1>1, <1>2, <1>3, <1>4
     DEF SprintStep, Reject, GoTo, CreateSprint, UpdateLoad, UpdateSave, StartLoad, StartFind,
         StartCount, StartHandOver, StartSave, CompleteLoad, CompleteTarget, CompleteDone,
         CompleteFind, CompleteMove, CompleteSave, DeleteLoad, DeleteUnassign, DeleteRemove
<1>5. CASE ColumnStep(c)
  BY <1>1, <1>2, <1>3, <1>5
     DEF ColumnStep, Reject, GoTo, AddColumn, ColumnLoad, ColumnSave, ColumnRemoveLoad,
         ColumnList, ColumnRefill, ColumnRemove
<1>6. CASE IssueStep(c)
  BY <1>1, <1>2, <1>3, <1>6
     DEF IssueStep, Reject, ReorderLoad, ReorderCheck, ReorderMove, SaveRows, IssueLoad,
         IssueSave, BulkSprint, BulkColumn
<1>7. QED BY <1>1, <1>4, <1>5, <1>6 DEF CallFails, Reject

\* A call leaves its last statement by taking it or by failing there.
LEMMA LastStatements ==
  ASSUME NEW c \in Clients, SprintStep(c) \/ ColumnStep(c) \/ IssueStep(c) \/ CallFails(c)
  PROVE  /\ At(c, "column_remove") => ColumnRemove(c) \/ Reject(c)
         /\ At(c, "reorder_move") => ReorderMove(c) \/ Reject(c)
<1>1. ASSUME At(c, "column_remove") \/ At(c, "reorder_move"), SprintStep(c) PROVE FALSE
  BY <1>1
     DEF SprintStep, At, Begin, WriteOnce, CreateSprint, UpdateLoad, UpdateSave, StartLoad,
         StartFind, StartCount, StartHandOver, StartSave, CompleteLoad, CompleteTarget,
         CompleteDone, CompleteFind, CompleteMove, CompleteSave, DeleteLoad, DeleteUnassign,
         DeleteRemove
<1>2. ASSUME At(c, "column_remove") \/ At(c, "reorder_move"), ColumnStep(c)
      PROVE  At(c, "column_remove") /\ ColumnRemove(c)
  BY <1>2
     DEF ColumnStep, At, Begin, WriteOnce, AddColumn, ColumnLoad, ColumnSave,
         ColumnRemoveLoad, ColumnList, ColumnRefill, ColumnRemove
<1>3. ASSUME At(c, "column_remove") \/ At(c, "reorder_move"), IssueStep(c)
      PROVE  At(c, "reorder_move") /\ ReorderMove(c)
  BY <1>3
     DEF IssueStep, At, Begin, WriteOnce, ReorderLoad, ReorderCheck, ReorderMove, IssueLoad,
         IssueSave, BulkSprint, BulkColumn
<1>4. QED BY <1>1, <1>2, <1>3 DEF CallFails, At

LEMMA LeavesItself ==
  ASSUME Inv, [Next]_vars, NEW c \in Clients, NEW pc \in {"column_remove", "reorder_move"},
         Leaves(c, pc)
  PROVE  \/ pc = "column_remove" /\ ColumnRemove(c)
         \/ pc = "reorder_move" /\ ReorderMove(c)
         \/ Reject(c)
<1>1. call'[c].pc # call[c].pc
  BY DEF Leaves, At
<1>2. PICK b \in Clients :
        \/ SprintStep(b) \/ ColumnStep(b) \/ IssueStep(b) \/ CallFails(b)
        \/ MigrationStep(b)
  BY <1>1 DEF Next, CallStep, vars
<1>3. MigrationStep(b) => At(b, "idle") /\ call' = Dirtied(b, {"sprints"}, NoCall)
  BY DEF MigrationStep, ImportSprint, WriteOnce
<1>4. b = c
  BY <1>1, <1>2, <1>3, StepCalls, OthersStay DEF Inv
<1>5. ~MigrationStep(c)
  BY <1>3, <1>4 DEF Leaves, At
<1>6. QED BY <1>2, <1>4, <1>5, LastStatements DEF Leaves, At

\* Removing a column takes the column from no issue unless another call has put one there
\* after the issues were moved to the fallback (boards.service.ts:311-319).
THEOREM RemovalKeepsColumns == Spec => NoIssueLosesColumn
<1>1. ASSUME Inv, BoardInv, [Next]_vars, NEW c \in Clients, Leaves(c, "column_remove"),
             column' # column, Undisturbed(c, {"issues", "columns"}),
             NEW i \in Issues, issue'[i].column = NoColumn
      PROVE  issue[i].column = NoColumn
  <2>1. ColumnRemove(c)
    BY <1>1, LeavesItself DEF Reject, Go
  <2>2. InColumn(call[c].column) = {}
    BY <1>1 DEF BoardInv, Known, KnowsIssues, Leaves, At, Undisturbed
  <2>3. issue'[i] = issue[i]
    BY <1>1, <2>1, <2>2 DEF ColumnRemove, InColumn
  <2>4. QED BY <1>1, <2>3
<1>2. Inv /\ BoardInv /\ [Next]_vars =>
        \A c \in Clients :
          Leaves(c, "column_remove") /\ column' # column /\ Undisturbed(c, {"issues", "columns"})
          => \A i \in Issues : issue'[i].column = NoColumn => issue[i].column = NoColumn
  BY <1>1
<1>3. QED BY <1>2, BoardInvAlways, PTL DEF NoIssueLosesColumn, Spec

\* A reorder that nobody has disturbed fills no column beyond its limit: it was counted
\* with all the issues that the request moves there (boards.service.ts:356-431, 450-468).
THEOREM WipCheckedAlways == Spec => WipChecked
<1>1. ASSUME Inv, BoardInv, [Next]_vars, NEW c \in Clients, Leaves(c, "reorder_move"),
             issue' # issue, Undisturbed(c, {"issues", "columns"}), WipLimit > 0
      PROVE  Cardinality({i \in Issues : issue'[i].column = call[c].column}) <= WipLimit
  <2> DEFINE k == call[c].column
             moved == call[c].issues
             before == InColumn(k)
             after == {i \in Issues : issue'[i].column = k}
  <2>1. /\ ReorderMove(c)
        /\ issue' = [i \in Issues |-> IF i \in moved THEN call[c].rows[i] ELSE issue[i]]
    BY <1>1, LeavesItself DEF Reject, Go, ReorderMove, SaveRows
  <2>2. /\ \A i \in moved : call[c].rows[i].column = k
        /\ Cardinality(before) + Cardinality(moved \ before) <= WipLimit
    BY <1>1 DEF BoardInv, Known, Remembers, KnowsIssues, Leaves, At, Undisturbed
  <2>3. moved \subseteq Issues /\ before \subseteq Issues
    BY <1>1 DEF Inv, TypeOK, CallType, InColumn
  <2>4. after \subseteq before \cup (moved \ before)
    BY <2>1, <2>3 DEF InColumn
  <2> HIDE DEF k, moved, before, after
  <2>5. IsFiniteSet(before) /\ IsFiniteSet(moved \ before)
    BY <2>3, FS_Subset, ConstantsAssumption
  <2>6. before \cap (moved \ before) = {} /\ Cardinality({}) = 0
    BY FS_EmptySet
  <2>7. /\ IsFiniteSet(before \cup (moved \ before))
        /\ Cardinality(before \cup (moved \ before)) =
             Cardinality(before) + Cardinality(moved \ before) - Cardinality({})
    BY <2>5, <2>6, FS_Union
  <2>8. Cardinality(after) <= Cardinality(before \cup (moved \ before))
    BY <2>4, <2>7, FS_Subset
  <2>9. /\ Cardinality(before) \in Nat /\ Cardinality(moved \ before) \in Nat
        /\ Cardinality(after) \in Nat
    BY <2>4, <2>5, <2>7, FS_CardinalityType, FS_Subset
  <2>10. Cardinality(after) <= WipLimit
    BY <2>2, <2>6, <2>7, <2>8, <2>9, ConstantsAssumption
  <2>11. QED BY <2>10 DEF after, k
<1>2. Inv /\ BoardInv /\ [Next]_vars =>
        \A c \in Clients :
          /\ Leaves(c, "reorder_move") /\ issue' # issue
          /\ Undisturbed(c, {"issues", "columns"}) /\ WipLimit > 0
          => Cardinality({i \in Issues : issue'[i].column = call[c].column}) <= WipLimit
  BY <1>1
<1>3. QED BY <1>2, BoardInvAlways, PTL DEF WipChecked, Spec
=============================================================================
