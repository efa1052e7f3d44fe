-------------------------- MODULE SprintBoardProofs --------------------------
(***************************************************************************)
(* Proofs about SprintBoard for every value of its constants: the type     *)
(* invariant, and that the calls of SprintsService, their statements       *)
(* spread over time, implement SprintLifecycle.                            *)
(***************************************************************************)
EXTENDS SprintBoard, TLAPS

\* What call record o knows of the sprint it is about, as long as no other call has
\* written a sprint since it began.
Knows(o) ==
  /\ o.pc = "update_save" => sprint[o.sprint] = o.row /\ o.row # "none"
  /\ o.pc \in {"start_find", "start_save"} => sprint[o.sprint] = "planned"
  /\ o.pc = "start_save" => Active = {}
  /\ o.pc \in {"complete_target", "complete_done", "complete_find", "complete_move",
               "complete_save"} => sprint[o.sprint] \in {"active", "inactive"}
  /\ o.pc \in {"delete_unassign", "delete_remove"} =>
       sprint[o.sprint] \notin {"none", "active"}

\* A call under way names a sprint where it is about one.
Names(o) ==
  /\ o.pc \in {"update_save", "start_find", "start_count", "start_handover", "start_save",
               "complete_target", "complete_done", "complete_find", "complete_move",
               "complete_save", "delete_unassign", "delete_remove"} => o.sprint \in Sprints
  /\ o.pc \in {"start_count", "start_handover"} => o.other \in Sprints

Sound(o) == Names(o) /\ ("sprints" \notin o.dirty => Knows(o))

\* The inductive invariant.
Inv ==
  /\ TypeOK
  /\ \A c \in Clients : Sound(call[c])
  /\ OneActiveUnlessStale

-----------------------------------------------------------------------------
(* How a step changes the calls                                            *)

LEMMA NoCallSound == NoCall \in CallType /\ Sound(NoCall)
BY ConstantsAssumption
   DEF NoCall, CallType, Sound, Names, Knows, Statuses, IssueType, Tables

\* A step of a call that writes nothing.
LEMMA LookKeeps ==
  ASSUME Inv, UNCHANGED imported, NEW c \in Clients, NEW o \in CallType, Sound(o),
         call' = [call EXCEPT ![c] = o],
         UNCHANGED <<sprint, issue, column, stale>>, calls' \in 0..MaxCalls
  PROVE  Inv'
<1>1. call' \in [Clients -> CallType]
  BY DEF Inv, TypeOK
<1>2. \A d \in Clients : Sound(call'[d])
  BY DEF Inv, TypeOK
<1>3. \A d \in Clients : Sound(call[d])'
  BY <1>2 DEF Sound, Names, Knows, Active
<1>4. TypeOK' /\ OneActiveUnlessStale'
  BY <1>1 DEF Inv, TypeOK, OneActiveUnlessStale, Active, IssueType, CallType
<1>5. QED BY <1>3, <1>4 DEF Inv

LEMMA DirtiedCalls ==
  ASSUME TypeOK, NEW c \in Clients, NEW o \in CallType, NEW tables \in SUBSET Tables
  PROVE  /\ Dirtied(c, tables, o) \in [Clients -> CallType]
         /\ Dirtied(c, tables, o)[c] = o
         /\ \A d \in Clients \ {c} :
              LET e == Dirtied(c, tables, o)[d] IN
              /\ e.pc = call[d].pc /\ e.sprint = call[d].sprint /\ e.other = call[d].other
              /\ e.row = call[d].row
              /\ e.dirty = call[d].dirty \/ e.dirty = call[d].dirty \cup tables
              /\ At(d, "idle") \/ e.dirty = call[d].dirty \cup tables
<1> DEFINE E(d) == [call[d] EXCEPT !.dirty = @ \cup tables]
<1>1. ASSUME NEW d \in Clients
      PROVE  /\ E(d) \in CallType
             /\ E(d).pc = call[d].pc /\ E(d).sprint = call[d].sprint
             /\ E(d).other = call[d].other /\ E(d).row = call[d].row
             /\ E(d).dirty = call[d].dirty \cup tables
  BY DEF TypeOK, CallType
<1>2. \A d \in Clients : call[d] \in CallType
  BY DEF TypeOK
<1>3. QED BY <1>1, <1>2 DEF Dirtied

\* A step that writes tables.  The other calls know nothing more of the sprints when it
\* writes those, and a new sprint is none of theirs.
LEMMA WriteKeeps ==
  ASSUME Inv, NEW c \in Clients, NEW o \in CallType, NEW tables \in SUBSET Tables,
         call' = Dirtied(c, tables, o), Sound(o)',
         \/ UNCHANGED sprint
         \/ "sprints" \in tables
         \/ \E s \in Sprints : /\ sprint[s] = "none"
                               /\ sprint' = [sprint EXCEPT ![s] = "planned"],
         sprint' \in [Sprints -> Statuses], issue' \in [Issues -> IssueType],
         column' \in [Columns -> Kinds \cup {"none"}], calls' \in 0..MaxCalls,
         stale' \in SUBSET Tables, imported' \in BOOLEAN, OneActiveUnlessStale'
  PROVE  Inv'
<1>1. TypeOK
  BY DEF Inv
<1>2. TypeOK'
  BY <1>1, DirtiedCalls DEF TypeOK, IssueType, CallType
<1>3. ASSUME NEW d \in Clients \ {c} PROVE Sound(call[d])'
  <2> DEFINE e == call'[d]
  <2>1. /\ e.pc = call[d].pc /\ e.sprint = call[d].sprint /\ e.other = call[d].other
        /\ e.row = call[d].row
        /\ e.dirty = call[d].dirty \/ e.dirty = call[d].dirty \cup tables
        /\ At(d, "idle") \/ e.dirty = call[d].dirty \cup tables
    BY <1>1, DirtiedCalls
  <2>2. Names(call[d])'
    BY <2>1 DEF Inv, Sound, Names
  <2>3. CASE At(d, "idle")
    BY <2>1, <2>2, <2>3 DEF At, Sound, Knows
  <2>4. CASE "sprints" \in e.dirty
    BY <2>2, <2>4 DEF Sound
  <2>5. CASE ~At(d, "idle") /\ "sprints" \notin e.dirty
    <3>1. "sprints" \notin call[d].dirty /\ "sprints" \notin tables
      BY <2>1, <2>5
    <3>2. Knows(call[d]) /\ Names(call[d])
      BY <3>1 DEF Inv, Sound
    <3>3. CASE UNCHANGED sprint
      BY <2>1, <2>2, <3>2, <3>3 DEF Sound, Knows, Active
    <3>4. ASSUME NEW s \in Sprints, sprint[s] = "none",
                 sprint' = [sprint EXCEPT ![s] = "planned"]
          PROVE  Knows(call[d])'
      <4>1. Active' = Active
        BY <1>1, <3>4 DEF Active, TypeOK
      <4>2. \A r \in Sprints : r # s => sprint'[r] = sprint[r]
        BY <1>1, <3>4 DEF TypeOK
      <4>3. QED BY <2>1, <3>2, <3>4, <4>1, <4>2 DEF Knows, Names
    <3>5. QED BY <2>2, <3>1, <3>3, <3>4 DEF Sound
  <2>6. QED BY <2>3, <2>4, <2>5
<1>4. Sound(call[c])'
  <2>1. call'[c] = o
    BY <1>1, DirtiedCalls
  <2>2. QED BY <2>1 DEF Sound, Names, Knows
<1>5. QED BY <1>2, <1>3, <1>4 DEF Inv

LEMMA BeginKeeps ==
  ASSUME Inv, UNCHANGED imported, NEW c \in Clients, NEW o \in CallType, Sound(o),
         Begin(c, o)
  PROVE  Inv'
<1>1. calls' \in 0..MaxCalls
  BY ConstantsAssumption DEF Begin, Inv, TypeOK
<1>2. QED BY <1>1, LookKeeps DEF Begin

LEMMA GoKeeps ==
  ASSUME Inv, UNCHANGED imported, NEW c \in Clients, NEW o \in CallType, Sound(o), Go(c, o)
  PROVE  Inv'
BY LookKeeps DEF Go, Inv, TypeOK

LEMMA RejectKeeps ==
  ASSUME Inv, UNCHANGED imported, NEW c \in Clients, Reject(c)
  PROVE  Inv'
BY GoKeeps, NoCallSound DEF Reject

\* Write and WriteOnce, by what is left to show of each.
LEMMA WriteStep ==
  ASSUME Inv, UNCHANGED imported, NEW c \in Clients, NEW o \in CallType,
         NEW tables \in SUBSET Tables,
         Write(c, tables, o), Sound(o)',
         UNCHANGED sprint \/ "sprints" \in tables,
         sprint' \in [Sprints -> Statuses], issue' \in [Issues -> IssueType],
         column' \in [Columns -> Kinds \cup {"none"}],
         UNCHANGED sprint \/ "sprints" \in stale' \/ imported \/ (\A a, b \in Active' : a = b)
  PROVE  Inv'
<1>1. /\ call' = Dirtied(c, tables, o) /\ calls' \in 0..MaxCalls
      /\ stale' \in SUBSET Tables /\ imported' \in BOOLEAN
  BY DEF Write, Inv, TypeOK
<1>2. OneActiveUnlessStale'
  BY DEF Write, Inv, OneActiveUnlessStale, Active
<1>3. QED BY <1>1, <1>2, WriteKeeps

LEMMA OnceStep ==
  ASSUME Inv, UNCHANGED imported, NEW c \in Clients, NEW tables \in SUBSET Tables,
         WriteOnce(c, tables), UNCHANGED sprint, issue' \in [Issues -> IssueType],
         column' \in [Columns -> Kinds \cup {"none"}]
  PROVE  Inv'
<1>1. calls' \in 0..MaxCalls
  BY ConstantsAssumption DEF WriteOnce, Inv, TypeOK
<1>2. Sound(NoCall)' /\ NoCall \in CallType
  BY NoCallSound DEF Sound, Names, Knows, NoCall
<1>3. /\ sprint' \in [Sprints -> Statuses] /\ OneActiveUnlessStale'
      /\ stale' \in SUBSET Tables /\ imported' \in BOOLEAN
  BY DEF WriteOnce, Inv, TypeOK, OneActiveUnlessStale, Active
<1>4. QED BY <1>1, <1>2, <1>3, WriteKeeps DEF WriteOnce

\* A call that is over knows nothing.
LEMMA NoCallSoundNext == NoCall \in CallType /\ Sound(NoCall)'
BY NoCallSound DEF Sound, Names, Knows, NoCall

-----------------------------------------------------------------------------
(* The calls of SprintsService                                             *)

LEMMA SprintLoads ==
  ASSUME Inv, UNCHANGED imported, NEW c \in Clients, NEW s \in Sprints,
         \/ UpdateLoad(c, s) \/ StartLoad(c, s) \/ DeleteLoad(c, s)
         \/ \E t \in Sprints \cup {NoSprint} : CompleteLoad(c, s, t)
  PROVE  Inv'
<1>0. sprint[s] \in Statuses /\ NoCall \in CallType
  BY NoCallSound DEF Inv, TypeOK
<1>1. CASE UpdateLoad(c, s)
  <2> DEFINE o == [NoCall EXCEPT !.pc = "update_save", !.sprint = s, !.row = sprint[s]]
  <2>1. o \in CallType /\ Sound(o)
    BY <1>0, <1>1 DEF UpdateLoad, SprintExists, CallType, NoCall, Sound, Names, Knows
  <2>2. QED BY <1>1, <2>1, BeginKeeps DEF UpdateLoad
<1>2. CASE StartLoad(c, s)
  <2> DEFINE o == [NoCall EXCEPT !.pc = "start_find", !.sprint = s, !.row = sprint[s]]
  <2>1. o \in CallType /\ Sound(o)
    BY <1>0, <1>2 DEF StartLoad, CallType, NoCall, Sound, Names, Knows
  <2>2. QED BY <1>2, <2>1, BeginKeeps DEF StartLoad
<1>3. CASE DeleteLoad(c, s)
  <2> DEFINE o == [NoCall EXCEPT !.pc = "delete_unassign", !.sprint = s]
  <2>1. o \in CallType /\ Sound(o)
    BY <1>0, <1>3 DEF DeleteLoad, SprintExists, CallType, NoCall, Sound, Names, Knows
  <2>2. QED BY <1>3, <2>1, BeginKeeps DEF DeleteLoad
<1>4. ASSUME NEW t \in Sprints \cup {NoSprint}, CompleteLoad(c, s, t) PROVE Inv'
  <2> DEFINE o == [NoCall EXCEPT !.pc = "complete_target", !.sprint = s, !.other = t,
                                 !.row = sprint[s]]
  <2>1. o \in CallType /\ Sound(o)
    BY <1>0, <1>4 DEF CompleteLoad, CallType, NoCall, Sound, Names, Knows
  <2>2. QED BY <1>4, <2>1, BeginKeeps DEF CompleteLoad
<1>5. QED BY <1>1, <1>2, <1>3, <1>4

\* The reads that follow.
LEMMA SprintLooks ==
  ASSUME Inv, UNCHANGED imported, NEW c \in Clients,
         StartFind(c) \/ StartCount(c) \/ CompleteTarget(c) \/ CompleteDone(c) \/ CompleteFind(c)
  PROVE  Inv'
<1>0. call[c] \in CallType /\ Sound(call[c])
  BY DEF Inv, TypeOK
<1>1. CASE StartFind(c)
  <2>1. CASE Active = {} /\ GoTo(c, "start_save")
    <3> DEFINE o == [call[c] EXCEPT !.pc = "start_save"]
    <3>1. o \in CallType /\ Sound(o)
      BY <1>0, <1>1, <2>1 DEF StartFind, At, CallType, Sound, Names, Knows
    <3>2. QED BY <2>1, <3>1, GoKeeps DEF GoTo
  <2>2. ASSUME NEW a \in Active, Go(c, [call[c] EXCEPT !.pc = "start_count", !.other = a])
        PROVE  Inv'
    <3> DEFINE o == [call[c] EXCEPT !.pc = "start_count", !.other = a]
    <3>1. o \in CallType /\ Sound(o)
      BY <1>0, <1>1, <2>2 DEF StartFind, At, Active, CallType, Sound, Names, Knows
    <3>2. QED BY <2>2, <3>1, GoKeeps
  <2>3. QED BY <1>1, <2>1, <2>2, RejectKeeps DEF StartFind
<1>2. CASE StartCount(c)
  <2>1. CASE GoTo(c, "start_handover")
    <3> DEFINE o == [call[c] EXCEPT !.pc = "start_handover"]
    <3>1. o \in CallType /\ Sound(o)
      BY <1>0, <1>2 DEF StartCount, At, CallType, Sound, Names, Knows
    <3>2. QED BY <2>1, <3>1, GoKeeps DEF GoTo
  <2>2. QED BY <1>2, <2>1, RejectKeeps DEF StartCount
<1>3. CASE CompleteTarget(c)
  <2>1. CASE GoTo(c, "complete_done")
    <3> DEFINE o == [call[c] EXCEPT !.pc = "complete_done"]
    <3>1. o \in CallType /\ Sound(o)
      BY <1>0, <1>3 DEF CompleteTarget, At, CallType, Sound, Names, Knows
    <3>2. QED BY <2>1, <3>1, GoKeeps DEF GoTo
  <2>2. QED BY <1>3, <2>1, RejectKeeps DEF CompleteTarget
<1>4. ASSUME NEW pc \in {"complete_save", "complete_find"}, NEW done \in SUBSET Columns,
             At(c, "complete_done"), Go(c, [call[c] EXCEPT !.pc = pc, !.done = done])
      PROVE  Inv'
  <2> DEFINE o == [call[c] EXCEPT !.pc = pc, !.done = done]
  <2>1. o \in CallType /\ Sound(o)
    BY <1>0, <1>4 DEF At, CallType, Sound, Names, Knows
  <2>2. QED BY <1>4, <2>1, GoKeeps
<1>5. CASE CompleteDone(c)
  BY <1>4, <1>5 DEF CompleteDone
<1>6. ASSUME NEW pc \in {"complete_save", "complete_move"}, NEW open \in SUBSET Issues,
             At(c, "complete_find"), Go(c, [call[c] EXCEPT !.pc = pc, !.issues = open])
      PROVE  Inv'
  <2> DEFINE o == [call[c] EXCEPT !.pc = pc, !.issues = open]
  <2>1. o \in CallType /\ Sound(o)
    BY <1>0, <1>6 DEF At, CallType, Sound, Names, Knows
  <2>2. QED BY <1>6, <2>1, GoKeeps
<1>7. CASE CompleteFind(c)
  BY <1>6, <1>7 DEF CompleteFind, InSprint
<1>8. QED BY <1>1, <1>2, <1>3, <1>5, <1>7

\* A call that writes a sprint before the sprints are stale knows it.
LEMMA WriterKnows ==
  ASSUME Inv, NEW c \in Clients, NEW o, NEW tables, Write(c, tables, o),
         "sprints" \in tables, "sprints" \notin stale'
  PROVE  Knows(call[c]) /\ (imported \/ \A a, b \in Active : a = b)
BY DEF Write, Inv, Sound, OneActiveUnlessStale

\* What each of the writing calls does to the sprints, when they are not stale.
LEMMA UpdateNothing ==
  ASSUME Inv, NEW c \in Clients, UpdateSave(c), "sprints" \notin stale'
  PROVE  UNCHANGED sprint
<1>1. Knows(call[c])
  BY WriterKnows DEF UpdateSave
<1>2. QED BY <1>1 DEF UpdateSave, At, Knows, Inv, TypeOK

LEMMA StartOne ==
  ASSUME Inv, NEW c \in Clients, StartSave(c), "sprints" \notin stale'
  PROVE  call[c].sprint \in Sprints /\ sprint[call[c].sprint] = "planned" /\ Active = {}
<1>1. Knows(call[c])
  BY WriterKnows DEF StartSave
<1>2. QED BY <1>1 DEF StartSave, At, Knows, Inv, Sound, Names

LEMMA CompleteOne ==
  ASSUME Inv, NEW c \in Clients, CompleteSave(c), "sprints" \notin stale'
  PROVE  call[c].sprint \in Sprints /\ sprint[call[c].sprint] \in {"active", "inactive"}
<1>1. Knows(call[c])
  BY WriterKnows DEF CompleteSave
<1>2. QED BY <1>1 DEF CompleteSave, At, Knows, Inv, Sound, Names

LEMMA DeleteOne ==
  ASSUME Inv, NEW c \in Clients, DeleteRemove(c), "sprints" \notin stale'
  PROVE  call[c].sprint \in Sprints /\ sprint[call[c].sprint] \notin {"none", "active"}
<1>1. Knows(call[c])
  BY WriterKnows DEF DeleteRemove
<1>2. QED BY <1>1 DEF DeleteRemove, At, Knows, Inv, Sound, Names

\* Statements that write a sprint.
LEMMA SprintWrites ==
  ASSUME Inv, UNCHANGED imported, NEW c \in Clients,
         \/ UpdateSave(c) \/ StartHandOver(c) \/ StartSave(c) \/ CompleteSave(c)
         \/ DeleteRemove(c)
  PROVE  Inv'
<1>0. /\ call[c] \in CallType /\ Sound(call[c])
      /\ sprint \in [Sprints -> Statuses] /\ issue \in [Issues -> IssueType]
      /\ column \in [Columns -> Kinds \cup {"none"}]
  BY DEF Inv, TypeOK
<1>1. NoCall \in CallType /\ Sound(NoCall)'
  BY NoCallSoundNext
<1>2. {"sprints"} \in SUBSET Tables /\ {"sprints", "issues"} \in SUBSET Tables
  BY DEF Tables
<1>3. CASE UpdateSave(c)
  <2>1. sprint' \in [Sprints -> Statuses]
    BY <1>0, <1>3 DEF UpdateSave, CallType
  <2>2. UNCHANGED sprint \/ "sprints" \in stale'
    BY <1>3, UpdateNothing
  <2>3. QED BY <1>0, <1>1, <1>2, <1>3, <2>1, <2>2, WriteStep DEF UpdateSave
<1>4. CASE StartHandOver(c)
  <2>1. CASE Reject(c)
    BY <2>1, RejectKeeps
  <2>2. CASE ~Reject(c)
    <3> DEFINE a == call[c].other
               s == call[c].sprint
    <3>1. /\ sprint[a] = "active" /\ sprint[s] = "planned"
          /\ sprint' = [sprint EXCEPT ![a] = "inactive", ![s] = "active"]
          /\ Write(c, {"sprints"}, NoCall) /\ UNCHANGED <<issue, column>>
      BY <1>4, <2>2 DEF StartHandOver
    <3>2. a \in Sprints /\ s \in Sprints
      BY <1>0, <1>4 DEF StartHandOver, At, Sound, Names
    <3>3. sprint' \in [Sprints -> Statuses]
      BY <1>0, <3>1, <3>2 DEF Statuses
    <3>4. "sprints" \in stale' \/ imported \/ (\A p, q \in Active' : p = q)
      <4>1. CASE "sprints" \notin stale' /\ ~imported
        <5>1. \A p, q \in Active : p = q
          BY <3>1, <4>1, WriterKnows
        <5>2. Active' = {s}
          BY <1>0, <3>1, <3>2, <5>1 DEF Active
        <5>3. QED BY <5>2
      <4>2. QED BY <4>1
    <3>5. QED BY <1>0, <1>1, <1>2, <3>1, <3>3, <3>4, WriteStep
  <2>3. QED BY <2>1, <2>2
<1>5. CASE StartSave(c)
  <2>1. sprint' \in [Sprints -> Statuses]
    BY <1>0, <1>5 DEF StartSave, Statuses
  <2>2. "sprints" \in stale' \/ imported \/ (\A p, q \in Active' : p = q)
    BY <1>0, <1>5, StartOne DEF StartSave, Active
  <2>3. QED BY <1>0, <1>1, <1>2, <1>5, <2>1, <2>2, WriteStep DEF StartSave
<1>6. CASE CompleteSave(c)
  <2>1. sprint' \in [Sprints -> Statuses]
    BY <1>0, <1>6 DEF CompleteSave, Statuses
  <2>2. "sprints" \in stale' \/ imported \/ (\A p, q \in Active' : p = q)
    BY <1>0, <1>6, WriterKnows DEF CompleteSave, Active
  <2>3. QED BY <1>0, <1>1, <1>2, <1>6, <2>1, <2>2, WriteStep DEF CompleteSave
<1>7. CASE DeleteRemove(c)
  <2>1. sprint' \in [Sprints -> Statuses] /\ issue' \in [Issues -> IssueType]
    BY <1>0, <1>7 DEF DeleteRemove, Unassigned, Statuses, IssueType
  <2>2. "sprints" \in stale' \/ imported \/ (\A p, q \in Active' : p = q)
    BY <1>0, <1>7, WriterKnows DEF DeleteRemove, Active
  <2>3. QED BY <1>0, <1>1, <1>2, <1>7, <2>1, <2>2, WriteStep DEF DeleteRemove
<1>8. QED BY <1>3, <1>4, <1>5, <1>6, <1>7

\* Statements of these calls that write issues, and the insert of a sprint.
LEMMA SprintOthers ==
  ASSUME Inv, UNCHANGED imported, NEW c \in Clients,
         \/ \E s \in Sprints : CreateSprint(c, s)
         \/ CompleteMove(c) \/ DeleteUnassign(c)
  PROVE  Inv'
<1>0. /\ call[c] \in CallType /\ Sound(call[c])
      /\ sprint \in [Sprints -> Statuses] /\ issue \in [Issues -> IssueType]
      /\ column \in [Columns -> Kinds \cup {"none"}]
  BY DEF Inv, TypeOK
<1>1. {"issues"} \in SUBSET Tables /\ {} \in SUBSET Tables
  BY DEF Tables
<1>2. ASSUME NEW s \in Sprints, CreateSprint(c, s) PROVE Inv'
  <2>1. calls' \in 0..MaxCalls
    BY <1>2, ConstantsAssumption DEF CreateSprint, WriteOnce, Inv, TypeOK
  <2>2. sprint' \in [Sprints -> Statuses] /\ Active' = Active
    BY <1>0, <1>2 DEF CreateSprint, Statuses, Active
  <2>3. OneActiveUnlessStale' /\ stale' \in SUBSET Tables /\ imported' \in BOOLEAN
    BY <1>2, <2>2 DEF CreateSprint, WriteOnce, Inv, TypeOK, OneActiveUnlessStale
  <2>4. call' = Dirtied(c, {}, NoCall) /\ UNCHANGED <<issue, column>>
    BY <1>2 DEF CreateSprint, WriteOnce
  <2>5. QED
    BY <1>0, <1>1, <1>2, <2>1, <2>2, <2>3, <2>4, NoCallSoundNext, WriteKeeps DEF CreateSprint
<1>3. CASE CompleteMove(c) /\ ~Reject(c)
  <2>1. PICK o \in CallType : o = [call[c] EXCEPT !.pc = "complete_save"]
    BY <1>0, <1>3 DEF CallType
  <2>2. /\ Write(c, {"issues"}, o) /\ UNCHANGED <<sprint, column>> /\ SprintRef(call[c].other)
    BY <1>3, <2>1 DEF CompleteMove
  <2>3. Sound(o)'
    BY <1>0, <1>3, <2>1, <2>2 DEF CompleteMove, At, CallType, Sound, Names, Knows, Active
  <2>4. issue' \in [Issues -> IssueType]
    BY <1>0, <1>3, <2>2 DEF CompleteMove, IssueType, SprintRef
  <2>5. QED BY <1>0, <1>1, <2>1, <2>2, <2>3, <2>4, WriteStep
<1>4. CASE DeleteUnassign(c)
  <2>1. PICK o \in CallType : o = [call[c] EXCEPT !.pc = "delete_remove"]
    BY <1>0, <1>4 DEF CallType
  <2>2. /\ Write(c, {"issues"}, o) /\ UNCHANGED <<sprint, column>>
    BY <1>4, <2>1 DEF DeleteUnassign
  <2>3. Sound(o)'
    BY <1>0, <1>4, <2>1, <2>2 DEF DeleteUnassign, At, CallType, Sound, Names, Knows, Active
  <2>4. issue' \in [Issues -> IssueType]
    BY <1>0, <1>4 DEF DeleteUnassign, Unassigned, IssueType
  <2>5. QED BY <1>0, <1>1, <2>1, <2>2, <2>3, <2>4, WriteStep
<1>5. CASE CompleteMove(c) /\ Reject(c)
  BY <1>5, RejectKeeps
<1>6. QED BY <1>2, <1>3, <1>4, <1>5

-----------------------------------------------------------------------------
(* The calls of BoardsService and IssuesService                            *)

LEMMA ColumnLooks ==
  ASSUME Inv, UNCHANGED imported, NEW c \in Clients,
         \/ \E k \in Columns : ColumnLoad(c, k) \/ ColumnRemoveLoad(c, k)
         \/ ColumnList(c)
  PROVE  Inv'
<1>0. call[c] \in CallType /\ NoCall \in CallType
  BY NoCallSound DEF Inv, TypeOK
<1>1. ASSUME NEW k \in Columns, NEW pc \in {"column_save", "column_list"},
             Begin(c, [NoCall EXCEPT !.pc = pc, !.column = k])
      PROVE  Inv'
  <2> DEFINE o == [NoCall EXCEPT !.pc = pc, !.column = k]
  <2>1. o \in CallType /\ Sound(o)
    BY <1>0 DEF CallType, NoCall, Sound, Names, Knows
  <2>2. QED BY <1>1, <2>1, BeginKeeps
<1>2. ASSUME NEW k \in Columns, Go(c, [call[c] EXCEPT !.pc = "column_refill", !.fallback = k])
      PROVE  Inv'
  <2> DEFINE o == [call[c] EXCEPT !.pc = "column_refill", !.fallback = k]
  <2>1. o \in CallType /\ o.pc = "column_refill"
    BY <1>0 DEF CallType
  <2>2. Sound(o)
    BY <2>1 DEF Sound, Names, Knows
  <2>3. QED BY <1>2, <2>1, <2>2, GoKeeps
<1>3. CASE ColumnList(c)
  BY <1>2, <1>3, RejectKeeps DEF ColumnList, Live
<1>4. QED BY <1>1, <1>3 DEF ColumnLoad, ColumnRemoveLoad

LEMMA ColumnWrites ==
  ASSUME Inv, UNCHANGED imported, NEW c \in Clients,
         \/ \E k \in Columns, kind \in Kinds : AddColumn(c, k, kind)
         \/ ColumnSave(c) \/ ColumnRefill(c) \/ ColumnRemove(c)
  PROVE  Inv'
<1>0. /\ call[c] \in CallType /\ Sound(call[c])
      /\ sprint \in [Sprints -> Statuses] /\ issue \in [Issues -> IssueType]
      /\ column \in [Columns -> Kinds \cup {"none"}]
  BY DEF Inv, TypeOK
<1>1. /\ {"issues"} \in SUBSET Tables /\ {} \in SUBSET Tables
      /\ {"columns"} \in SUBSET Tables /\ {"columns", "issues"} \in SUBSET Tables
  BY DEF Tables
<1>2. NoCall \in CallType /\ Sound(NoCall)'
  BY NoCallSoundNext
<1>3. ASSUME NEW k \in Columns, NEW kind \in Kinds, AddColumn(c, k, kind) PROVE Inv'
  BY <1>0, <1>1, <1>3, OnceStep DEF AddColumn
<1>4. CASE ColumnSave(c)
  <2>1. column' \in [Columns -> Kinds \cup {"none"}]
    BY <1>0, <1>4 DEF ColumnSave
  <2>2. QED BY <1>0, <1>1, <1>2, <1>4, <2>1, WriteStep DEF ColumnSave
<1>5. CASE ColumnRefill(c) /\ ~Reject(c)
  <2>1. PICK o \in CallType : o = [call[c] EXCEPT !.pc = "column_remove"]
    BY <1>0 DEF CallType
  <2>2. Write(c, {"issues"}, o) /\ UNCHANGED <<sprint, column>>
    BY <1>5, <2>1 DEF ColumnRefill
  <2>3. Sound(o)'
    BY <1>0, <2>1 DEF CallType, Sound, Names, Knows
  <2>4. issue' \in [Issues -> IssueType]
    <3>1. /\ call[c].fallback \in Columns \cup {NoColumn}
          /\ issue' = [i \in Issues |-> IF i \in InColumn(call[c].column)
                                          THEN [issue[i] EXCEPT !.column = call[c].fallback]
                                          ELSE issue[i]]
      BY <1>0, <1>5 DEF ColumnRefill, CallType
    <3>2. QED BY <1>0, <3>1 DEF IssueType
  <2>5. QED BY <1>0, <1>1, <2>1, <2>2, <2>3, <2>4, WriteStep
<1>6. CASE ColumnRemove(c)
  <2>1. column' \in [Columns -> Kinds \cup {"none"}] /\ issue' \in [Issues -> IssueType]
    BY <1>0, <1>6 DEF ColumnRemove, IssueType
  <2>2. QED BY <1>0, <1>1, <1>2, <1>6, <2>1, WriteStep DEF ColumnRemove
<1>7. CASE ColumnRefill(c) /\ Reject(c)
  BY <1>7, RejectKeeps
<1>8. QED BY <1>3, <1>4, <1>5, <1>6, <1>7

\* What a request makes of the issues it has read is of their type.
LEMMA RowsType ==
  ASSUME TypeOK, NEW chosen \in SUBSET Issues, NEW k \in Columns \cup {NoColumn, Keep},
         NEW t \in Sprints \cup {NoSprint, Keep}
  PROVE  Rows(chosen, k, t) \in [Issues -> IssueType]
<1>1. \A i \in Issues : /\ Chosen(t, issue[i].sprint) \in Sprints \cup {NoSprint}
                        /\ Chosen(k, issue[i].column) \in Columns \cup {NoColumn}
  BY DEF TypeOK, IssueType, Chosen
<1>2. \A i \in Issues : NoCall.rows[i] \in IssueType
  BY NoCallSound DEF CallType
<1>3. QED BY <1>1, <1>2 DEF Rows, IssueType

LEMMA IssueLooks ==
  ASSUME Inv, UNCHANGED imported, NEW c \in Clients,
         \/ \E moved \in SUBSET Issues, k \in Columns, t \in Sprints \cup {NoSprint, Keep} :
              ReorderLoad(c, moved, k, t)
         \/ \E i \in Issues, k \in Columns \cup {NoColumn, Keep},
              t \in Sprints \cup {NoSprint, Keep} : IssueLoad(c, i, k, t)
         \/ ReorderCheck(c)
  PROVE  Inv'
<1>0. call[c] \in CallType /\ NoCall \in CallType /\ TypeOK
  BY NoCallSound DEF Inv, TypeOK
<1>1. ASSUME NEW moved \in SUBSET Issues, NEW k \in Columns,
             NEW t \in Sprints \cup {NoSprint, Keep}, ReorderLoad(c, moved, k, t)
      PROVE  Inv'
  <2> DEFINE o == [NoCall EXCEPT !.pc = "reorder_check", !.issues = moved, !.column = k,
                                 !.sprint = t, !.rows = Rows(moved, k, t)]
  <2>1. o \in CallType /\ o.pc = "reorder_check"
    <3>1. Rows(moved, k, t) \in [Issues -> IssueType]
      BY <1>0, RowsType
    <3>2. QED BY <1>0, <3>1 DEF CallType
  <2>2. Sound(o)
    BY <2>1 DEF Sound, Names, Knows
  <2>3. QED BY <1>1, <2>1, <2>2, BeginKeeps DEF ReorderLoad
<1>2. ASSUME NEW i \in Issues, NEW k \in Columns \cup {NoColumn, Keep},
             NEW t \in Sprints \cup {NoSprint, Keep}, IssueLoad(c, i, k, t)
      PROVE  Inv'
  <2> DEFINE o == [NoCall EXCEPT !.pc = "issue_save", !.issues = {i}, !.rows = Rows({i}, k, t)]
  <2>1. o \in CallType /\ o.pc = "issue_save"
    <3>1. Rows({i}, k, t) \in [Issues -> IssueType]
      BY <1>0, RowsType
    <3>2. PICK chosen \in SUBSET Issues : chosen = {i}
      OBVIOUS
    <3>3. [NoCall EXCEPT !.pc = "issue_save", !.issues = chosen, !.rows = Rows({i}, k, t)]
            \in CallType
      BY <1>0, <3>1 DEF CallType
    <3>4. o \in CallType
      BY <3>2, <3>3
    <3>5. QED BY <3>4 DEF NoCall
  <2>2. Sound(o)
    BY <2>1 DEF Sound, Names, Knows
  <2>3. QED BY <1>2, <2>1, <2>2, BeginKeeps DEF IssueLoad
<1>3. CASE ReorderCheck(c) /\ ~Reject(c)
  <2> DEFINE o == [call[c] EXCEPT !.pc = "reorder_move", !.sprint = NoSprint]
  <2>1. o \in CallType /\ o.pc = "reorder_move"
    BY <1>0 DEF CallType
  <2>2. Sound(o)
    BY <2>1 DEF Sound, Names, Knows
  <2>3. QED BY <1>3, <2>1, <2>2, GoKeeps DEF ReorderCheck
<1>4. QED BY <1>1, <1>2, <1>3, RejectKeeps

LEMMA IssueWrites ==
  ASSUME Inv, UNCHANGED imported, NEW c \in Clients,
         \/ ReorderMove(c) \/ IssueSave(c)
         \/ \E moved \in SUBSET Issues :
              \/ \E t \in Sprints \cup {NoSprint} : BulkSprint(c, moved, t)
              \/ \E k \in Columns \cup {NoColumn} : BulkColumn(c, moved, k)
  PROVE  Inv'
<1>0. /\ call[c] \in CallType
      /\ issue \in [Issues -> IssueType] /\ column \in [Columns -> Kinds \cup {"none"}]
      /\ sprint \in [Sprints -> Statuses]
  BY DEF Inv, TypeOK
<1>1. {"issues"} \in SUBSET Tables /\ NoCall \in CallType /\ Sound(NoCall)'
  BY NoCallSoundNext DEF Tables
<1>2. CASE SaveRows(c) /\ ~Reject(c)
  <2>1. issue' \in [Issues -> IssueType]
    BY <1>0, <1>2 DEF SaveRows, CallType
  <2>2. QED BY <1>0, <1>1, <1>2, <2>1, WriteStep DEF SaveRows
<1>3. ASSUME NEW moved \in SUBSET Issues, NEW t \in Sprints \cup {NoSprint},
             BulkSprint(c, moved, t)
      PROVE  Inv'
  <2>1. issue' \in [Issues -> IssueType]
    BY <1>0, <1>3 DEF BulkSprint, IssueType
  <2>2. QED BY <1>0, <1>1, <1>3, <2>1, OnceStep DEF BulkSprint
<1>4. ASSUME NEW moved \in SUBSET Issues, NEW k \in Columns \cup {NoColumn},
             BulkColumn(c, moved, k)
      PROVE  Inv'
  <2>1. issue' \in [Issues -> IssueType]
    BY <1>0, <1>4 DEF BulkColumn, IssueType
  <2>2. QED BY <1>0, <1>1, <1>4, <2>1, OnceStep DEF BulkColumn
<1>5. QED BY <1>2, <1>3, <1>4, RejectKeeps DEF ReorderMove, IssueSave

-----------------------------------------------------------------------------
(* The invariant                                                           *)

LEMMA InvInit == Init => Inv
<1> SUFFICES ASSUME Init PROVE Inv
  OBVIOUS
<1>1. TypeOK
  <2>1. call \in [Clients -> CallType]
    BY NoCallSound DEF Init
  <2>2. calls \in 0..MaxCalls
    BY ConstantsAssumption DEF Init
  <2>3. sprint \in [Sprints -> Statuses]
    BY DEF Init, Statuses
  <2>4. /\ issue \in [Issues -> IssueType] /\ column \in [Columns -> Kinds \cup {"none"}]
        /\ stale \in SUBSET Tables /\ imported \in BOOLEAN
    BY DEF Init
  <2>5. QED BY <2>1, <2>2, <2>3, <2>4 DEF TypeOK
<1>2. \A c \in Clients : Sound(call[c])
  BY NoCallSound DEF Init
<1>3. OneActiveUnlessStale
  BY DEF Init, OneActiveUnlessStale
<1>4. QED BY <1>1, <1>2, <1>3 DEF Inv

\* The steps of a client, by the lemma they come under.
LEMMA StepKeeps ==
  ASSUME Inv, NEW c \in Clients, CallStep(c)
  PROVE  Inv'
<1>0. UNCHANGED imported
  BY DEF CallStep
<1>1. CASE SprintStep(c)
  BY <1>0, <1>1, SprintLoads, SprintLooks, SprintWrites, SprintOthers DEF SprintStep
<1>2. CASE ColumnStep(c)
  BY <1>0, <1>2, ColumnLooks, ColumnWrites DEF ColumnStep
<1>3. CASE IssueStep(c)
  BY <1>0, <1>3, IssueLooks, IssueWrites DEF IssueStep
<1>4. CASE CallFails(c)
  BY <1>0, <1>4, RejectKeeps DEF CallFails
<1>5. QED BY <1>1, <1>2, <1>3, <1>4 DEF CallStep

\* The migration writes a sprint, and with it an end to what the calls know of sprints.
LEMMA ImportKeeps ==
  ASSUME Inv, NEW c \in Clients, MigrationStep(c)
  PROVE  Inv'
<1>1. PICK s \in Sprints, to \in {"planned", "active", "completed"} : ImportSprint(c, s, to)
  BY DEF MigrationStep
<1>2. TypeOK /\ OneActiveUnlessStale
  BY DEF Inv
<1>3. /\ sprint' = [sprint EXCEPT ![s] = to] /\ sprint' \in [Sprints -> Statuses]
      /\ imported' = (imported \/ to = "active") /\ imported' \in BOOLEAN
      /\ call' = Dirtied(c, {"sprints"}, NoCall) /\ UNCHANGED <<issue, column, stale>>
  BY <1>1, <1>2 DEF ImportSprint, WriteOnce, TypeOK, Statuses
<1>4. calls' \in 0..MaxCalls
  BY <1>1, <1>2, ConstantsAssumption DEF ImportSprint, WriteOnce, TypeOK
<1>5. OneActiveUnlessStale'
  BY <1>2, <1>3 DEF OneActiveUnlessStale, Active, TypeOK
<1>6. {"sprints"} \in SUBSET Tables
  BY DEF Tables
<1>7. issue' \in [Issues -> IssueType] /\ column' \in [Columns -> Kinds \cup {"none"}]
      /\ stale' \in SUBSET Tables
  BY <1>2, <1>3 DEF TypeOK
<1>8. QED BY <1>3, <1>4, <1>5, <1>6, <1>7, NoCallSoundNext, WriteKeeps

LEMMA InvNext == Inv /\ [Next]_vars => Inv'
<1>1. ASSUME Inv, UNCHANGED vars PROVE Inv'
  BY <1>1 DEF vars, Inv, TypeOK, IssueType, CallType, Sound, Names, Knows, Active,
              OneActiveUnlessStale
<1>2. QED BY <1>1, StepKeeps, ImportKeeps DEF Next

\* Sprints, issues, columns and calls keep their types (sprints.service.ts,
\* boards.service.ts and issues.service.ts, the statements named in the model).
THEOREM TypeCorrect == Spec => []TypeOK
<1>1. Inv => TypeOK
  BY DEF Inv
<1>2. QED BY <1>1, InvInit, InvNext, PTL DEF Spec

\* One sprint of the project is active at a time until a call saves a sprint that another
\* call has written since (sprints.service.ts:93-148), or the migration writes one that is
\* active in Jira (jira-migration.processor.ts:1414-1451, 1638-1652).
THEOREM OneActiveKept == Spec => []OneActiveUnlessStale
<1>1. Inv => OneActiveUnlessStale
  BY DEF Inv
<1>2. QED BY <1>1, InvInit, InvNext, PTL DEF Spec

-----------------------------------------------------------------------------
(* SprintBoard implements SprintLifecycle                                  *)

LEMMA LifecycleInit == Init => Lifecycle!Init
<1> SUFFICES ASSUME Init PROVE Lifecycle!Init
  OBVIOUS
<1>1. OneActiveUnlessStale /\ "sprints" \notin stale /\ imported = FALSE
  BY InvInit DEF Init, Inv
<1>2. sprint \in [Sprints -> {"none", "planned", "active", "inactive", "completed"}]
  BY DEF Init, Statuses
<1>3. QED BY <1>1, <1>2 DEF Lifecycle!Init, OneActiveUnlessStale, Active

\* Once the sprints are stale they stay so, and SprintLifecycle leaves everything open.
LEMMA StaleStays ==
  ASSUME NEW c \in Clients, SprintStep(c) \/ ColumnStep(c) \/ IssueStep(c) \/ CallFails(c)
  PROVE  stale \subseteq stale'
BY DEF SprintStep, ColumnStep, IssueStep, CallFails, Reject, Go, GoTo, Begin, Write, WriteOnce,
       CreateSprint, UpdateLoad, UpdateSave, StartLoad, StartFind, StartCount, StartHandOver,
       StartSave, CompleteLoad, CompleteTarget, CompleteDone, CompleteFind, CompleteMove,
       CompleteSave, DeleteLoad, DeleteUnassign, DeleteRemove, AddColumn, ColumnLoad,
       ColumnSave, ColumnRemoveLoad, ColumnList, ColumnRefill, ColumnRemove, ReorderLoad,
       ReorderCheck, ReorderMove, SaveRows, IssueLoad, IssueSave, BulkSprint, BulkColumn

\* The statements that write a sprint, and no other.
LEMMA SprintChanges ==
  ASSUME NEW c \in Clients, SprintStep(c) \/ ColumnStep(c) \/ IssueStep(c) \/ CallFails(c)
  PROVE  \/ UNCHANGED sprint
         \/ \E s \in Sprints : CreateSprint(c, s)
         \/ UpdateSave(c) \/ StartHandOver(c) \/ StartSave(c) \/ CompleteSave(c)
         \/ DeleteRemove(c)
BY DEF SprintStep, ColumnStep, IssueStep, CallFails, Reject, Go, GoTo, Begin,
       UpdateLoad, StartLoad, StartFind, StartCount, CompleteLoad, CompleteTarget,
       CompleteDone, CompleteFind, CompleteMove, DeleteLoad, DeleteUnassign, AddColumn,
       ColumnLoad, ColumnSave, ColumnRemoveLoad, ColumnList, ColumnRefill, ColumnRemove,
       ReorderLoad, ReorderCheck, ReorderMove, SaveRows, IssueLoad, IssueSave, BulkSprint,
       BulkColumn

LEMMA LifecycleStep ==
  ASSUME Inv, NEW c \in Clients, SprintStep(c) \/ ColumnStep(c) \/ IssueStep(c) \/ CallFails(c),
         UNCHANGED imported
  PROVE  [Lifecycle!Next]_Lifecycle!vars
<1>1. CASE "sprints" \in stale'
  BY <1>1 DEF Lifecycle!Next, Lifecycle!Disturb
<1>2. CASE "sprints" \notin stale'
  <2>1. ("sprints" \in stale)' = ("sprints" \in stale)
    BY <1>2, StaleStays
  <2>2. CASE UNCHANGED sprint
    BY <2>1, <2>2 DEF Lifecycle!vars
  <2>3. ASSUME NEW s \in Sprints, CreateSprint(c, s) PROVE Lifecycle!Create(s)
    BY <2>3 DEF CreateSprint, Lifecycle!Create, Lifecycle!Set
  <2>4. CASE UpdateSave(c)
    BY <1>2, <2>2, <2>4, UpdateNothing
  <2>5. CASE StartHandOver(c) /\ ~UNCHANGED sprint
    <3>1. call[c].other \in Sprints /\ call[c].sprint \in Sprints
      BY <2>5 DEF StartHandOver, At, Inv, Sound, Names
    <3>2. Lifecycle!HandOver(call[c].other, call[c].sprint)
      BY <2>5 DEF StartHandOver, Reject, Go, Lifecycle!HandOver
    <3>3. QED BY <2>1, <3>1, <3>2 DEF Lifecycle!Next
  <2>6. CASE StartSave(c)
    <3>1. Lifecycle!Start(call[c].sprint) /\ call[c].sprint \in Sprints
      BY <1>2, <2>6, StartOne DEF StartSave, Active, Lifecycle!Start, Lifecycle!Set
    <3>2. QED BY <2>1, <3>1 DEF Lifecycle!Next
  <2>7. CASE CompleteSave(c)
    <3>1. Lifecycle!Complete(call[c].sprint) /\ call[c].sprint \in Sprints
      BY <1>2, <2>7, CompleteOne DEF CompleteSave, Lifecycle!Complete, Lifecycle!Set
    <3>2. QED BY <2>1, <3>1 DEF Lifecycle!Next
  <2>8. CASE DeleteRemove(c)
    <3>1. Lifecycle!Delete(call[c].sprint) /\ call[c].sprint \in Sprints
      BY <1>2, <2>8, DeleteOne DEF DeleteRemove, Lifecycle!Delete, Lifecycle!Set
    <3>2. QED BY <2>1, <3>1 DEF Lifecycle!Next
  <2>9. QED
    BY <2>1, <2>2, <2>3, <2>4, <2>5, <2>6, <2>7, <2>8, SprintChanges DEF Lifecycle!Next
<1>3. QED BY <1>1, <1>2

LEMMA LifecycleImport ==
  ASSUME NEW c \in Clients, MigrationStep(c)
  PROVE  Lifecycle!Next
<1>1. PICK s \in Sprints, to \in {"planned", "active", "completed"} : ImportSprint(c, s, to)
  BY DEF MigrationStep
<1>2. Lifecycle!Import(s, to) /\ UNCHANGED stale
  BY <1>1 DEF ImportSprint, WriteOnce, Lifecycle!Import, Lifecycle!Set
<1>3. QED BY <1>2 DEF Lifecycle!Next

\* The calls of SprintsService, spread over statements and interleaved with each other and
\* with those of boards and issues, change the sprints as SprintLifecycle allows
\* (sprints.service.ts:69-148, 291-352, 394-408), and so does the Jira migration
\* (jira-migration.processor.ts:1414-1451).
THEOREM LifecycleAlwaysKept == Spec => LifecycleKept
<1>1. Inv /\ [Next]_vars => [Lifecycle!Next]_Lifecycle!vars
  <2>1. ASSUME UNCHANGED vars PROVE UNCHANGED Lifecycle!vars
    BY <2>1 DEF vars, Lifecycle!vars
  <2>2. QED BY <2>1, LifecycleStep, LifecycleImport DEF Next, CallStep
<1>2. QED
  BY <1>1, LifecycleInit, InvInit, InvNext, PTL DEF Spec, LifecycleKept, Lifecycle!Spec
=============================================================================
