------------------------ MODULE WebhookDeliveryProofs ------------------------
(***************************************************************************)
(* Proofs about WebhookDelivery for every value of its constants: the type *)
(* invariant, that a delivery waiting to be posted and a promised retry    *)
(* are always in somebody's hands, the bound on automatic attempts, and    *)
(* how many retries a delivery gets.                                       *)
(***************************************************************************)
EXTENDS WebhookDelivery, TLAPS, FiniteSetTheorems

\* What a job, a call and a worker point at exists.
TasksPoint == \A t \in Tasks :
  /\ task[t].state # "none" => task[t].delivery \in Deliveries
  /\ task[t].state \in {"waiting", "active"} => task[t].stalls <= MaxStalls

CallsPoint == \A c \in Clients :
  call[c].pc \in {"add", "retry"} => call[c].delivery \in Deliveries

WorkersPoint == \A t \in Tasks : wk[t].pc = "add" => wk[t].retry \in Deliveries

TypeInv == TypeOK /\ TasksPoint /\ CallsPoint /\ WorkersPoint

\* The actions of each actor.
CallAction(c) == Emit(c) \/ CallStep(c) \/ \E d \in Deliveries : RetryLoad(c, d)

TaskAction(t) == Dispatch(t) \/ WorkerStep(t) \/ Throw(t)

LEMMA NextCases ==
  ASSUME Next
  PROVE  \/ \E c \in Clients : CallAction(c)
         \/ \E w \in Webhooks : Switch(w) \/ Delete(w)
         \/ \E t \in Tasks : TaskAction(t)
         \/ Crash
BY DEF Next, CallAction, TaskAction

-----------------------------------------------------------------------------
(* Types                                                                   *)

LEMMA Within ==
  ASSUME NEW d \in Deliveries
  PROVE  d \in 0..MaxDeliveries
BY ConstantsAssumption DEF Deliveries

LEMMA WaitingType ==
  ASSUME NEW d \in Deliveries
  PROVE  /\ Waiting(d) \in TaskType /\ Waiting(d).delivery = d
         /\ Waiting(d).state = "waiting" /\ Waiting(d).stalls = 0
<1>1. d \in 0..MaxDeliveries
  BY Within
<1>2. 0 \in 0..(MaxStalls + 1)
  BY ConstantsAssumption
<1>3. QED BY <1>1, <1>2 DEF Waiting, TaskType

LEMMA TypeInit == Init => TypeInv
<1> SUFFICES ASSUME Init PROVE TypeInv
  OBVIOUS
<1>1. delivery \in [Deliveries -> DeliveryType]
  BY ConstantsAssumption DEF Init, DeliveryType
<1>2. task \in [Tasks -> TaskType] /\ wk \in [Tasks -> WorkerType]
  BY ConstantsAssumption DEF Init, TaskType, NoTask, WorkerType, Idle
<1>3. call \in [Clients -> CallType]
  BY ConstantsAssumption DEF Init, CallType, NoCall
<1>4. TypeOK
  <2>1. hook \in [Webhooks -> {"active", "inactive", "deleted"}]
    BY DEF Init
  <2>2. /\ events \in 0..MaxEvents /\ manual \in 0..MaxManual
        /\ crashes \in 0..MaxCrashes
    BY ConstantsAssumption DEF Init
  <2>3. lost \in BOOLEAN
    BY DEF Init
  <2>4. QED BY <1>1, <1>2, <1>3, <2>1, <2>2, <2>3 DEF TypeOK
<1>5. TasksPoint /\ CallsPoint /\ WorkersPoint
  BY DEF Init, TasksPoint, CallsPoint, WorkersPoint, NoTask, NoCall, Idle
<1>6. QED BY <1>4, <1>5 DEF TypeInv

\* A new row is of the right type.
LEMMA InsertedType ==
  ASSUME TypeInv, NEW d \in Deliveries, NEW w \in Webhooks, NEW e \in 0..MaxEvents,
         NEW attempt \in Nat, NEW parent \in 0..MaxDeliveries,
         InsertDelivery(d, w, e, attempt, parent)
  PROVE  delivery' \in [Deliveries -> DeliveryType]
BY DEF TypeInv, TypeOK, InsertDelivery, DeliveryType

\* A call moves on to o, and one whose list is now ws continues with a value of its
\* type.
LEMMA CallMoves ==
  ASSUME TypeInv, NEW c \in Clients, NEW o \in CallType,
         call' = [call EXCEPT ![c] = o],
         o.pc \in {"add", "retry"} => o.delivery \in Deliveries
  PROVE  call' \in [Clients -> CallType] /\ CallsPoint'
BY DEF TypeInv, TypeOK, CallsPoint, Deliveries

LEMMA ContinueType ==
  ASSUME TypeInv, NEW c \in Clients, NEW ws \in SUBSET Webhooks, Continue(c, ws)
  PROVE  call' \in [Clients -> CallType] /\ CallsPoint'
<1> DEFINE o == IF ws = {} THEN NoCall
                ELSE [NoCall EXCEPT !.pc = "create", !.event = call[c].event,
                                    !.webhooks = ws]
<1>1. call[c].event \in 0..MaxEvents
  BY DEF TypeInv, TypeOK, CallType
<1>2. o \in CallType /\ o.pc \notin {"add", "retry"}
  <2>1. CASE ws = {}
    BY <2>1, ConstantsAssumption DEF CallType, NoCall
  <2>2. CASE ws # {}
    <3>1. o = [pc |-> "create", event |-> call[c].event, webhooks |-> ws,
               delivery |-> 0, attempt |-> 0]
      BY <2>2 DEF NoCall
    <3>2. 0 \in 0..MaxDeliveries
      BY ConstantsAssumption
    <3> HIDE DEF o
    <3>3. o \in CallType
      BY <1>1, <3>1, <3>2 DEF CallType
    <3>4. QED BY <3>1, <3>3
  <2>3. QED BY <2>1, <2>2
<1>3. call' = [call EXCEPT ![c] = o]
  BY DEF Continue
<1>4. QED BY <1>2, <1>3, CallMoves

LEMMA TypeCall ==
  ASSUME TypeInv, NEW c \in Clients, CallAction(c)
  PROVE  TypeInv'
<1>0. call[c] \in CallType /\ NoCall \in CallType
  BY ConstantsAssumption DEF TypeInv, TypeOK, CallType, NoCall
<1>1. CASE Emit(c)
  <2> DEFINE o == [NoCall EXCEPT !.pc = "find", !.event = events + 1]
  <2>1. events + 1 \in 0..MaxEvents
    BY <1>1, ConstantsAssumption DEF Emit, TypeInv, TypeOK
  <2>2. o \in CallType /\ o.pc = "find"
    BY <1>0, <2>1 DEF CallType, NoCall
  <2>3. call' \in [Clients -> CallType] /\ CallsPoint'
    BY <1>1, <2>2, CallMoves DEF Emit
  <2>4. QED
    BY <1>1, <2>1, <2>3 DEF Emit, TypeInv, TypeOK, TasksPoint, WorkersPoint, queueVars
<1>2. CASE FindWebhooks(c)
  <2>1. call' \in [Clients -> CallType] /\ CallsPoint'
    BY <1>2, ContinueType DEF FindWebhooks
  <2>2. QED
    BY <1>2, <2>1 DEF FindWebhooks, TypeInv, TypeOK, TasksPoint, WorkersPoint, queueVars,
                      boundVars
<1>3. ASSUME NEW d \in Deliveries, CreateDelivery(c, d)
      PROVE  TypeInv'
  <2>1. PICK w \in call[c].webhooks :
          /\ InsertDelivery(d, w, call[c].event, 1, 0)
          /\ call' = [call EXCEPT ![c].pc = "add", ![c].delivery = d,
                                  ![c].webhooks = @ \ {w}]
    BY <1>3 DEF CreateDelivery
  <2>2. delivery' \in [Deliveries -> DeliveryType]
    <3>1. /\ w \in Webhooks /\ call[c].event \in 0..MaxEvents
          /\ 1 \in Nat /\ 0 \in 0..MaxDeliveries
      BY <1>0, ConstantsAssumption DEF CallType
    <3>2. QED BY <2>1, <3>1, InsertedType
  <2> DEFINE o == [call[c] EXCEPT !.pc = "add", !.delivery = d,
                                  !.webhooks = call[c].webhooks \ {w}]
  <2>3. o \in CallType /\ o.delivery = d
    BY <1>0, Within DEF CallType
  <2>4. call' = [call EXCEPT ![c] = o]
    BY <2>1 DEF TypeInv, TypeOK
  <2>5. call' \in [Clients -> CallType] /\ CallsPoint'
    BY <2>3, <2>4, CallMoves
  <2>6. QED
    BY <1>3, <2>2, <2>5 DEF CreateDelivery, TypeInv, TypeOK, TasksPoint, WorkersPoint,
                            queueVars, boundVars
<1>4. CASE AddJob(c)
  <2>1. PICK t \in Tasks : task' = [task EXCEPT ![t] = Waiting(call[c].delivery)]
    BY <1>4 DEF AddJob
  <2>2. call[c].delivery \in Deliveries /\ call[c].webhooks \in SUBSET Webhooks
    BY <1>0, <1>4 DEF AddJob, TypeInv, CallsPoint, CallType
  <2>3. /\ Waiting(call[c].delivery) \in TaskType
        /\ Waiting(call[c].delivery).delivery = call[c].delivery
        /\ Waiting(call[c].delivery).stalls = 0
    BY <2>2, WaitingType
  <2>4. task' \in [Tasks -> TaskType] /\ TasksPoint'
    BY <2>1, <2>2, <2>3, ConstantsAssumption
       DEF TypeInv, TypeOK, TasksPoint, Deliveries
  <2>5. call' \in [Clients -> CallType] /\ CallsPoint'
    BY <1>4, <2>2, ContinueType DEF AddJob
  <2>6. QED
    BY <1>4, <2>4, <2>5 DEF AddJob, TypeInv, TypeOK, WorkersPoint, boundVars
<1>5. CASE EmitError(c)
  <2>1. call[c].webhooks \in SUBSET Webhooks
    BY <1>0 DEF CallType
  <2>2. \E ws \in SUBSET Webhooks : Continue(c, ws)
    BY <1>5, <2>1 DEF EmitError
  <2>3. call' \in [Clients -> CallType] /\ CallsPoint'
    BY <2>2, ContinueType
  <2>4. QED
    BY <1>5, <2>3 DEF EmitError, TypeInv, TypeOK, TasksPoint, WorkersPoint, queueVars,
                      boundVars
<1>6. CASE CallFails(c)
  <2>1. call' \in [Clients -> CallType] /\ CallsPoint'
    BY <1>0, <1>6, CallMoves DEF CallFails, NoCall
  <2>2. lost' \in BOOLEAN
    BY <1>6 DEF CallFails, TypeInv, TypeOK
  <2>3. QED
    BY <1>6, <2>1, <2>2 DEF CallFails, TypeInv, TypeOK, TasksPoint, WorkersPoint, queueVars,
                            boundVars
<1>7. CASE RetrySave(c)
  <2> DEFINE d == call[c].delivery
             o == [NoCall EXCEPT !.pc = "find", !.event = call[c].event]
  <2>1. d \in Deliveries /\ call[c].attempt + 1 \in Nat
    BY <1>0, <1>7 DEF RetrySave, TypeInv, CallsPoint, CallType
  <2>2. o \in CallType /\ o.pc = "find"
    BY <1>0 DEF CallType, NoCall
  <2>3. call' \in [Clients -> CallType] /\ CallsPoint'
    BY <1>7, <2>2, CallMoves DEF RetrySave
  <2>4. delivery' \in [Deliveries -> DeliveryType]
    BY <1>7, <2>1 DEF RetrySave, TypeInv, TypeOK, DeliveryType
  <2>5. QED
    BY <1>7, <2>3, <2>4 DEF RetrySave, TypeInv, TypeOK, TasksPoint, WorkersPoint, queueVars,
                            boundVars
<1>8. ASSUME NEW d \in Deliveries, RetryLoad(c, d)
      PROVE  TypeInv'
  <2> DEFINE o == [NoCall EXCEPT !.pc = "retry", !.delivery = d,
                     !.event = delivery[d].event, !.attempt = delivery[d].attempt]
  <2>1. delivery[d] \in DeliveryType
    BY DEF TypeInv, TypeOK
  <2>2. o \in CallType /\ o.delivery = d
    BY <1>0, <2>1, Within DEF CallType, NoCall, DeliveryType
  <2>3. call' \in [Clients -> CallType] /\ CallsPoint'
    BY <1>8, <2>2, CallMoves DEF RetryLoad
  <2>4. manual' \in 0..MaxManual
    BY <1>8, ConstantsAssumption DEF RetryLoad, TypeInv, TypeOK
  <2>5. QED
    BY <1>8, <2>3, <2>4 DEF RetryLoad, TypeInv, TypeOK, TasksPoint, WorkersPoint, queueVars
<1>9. QED
  BY <1>1, <1>2, <1>3, <1>4, <1>5, <1>6, <1>7, <1>8 DEF CallAction, CallStep

LEMMA TypeHook ==
  ASSUME TypeInv, NEW w \in Webhooks, Switch(w) \/ Delete(w)
  PROVE  TypeInv'
<1>1. hook' \in [Webhooks -> {"active", "inactive", "deleted"}]
  BY DEF Switch, Delete, TypeInv, TypeOK
<1>2. delivery' \in [Deliveries -> DeliveryType]
  BY DEF Switch, Delete, TypeInv, TypeOK, DeliveryType
<1>3. QED
  BY <1>1, <1>2 DEF Switch, Delete, TypeInv, TypeOK, TasksPoint, CallsPoint, WorkersPoint,
                    queueVars, boundVars

\* A worker moves on to o, and its job to s.
LEMMA WorkerMoves ==
  ASSUME TypeInv, NEW t \in Tasks, NEW o \in WorkerType,
         wk' = [wk EXCEPT ![t] = o], o.pc = "add" => o.retry \in Deliveries
  PROVE  wk' \in [Tasks -> WorkerType] /\ WorkersPoint'
BY DEF TypeInv, TypeOK, WorkersPoint, Deliveries

LEMMA TaskEnds ==
  ASSUME TypeInv, NEW t \in Tasks, task[t].state = "active",
         NEW s \in {"completed", "failed"},
         task' = [task EXCEPT ![t].state = s], wk' = [wk EXCEPT ![t] = Idle]
  PROVE  /\ task' \in [Tasks -> TaskType] /\ wk' \in [Tasks -> WorkerType]
         /\ TasksPoint' /\ WorkersPoint'
<1>1. task' \in [Tasks -> TaskType] /\ TasksPoint'
  BY DEF TypeInv, TypeOK, TasksPoint, TaskType, Deliveries
<1>2. Idle \in WorkerType /\ Idle.pc = "idle"
  BY ConstantsAssumption DEF Idle, WorkerType
<1>3. QED BY <1>1, <1>2, WorkerMoves

LEMMA TypeTask ==
  ASSUME TypeInv, NEW t \in Tasks, TaskAction(t)
  PROVE  TypeInv'
<1>0. /\ task[t] \in TaskType /\ wk[t] \in WorkerType /\ wk \in [Tasks -> WorkerType]
      /\ Idle \in WorkerType
      /\ [Idle EXCEPT !.pc = "done"] \in WorkerType
  <2>1. task[t] \in TaskType /\ wk[t] \in WorkerType /\ wk \in [Tasks -> WorkerType]
    BY DEF TypeInv, TypeOK
  <2>2. 0 \in 0..MaxDeliveries
    BY ConstantsAssumption
  <2>3. QED BY <2>1, <2>2 DEF WorkerType, Idle
<1>1. CASE Dispatch(t)
  <2>1. task' \in [Tasks -> TaskType] /\ TasksPoint'
    BY <1>1 DEF Dispatch, TypeInv, TypeOK, TasksPoint, TaskType, Deliveries
  <2>2. wk' \in [Tasks -> WorkerType] /\ WorkersPoint'
    BY <1>0, <1>1 DEF Dispatch, GoTo, TypeInv, WorkersPoint, WorkerType, Deliveries
  <2>3. QED
    BY <1>1, <2>1, <2>2 DEF Dispatch, TypeInv, TypeOK, CallsPoint, boundVars
<1>2. CASE Post(t)
  <2>1. PICK ok \in BOOLEAN : wk' = [wk EXCEPT ![t].pc = "read", ![t].ok = ok]
    BY <1>2 DEF Post
  <2>2. wk' \in [Tasks -> WorkerType] /\ WorkersPoint'
    BY <1>0, <2>1 DEF TypeInv, WorkersPoint, WorkerType, Deliveries
  <2>3. QED
    BY <1>2, <2>2 DEF Post, TypeInv, TypeOK, TasksPoint, CallsPoint, boundVars
<1>3. CASE ReadAttempt(t)
  <2> DEFINE d == task[t].delivery
             a == IF Exists(d) THEN delivery[d].attempt ELSE 1
  <2>1. a \in Nat
    BY <1>0, <1>3 DEF ReadAttempt, Active, TypeInv, TypeOK, TasksPoint, DeliveryType
  <2>2. wk' = [wk EXCEPT ![t].pc = "update", ![t].attempt = a]
    BY <1>3 DEF ReadAttempt
  <2>3. wk' \in [Tasks -> WorkerType] /\ WorkersPoint'
    BY <1>0, <2>1, <2>2 DEF TypeInv, WorkersPoint, WorkerType, Deliveries
  <2>4. QED
    BY <1>3, <2>3 DEF ReadAttempt, TypeInv, TypeOK, TasksPoint, CallsPoint, boundVars
<1>4. CASE UpdateDelivery(t)
  <2>1. task[t].delivery \in Deliveries
    BY <1>4 DEF UpdateDelivery, Active, TypeInv, TasksPoint
  <2>2. delivery' \in [Deliveries -> DeliveryType]
    <3> DEFINE d == task[t].delivery
               status == IF wk[t].ok THEN "success" ELSE "failed"
    <3>1. RetryDue(t) \in BOOLEAN
      BY DEF RetryDue
    <3>2. delivery \in [Deliveries -> DeliveryType] /\ status \in {"success", "failed"}
      BY DEF TypeInv, TypeOK
    <3>3. delivery' = delivery
            \/ delivery' = [delivery EXCEPT ![d].status = status, ![d].retryAt = RetryDue(t)]
      BY <1>4 DEF UpdateDelivery
    <3> HIDE DEF status
    <3>4. QED BY <2>1, <3>1, <3>2, <3>3 DEF DeliveryType
  <2>3. wk' \in [Tasks -> WorkerType] /\ WorkersPoint'
    BY <1>0, <1>4 DEF UpdateDelivery, TypeInv, WorkersPoint, WorkerType, Idle, Deliveries
  <2>4. QED
    BY <1>4, <2>2, <2>3 DEF UpdateDelivery, TypeInv, TypeOK, TasksPoint, CallsPoint, boundVars
<1>5. ASSUME NEW d \in Deliveries, InsertRetry(t, d)
      PROVE  TypeInv'
  <2> DEFINE p == task[t].delivery
             o == [Idle EXCEPT !.pc = "add", !.retry = d]
  <2>1. p \in Deliveries /\ delivery[p] \in DeliveryType
    BY <1>5 DEF InsertRetry, Active, TypeInv, TypeOK, TasksPoint
  <2>2. /\ delivery[p].hook \in Webhooks /\ delivery[p].event \in 0..MaxEvents
        /\ wk[t].attempt + 1 \in Nat /\ p \in 0..MaxDeliveries
    BY <1>0, <2>1 DEF DeliveryType, WorkerType, Deliveries
  <2>3. delivery' \in [Deliveries -> DeliveryType]
    BY <1>5, <2>2, InsertedType DEF InsertRetry
  <2>4. o \in WorkerType /\ o.retry = d
    BY <1>0, Within DEF Idle, WorkerType
  <2>5. wk' \in [Tasks -> WorkerType] /\ WorkersPoint'
    BY <1>5, <2>4, WorkerMoves DEF InsertRetry
  <2>6. QED
    BY <1>5, <2>3, <2>5 DEF InsertRetry, TypeInv, TypeOK, TasksPoint, CallsPoint, boundVars
<1>6. CASE InsertRefused(t)
  <2>1. /\ task' \in [Tasks -> TaskType] /\ wk' \in [Tasks -> WorkerType]
        /\ TasksPoint' /\ WorkersPoint'
    BY <1>6, TaskEnds DEF InsertRefused, JobFails, Active
  <2>2. QED
    BY <1>6, <2>1 DEF InsertRefused, TypeInv, TypeOK, CallsPoint, boundVars
<1>7. CASE AddRetry(t)
  <2>1. PICK u \in Tasks : task' = [task EXCEPT ![u] = Waiting(wk[t].retry)]
    BY <1>7 DEF AddRetry
  <2>2. wk[t].retry \in Deliveries
    BY <1>7 DEF AddRetry, Active, TypeInv, WorkersPoint
  <2>3. /\ Waiting(wk[t].retry) \in TaskType
        /\ Waiting(wk[t].retry).delivery = wk[t].retry
        /\ Waiting(wk[t].retry).stalls = 0
    BY <2>2, WaitingType
  <2>4. task' \in [Tasks -> TaskType] /\ TasksPoint'
    BY <2>1, <2>2, <2>3, ConstantsAssumption DEF TypeInv, TypeOK, TasksPoint, Deliveries
  <2>5. wk' \in [Tasks -> WorkerType] /\ WorkersPoint'
    BY <1>0, <1>7, WorkerMoves DEF AddRetry, Idle
  <2>6. QED
    BY <1>7, <2>4, <2>5 DEF AddRetry, TypeInv, TypeOK, CallsPoint, boundVars
<1>8. CASE Done(t)
  <2>1. /\ task' \in [Tasks -> TaskType] /\ wk' \in [Tasks -> WorkerType]
        /\ TasksPoint' /\ WorkersPoint'
    BY <1>8, TaskEnds DEF Done, Active
  <2>2. QED
    BY <1>8, <2>1 DEF Done, TypeInv, TypeOK, CallsPoint, boundVars
<1>9. CASE Throw(t)
  <2>1. /\ task' \in [Tasks -> TaskType] /\ wk' \in [Tasks -> WorkerType]
        /\ TasksPoint' /\ WorkersPoint'
    BY <1>9, TaskEnds DEF Throw, JobFails
  <2>2. QED
    BY <1>9, <2>1 DEF Throw, TypeInv, TypeOK, CallsPoint, boundVars
<1>10. QED
  BY <1>1, <1>2, <1>3, <1>4, <1>5, <1>6, <1>7, <1>8, <1>9 DEF TaskAction, WorkerStep

LEMMA TypeCrash ==
  ASSUME TypeInv, Crash
  PROVE  TypeInv'
<1>1. task' \in [Tasks -> TaskType] /\ TasksPoint'
  <2>1. ASSUME NEW t \in Tasks
        PROVE  /\ task'[t] \in TaskType
               /\ task'[t].state # "none" => task'[t].delivery \in Deliveries
               /\ task'[t].state \in {"waiting", "active"} => task'[t].stalls <= MaxStalls
    <3>1. task[t] \in TaskType /\ task[t].stalls \in Nat /\ MaxStalls \in Nat
      BY ConstantsAssumption DEF TypeInv, TypeOK, TaskType
    <3>2. CASE task[t].state # "active"
      BY <3>1, <3>2 DEF Crash, TypeInv, TasksPoint
    <3>3. CASE task[t].state = "active"
      <4>1. task[t].delivery \in Deliveries /\ task[t].stalls <= MaxStalls
        BY <3>3 DEF TypeInv, TasksPoint
      <4>2. task'[t] = [task[t] EXCEPT !.stalls = task[t].stalls + 1,
                          !.state = IF task[t].stalls + 1 > MaxStalls THEN "failed"
                                    ELSE "waiting"]
        BY <3>3 DEF Crash
      <4>3. /\ task'[t].stalls = task[t].stalls + 1
            /\ task'[t].delivery = task[t].delivery
            /\ task'[t].state = IF task[t].stalls + 1 > MaxStalls THEN "failed"
                                ELSE "waiting"
        BY <3>1, <4>2 DEF TaskType
      <4>4. task'[t] \in TaskType
        <5>1. task[t].stalls + 1 \in 0..(MaxStalls + 1)
          BY <3>1, <4>1
        <5>2. QED BY <3>1, <4>2, <5>1 DEF TaskType
      <4>5. QED BY <3>1, <4>1, <4>3, <4>4
    <3>4. QED BY <3>2, <3>3
  <2>2. QED BY <2>1 DEF Crash, TasksPoint, Deliveries
<1>2. wk' \in [Tasks -> WorkerType] /\ WorkersPoint'
  <2>1. Idle \in WorkerType /\ Idle.pc = "idle"
    BY ConstantsAssumption DEF WorkerType, Idle
  <2>2. \A t \in Tasks : wk'[t] = Idle
    BY DEF Crash
  <2>3. QED BY <2>1, <2>2 DEF Crash, WorkersPoint
<1>3. crashes' \in 0..MaxCrashes
  <2>1. crashes \in 0..MaxCrashes /\ crashes < MaxCrashes /\ crashes' = crashes + 1
    BY DEF Crash, TypeInv, TypeOK
  <2>2. QED BY <2>1, ConstantsAssumption
<1>4. lost' \in BOOLEAN
  BY DEF Crash, TypeInv, TypeOK
<1>5. QED
  BY <1>1, <1>2, <1>3, <1>4 DEF Crash, TypeInv, TypeOK, CallsPoint

LEMMA TypeStep == TypeInv /\ [Next]_vars => TypeInv'
<1> SUFFICES ASSUME TypeInv, [Next]_vars PROVE TypeInv'
  OBVIOUS
<1>1. CASE UNCHANGED vars
  BY <1>1 DEF vars, queueVars, boundVars, TypeInv, TypeOK, TasksPoint, CallsPoint, WorkersPoint
<1>2. CASE Next
  BY <1>2, NextCases, TypeCall, TypeHook, TypeTask, TypeCrash
<1>3. QED BY <1>1, <1>2

\* The variables keep their types, whatever calls, jobs and crashes interleave.
THEOREM TypeCorrect == Spec => []TypeOK
<1>1. TypeInv => TypeOK
  BY DEF TypeInv
<1>2. QED BY TypeInit, TypeStep, <1>1, PTL DEF Spec

-----------------------------------------------------------------------------
(* Attempts                                                                *)

\* A worker about to insert a retry saw an attempt below the maximum.
AttemptInv ==
  /\ AttemptsBounded
  /\ \A t \in Tasks : wk[t].pc = "insert" => wk[t].attempt < MaxAttempts

LEMMA AttemptInit == Init => AttemptInv
<1> SUFFICES ASSUME Init PROVE AttemptInv
  OBVIOUS
<1>1. \A d \in Deliveries : delivery[d].attempt = 0
  BY DEF Init
<1>2. \A t \in Tasks : wk[t].pc = "idle"
  BY DEF Init, Idle
<1>3. QED BY <1>1, <1>2, ConstantsAssumption DEF AttemptInv, AttemptsBounded

\* A row inserted with an attempt within the bound.
LEMMA AttemptInsert ==
  ASSUME TypeInv, AttemptsBounded, NEW d \in Deliveries, NEW w, NEW e, NEW attempt, NEW p,
         InsertDelivery(d, w, e, attempt, p), attempt <= MaxAttempts
  PROVE  AttemptsBounded'
<1>1. delivery \in [Deliveries -> DeliveryType]
  BY DEF TypeInv, TypeOK
<1>2. \A r \in Deliveries : delivery'[r] = IF r = d
        THEN [hook |-> w, event |-> e, status |-> "pending", attempt |-> attempt,
              retryAt |-> FALSE, parent |-> p, reset |-> FALSE]
        ELSE delivery[r]
  BY <1>1 DEF InsertDelivery
<1>3. QED BY <1>2 DEF AttemptsBounded

LEMMA AttemptStep ==
  ASSUME TypeInv, AttemptInv, [Next]_vars
  PROVE  AttemptInv'
<1>0. delivery \in [Deliveries -> DeliveryType] /\ wk \in [Tasks -> WorkerType]
  BY DEF TypeInv, TypeOK
<1>1. CASE UNCHANGED vars
  BY <1>1 DEF vars, queueVars, AttemptInv, AttemptsBounded
<1>2. ASSUME NEW c \in Clients, CallAction(c)
      PROVE  AttemptInv'
  <2>1. wk' = wk
    BY <1>2 DEF CallAction, Emit, CallStep, FindWebhooks, CreateDelivery, AddJob, EmitError,
                CallFails, RetrySave, RetryLoad, queueVars
  <2>2. ASSUME NEW d \in Deliveries, CreateDelivery(c, d)
        PROVE  AttemptsBounded'
    <3>1. PICK w \in call[c].webhooks : InsertDelivery(d, w, call[c].event, 1, 0)
      BY <2>2 DEF CreateDelivery
    <3>2. 1 <= MaxAttempts
      BY ConstantsAssumption
    <3>3. QED BY <3>1, <3>2, AttemptInsert DEF AttemptInv
  <2>3. ASSUME RetrySave(c)
        PROVE  AttemptsBounded'
    <3> DEFINE d == call[c].delivery
    <3>1. d \in Deliveries
      BY <2>3 DEF RetrySave, TypeInv, CallsPoint
    <3>2. /\ \A e \in Deliveries : e # d => delivery'[e] = delivery[e]
          /\ delivery'[d].reset
      BY <1>0, <2>3, <3>1 DEF RetrySave, DeliveryType
    <3>3. QED BY <3>2 DEF AttemptInv, AttemptsBounded
  <2>4. ASSUME UNCHANGED delivery
        PROVE  AttemptsBounded'
    BY <2>4 DEF AttemptInv, AttemptsBounded
  <2>5. AttemptsBounded'
    BY <1>2, <2>2, <2>3, <2>4 DEF CallAction, Emit, CallStep, FindWebhooks, AddJob,
                                   EmitError, CallFails, RetryLoad
  <2>6. QED BY <2>1, <2>5 DEF AttemptInv
<1>3. ASSUME NEW w \in Webhooks, Switch(w) \/ Delete(w)
      PROVE  AttemptInv'
  <2>1. wk' = wk
    BY <1>3 DEF Switch, Delete, queueVars
  <2>2. \A d \in Deliveries : delivery'[d].attempt = delivery[d].attempt
                              /\ delivery'[d].reset = delivery[d].reset
    BY <1>0, <1>3 DEF Switch, Delete, DeliveryType
  <2>3. QED BY <2>1, <2>2 DEF AttemptInv, AttemptsBounded
<1>4. ASSUME NEW t \in Tasks, TaskAction(t)
      PROVE  AttemptInv'
  <2>1. CASE UpdateDelivery(t)
    <3>1. \A d \in Deliveries : delivery'[d].attempt = delivery[d].attempt
                                /\ delivery'[d].reset = delivery[d].reset
      BY <1>0, <2>1 DEF UpdateDelivery, DeliveryType
    <3>2. \A u \in Tasks : wk'[u].pc = "insert" => wk'[u].attempt < MaxAttempts
      BY <1>0, <2>1 DEF UpdateDelivery, RetryDue, AttemptInv, WorkerType, Idle
    <3>3. QED BY <3>1, <3>2 DEF AttemptInv, AttemptsBounded
  <2>2. ASSUME NEW d \in Deliveries, InsertRetry(t, d)
        PROVE  AttemptInv'
    <3>1. wk[t].attempt \in Nat /\ wk[t].attempt < MaxAttempts
      BY <1>0, <2>2 DEF InsertRetry, Active, AttemptInv, WorkerType
    <3>2. wk[t].attempt + 1 <= MaxAttempts
      BY <3>1, ConstantsAssumption
    <3>3. AttemptsBounded'
      BY <2>2, <3>2, AttemptInsert DEF InsertRetry, AttemptInv
    <3>4. \A u \in Tasks : wk'[u].pc = "insert" => wk'[u].attempt < MaxAttempts
      BY <1>0, <2>2 DEF InsertRetry, AttemptInv, Idle
    <3>5. QED BY <3>3, <3>4 DEF AttemptInv
  <2>3. CASE Dispatch(t) \/ Post(t) \/ ReadAttempt(t)
    <3>1. PICK pc \in {"post", "read", "update"} : wk'[t].pc = pc
      BY <1>0, <2>3 DEF Dispatch, GoTo, Post, ReadAttempt, WorkerType
    <3>2. \A u \in Tasks : u # t => wk'[u] = wk[u]
      BY <1>0, <2>3 DEF Dispatch, GoTo, Post, ReadAttempt
    <3>3. UNCHANGED delivery
      BY <2>3 DEF Dispatch, Post, ReadAttempt
    <3>4. QED BY <3>1, <3>2, <3>3 DEF AttemptInv, AttemptsBounded
  <2>4. CASE InsertRefused(t) \/ AddRetry(t) \/ Done(t) \/ Throw(t)
    <3>1. PICK o \in {Idle, [Idle EXCEPT !.pc = "done"]} : wk' = [wk EXCEPT ![t] = o]
      BY <2>4 DEF InsertRefused, JobFails, AddRetry, Done, Throw
    <3>2. o.pc # "insert"
      BY DEF Idle
    <3>3. UNCHANGED delivery
      BY <2>4 DEF InsertRefused, AddRetry, Done, Throw
    <3>4. QED BY <1>0, <3>1, <3>2, <3>3 DEF AttemptInv, AttemptsBounded
  <2>5. QED
    BY <1>4, <2>1, <2>2, <2>3, <2>4 DEF TaskAction, WorkerStep
<1>5. CASE Crash
  <2>1. \A t \in Tasks : wk'[t].pc = "idle"
    BY <1>5 DEF Crash, Idle
  <2>2. QED BY <1>5, <2>1 DEF Crash, AttemptInv, AttemptsBounded
<1>6. QED BY <1>1, <1>2, <1>3, <1>4, <1>5, NextCases

\* The worker never inserts a delivery past MAX_ATTEMPTS, whatever stalls, is retried
\* by hand or is run twice.
THEOREM AttemptsAlwaysBounded == Spec => []AttemptsBounded
<1>1. Init => TypeInv /\ AttemptInv
  BY TypeInit, AttemptInit
<1>2. (TypeInv /\ AttemptInv) /\ [Next]_vars => (TypeInv /\ AttemptInv)'
  BY TypeStep, AttemptStep
<1>3. AttemptInv => AttemptsBounded
  BY DEF AttemptInv
<1>4. QED BY <1>1, <1>2, <1>3, PTL DEF Spec

-----------------------------------------------------------------------------
(* Deliveries in hand                                                      *)

\* Job t has yet to record an answer for d, or to insert the retry it owes d.
Records(t, d) ==
  /\ task[t].delivery = d
  /\ task[t].state = "waiting" \/ Active(t, "post") \/ Active(t, "read") \/ Active(t, "update")

Owes(t, d) ==
  \/ Records(t, d)
  \/ task[t].delivery = d /\ Active(t, "insert")

\* The job of d is about to be added.
Adds(d) ==
  \/ \E c \in Clients : call[c].pc = "add" /\ call[c].delivery = d
  \/ \E t \in Tasks : Active(t, "add") /\ wk[t].retry = d

PendingOwed(d) ==
  delivery[d].status = "pending" /\ ~delivery[d].reset =>
    Adds(d) \/ \E t \in Tasks : Records(t, d)

RetryOwed(d) ==
  delivery[d].status = "failed" /\ delivery[d].retryAt =>
    \/ \E t \in Tasks : Owes(t, d)
    \/ \E r \in Deliveries : delivery[r].parent = d

\* Rows not inserted are nobody's retry, and a deleted webhook has no rows.
RowsClean == \A d \in Deliveries :
  /\ delivery[d].status = "none" => delivery[d].parent = 0
  /\ hook[delivery[d].hook] = "deleted" => ~Exists(d)

OwedInv ==
  /\ RowsClean
  /\ ~lost => \A d \in Deliveries : PendingOwed(d) /\ RetryOwed(d)

LEMMA OwedInit == Init => OwedInv
<1> SUFFICES ASSUME Init PROVE OwedInv
  OBVIOUS
<1>1. \A d \in Deliveries : delivery[d].status = "none" /\ delivery[d].parent = 0
  BY DEF Init
<1>2. QED BY <1>1 DEF OwedInv, RowsClean, Exists, PendingOwed, RetryOwed

\* What a new row changes: it is pending, and no row loses its retry.
LEMMA OwedInsert ==
  ASSUME TypeInv, OwedInv, NEW d \in Deliveries, NEW w \in Webhooks, NEW e, NEW attempt,
         NEW p, InsertDelivery(d, w, e, attempt, p), hook[w] # "deleted", hook' = hook
  PROVE  /\ RowsClean'
         /\ delivery'[d].status = "pending" /\ delivery'[d].parent = p
         /\ \A r \in Deliveries : r # d => delivery'[r] = delivery[r]
         /\ \A r, q \in Deliveries : delivery[r].parent = q => delivery'[r].parent = q
<1>1. delivery \in [Deliveries -> DeliveryType]
  BY DEF TypeInv, TypeOK
<1>2. \A r \in Deliveries : delivery'[r] = IF r = d
        THEN [hook |-> w, event |-> e, status |-> "pending", attempt |-> attempt,
              retryAt |-> FALSE, parent |-> p, reset |-> FALSE]
        ELSE delivery[r]
  BY <1>1 DEF InsertDelivery
<1>3. delivery[d].parent = 0
  BY DEF InsertDelivery, NewDelivery, OwedInv, RowsClean
<1>4. \A q \in Deliveries : q # 0
  BY ConstantsAssumption DEF Deliveries
<1>5. RowsClean'
  BY <1>2 DEF OwedInv, RowsClean, Exists
<1>6. QED BY <1>2, <1>3, <1>4, <1>5

\* Nothing is dropped: what recorded, owed or was about to add still does.
LEMMA OwedKept ==
  ASSUME OwedInv, ~lost,
         \A d \in Deliveries : \A t \in Tasks :
           /\ Records(t, d) => Records(t, d)'
           /\ Owes(t, d) => Owes(t, d)',
         \A d \in Deliveries : Adds(d) => Adds(d)' \/ \E t \in Tasks : Records(t, d)',
         NEW d \in Deliveries, delivery'[d] = delivery[d],
         \A r \in Deliveries : delivery[r].parent = d => delivery'[r].parent = d
  PROVE  PendingOwed(d)' /\ RetryOwed(d)'
<1>1. PendingOwed(d) /\ RetryOwed(d)
  BY DEF OwedInv
<1>2. PendingOwed(d)'
  BY <1>1 DEF PendingOwed
<1>3. RetryOwed(d)'
  BY <1>1 DEF RetryOwed
<1>4. QED BY <1>2, <1>3

LEMMA OwedCall ==
  ASSUME TypeInv, OwedInv, NEW c \in Clients, CallAction(c)
  PROVE  OwedInv'
<1>0. /\ call \in [Clients -> CallType] /\ task \in [Tasks -> TaskType]
      /\ delivery \in [Deliveries -> DeliveryType] /\ hook' = hook /\ wk' = wk
  BY DEF TypeInv, TypeOK, CallAction, Emit, CallStep, FindWebhooks, CreateDelivery, AddJob,
         EmitError, CallFails, RetrySave, RetryLoad, queueVars
\* A call that is not adding a job changes itself only.
<1>1. ASSUME call[c].pc # "add", UNCHANGED <<task, delivery, lost>>,
             \A b \in Clients : b # c => call'[b] = call[b]
      PROVE  OwedInv'
  <2>1. RowsClean'
    BY <1>0, <1>1 DEF OwedInv, RowsClean, Exists
  <2>2. \A d \in Deliveries : \A t \in Tasks :
          (Records(t, d) => Records(t, d)') /\ (Owes(t, d) => Owes(t, d)')
    BY <1>0, <1>1 DEF Records, Owes, Active
  <2>3. \A d \in Deliveries : Adds(d) => Adds(d)'
    BY <1>0, <1>1 DEF Adds, Active
  <2>4. ASSUME ~lost' PROVE \A d \in Deliveries : PendingOwed(d)' /\ RetryOwed(d)'
    BY <1>1, <2>2, <2>3, <2>4, OwedKept
  <2>5. QED BY <2>1, <2>4 DEF OwedInv
<1>2. CASE Emit(c) \/ FindWebhooks(c) \/ \E d \in Deliveries : RetryLoad(c, d)
  <2>1. PICK o : call' = [call EXCEPT ![c] = o]
    BY <1>2 DEF Emit, FindWebhooks, Continue, RetryLoad
  <2>2. call[c].pc # "add" /\ UNCHANGED <<task, delivery, lost>>
    BY <1>2 DEF Emit, FindWebhooks, RetryLoad, queueVars
  <2>3. QED BY <1>0, <1>1, <2>1, <2>2
<1>3. CASE EmitError(c) \/ CallFails(c)
  <2>1. PICK o : call' = [call EXCEPT ![c] = o]
    BY <1>3 DEF EmitError, CallFails, Continue
  <2>2. UNCHANGED <<task, delivery>>
    BY <1>3 DEF EmitError, CallFails, queueVars
  <2>3. CASE lost'
    BY <1>0, <2>2, <2>3 DEF OwedInv, RowsClean, Exists
  <2>4. CASE ~lost'
    <3>1. CallFails(c) /\ ~lost /\ call[c].pc # "add"
      BY <1>3, <2>4 DEF EmitError, CallFails
    <3>2. ASSUME NEW d \in Deliveries PROVE PendingOwed(d)' /\ RetryOwed(d)'
      <4>1. \A t \in Tasks : \A e \in Deliveries :
              (Records(t, e) => Records(t, e)') /\ (Owes(t, e) => Owes(t, e)')
        BY <1>0, <2>2 DEF Records, Owes, Active
      <4>2. \A e \in Deliveries : Adds(e) => Adds(e)'
        BY <1>0, <2>1, <2>2, <3>1 DEF Adds, Active
      <4>3. QED BY <2>2, <3>1, <4>1, <4>2, OwedKept
    <3>3. RowsClean'
      BY <1>0, <2>2 DEF OwedInv, RowsClean, Exists
    <3>4. QED BY <3>2, <3>3 DEF OwedInv
  <2>5. QED BY <2>3, <2>4
<1>4. ASSUME NEW e \in Deliveries, CreateDelivery(c, e)
      PROVE  OwedInv'
  <2>1. PICK w \in call[c].webhooks :
          hook[w] # "deleted" /\ InsertDelivery(e, w, call[c].event, 1, 0)
    BY <1>4 DEF CreateDelivery
  <2>2. w \in Webhooks /\ call[c].pc # "add"
    BY <1>0, <1>4 DEF CreateDelivery, CallType
  <2>3. /\ RowsClean'
        /\ \A r \in Deliveries : r # e => delivery'[r] = delivery[r]
        /\ delivery'[e].status = "pending"
        /\ \A r, q \in Deliveries : delivery[r].parent = q => delivery'[r].parent = q
    BY <1>0, <2>1, <2>2, OwedInsert
  <2>4. UNCHANGED <<task, lost>> /\ call'[c].pc = "add" /\ call'[c].delivery = e
        /\ \A b \in Clients : b # c => call'[b] = call[b]
    BY <1>0, <1>4 DEF CreateDelivery, queueVars, CallType
  <2>5. \A d \in Deliveries : \A t \in Tasks :
          (Records(t, d) => Records(t, d)') /\ (Owes(t, d) => Owes(t, d)')
    BY <1>0, <2>4 DEF Records, Owes, Active
  <2>6. \A d \in Deliveries : Adds(d) => Adds(d)'
    BY <1>0, <2>2, <2>4 DEF Adds, Active
  <2>7. PendingOwed(e)' /\ RetryOwed(e)'
    BY <2>3, <2>4 DEF PendingOwed, RetryOwed, Adds
  <2>8. ASSUME ~lost', NEW d \in Deliveries, d # e PROVE PendingOwed(d)' /\ RetryOwed(d)'
    BY <2>3, <2>4, <2>5, <2>6, <2>8, OwedKept
  <2>9. QED BY <2>3, <2>7, <2>8 DEF OwedInv
<1>5. CASE AddJob(c)
  <2>1. PICK u \in Tasks : NewTask(u) /\ task' = [task EXCEPT ![u] = Waiting(call[c].delivery)]
    BY <1>5 DEF AddJob
  <2>2. PICK o : call' = [call EXCEPT ![c] = o]
    BY <1>5 DEF AddJob, Continue
  <2>3. UNCHANGED <<delivery, lost>>
    BY <1>5 DEF AddJob
  <2>4. \A t \in Tasks : t # u => task'[t] = task[t]
    BY <1>0, <2>1
  <2>5. task[u].state = "none" /\ task'[u].state = "waiting"
        /\ task'[u].delivery = call[c].delivery
    BY <1>0, <2>1 DEF NewTask, Waiting
  <2>6. \A d \in Deliveries : \A t \in Tasks :
          (Records(t, d) => Records(t, d)') /\ (Owes(t, d) => Owes(t, d)')
    BY <1>0, <2>4, <2>5 DEF Records, Owes, Active
  <2>7. \A d \in Deliveries : Adds(d) => Adds(d)' \/ Records(u, d)'
    BY <1>0, <2>2, <2>4, <2>5 DEF Adds, Records, Active
  <2>8. RowsClean'
    BY <1>0, <2>3 DEF OwedInv, RowsClean, Exists
  <2>9. ASSUME ~lost' PROVE \A d \in Deliveries : PendingOwed(d)' /\ RetryOwed(d)'
    BY <2>3, <2>6, <2>7, <2>9, OwedKept
  <2>10. QED BY <2>8, <2>9 DEF OwedInv
<1>6. CASE RetrySave(c)
  <2>1. PICK e \in Deliveries :
          /\ e = call[c].delivery /\ Exists(e) /\ call[c].pc # "add"
          /\ UNCHANGED <<task, lost>>
    BY <1>6 DEF RetrySave, TypeInv, CallsPoint, queueVars
  <2>2. \A b \in Clients : b # c => call'[b] = call[b]
    BY <1>0, <1>6 DEF RetrySave
  <2>3. /\ \A d \in Deliveries : d # e => delivery'[d] = delivery[d]
        /\ delivery'[e].status = "pending" /\ delivery'[e].reset
        /\ delivery'[e].parent = delivery[e].parent /\ delivery'[e].hook = delivery[e].hook
    BY <1>0, <1>6, <2>1 DEF RetrySave, DeliveryType
  <2>4. RowsClean'
    BY <1>0, <2>1, <2>3 DEF OwedInv, RowsClean, Exists
  <2>5. PendingOwed(e)' /\ RetryOwed(e)'
    BY <2>3 DEF PendingOwed, RetryOwed
  <2>6. \A d \in Deliveries : \A t \in Tasks :
          (Records(t, d) => Records(t, d)') /\ (Owes(t, d) => Owes(t, d)')
    BY <1>0, <2>1 DEF Records, Owes, Active
  <2>7. \A d \in Deliveries : Adds(d) => Adds(d)'
    BY <1>0, <2>1, <2>2 DEF Adds, Active
  <2>8. \A d, r \in Deliveries : delivery[r].parent = d => delivery'[r].parent = d
    BY <2>3
  <2>9. ASSUME ~lost', NEW d \in Deliveries, d # e PROVE PendingOwed(d)' /\ RetryOwed(d)'
    BY <2>1, <2>3, <2>6, <2>7, <2>8, <2>9, OwedKept
  <2>10. QED BY <2>4, <2>5, <2>9 DEF OwedInv
<1>7. QED
  BY <1>2, <1>3, <1>4, <1>5, <1>6 DEF CallAction, CallStep

LEMMA OwedHook ==
  ASSUME TypeInv, OwedInv, NEW w \in Webhooks, Switch(w) \/ Delete(w)
  PROVE  OwedInv'
<1>0. /\ delivery \in [Deliveries -> DeliveryType]
      /\ hook \in [Webhooks -> {"active", "inactive", "deleted"}]
      /\ UNCHANGED <<task, wk, call, lost>>
  BY DEF TypeInv, TypeOK, Switch, Delete, queueVars
<1>1. \A d \in Deliveries : \A t \in Tasks :
        (Records(t, d) => Records(t, d)') /\ (Owes(t, d) => Owes(t, d)')
  BY <1>0 DEF Records, Owes, Active
<1>2. \A d \in Deliveries : Adds(d) => Adds(d)'
  BY <1>0 DEF Adds, Active
<1>3. ASSUME NEW d \in Deliveries
      PROVE  /\ delivery'[d].parent = delivery[d].parent
             /\ delivery'[d].hook = delivery[d].hook
             /\ delivery'[d] = delivery[d] \/ delivery'[d].status = "gone"
  BY <1>0 DEF Switch, Delete, DeliveryType
<1>4. RowsClean'
  <2>1. ASSUME NEW d \in Deliveries, hook'[delivery[d].hook] = "deleted"
        PROVE  hook[delivery[d].hook] = "deleted" \/ ~Exists(d)'
    <3>1. delivery[d].hook \in Webhooks
      BY <1>0 DEF DeliveryType
    <3>2. CASE Switch(w)
      BY <1>0, <2>1, <3>1, <3>2 DEF Switch
    <3>3. CASE Delete(w) /\ delivery[d].hook # w
      BY <1>0, <2>1, <3>1, <3>3 DEF Delete
    <3>4. CASE Delete(w) /\ delivery[d].hook = w
      <4>1. delivery'[d] = IF Exists(d) THEN [delivery[d] EXCEPT !.status = "gone"]
                           ELSE delivery[d]
        BY <3>4 DEF Delete
      <4>2. CASE Exists(d)
        BY <1>0, <4>1, <4>2 DEF Exists, DeliveryType
      <4>3. CASE ~Exists(d)
        BY <4>1, <4>3 DEF Exists
      <4>4. QED BY <4>2, <4>3
    <3>5. QED BY <3>2, <3>3, <3>4
  <2>2. ASSUME NEW d \in Deliveries
        PROVE  /\ delivery'[d].status = "none" => delivery'[d].parent = 0
               /\ hook'[delivery'[d].hook] = "deleted" => ~Exists(d)'
    <3>1. CASE delivery'[d] = delivery[d]
      BY <2>1, <3>1 DEF OwedInv, RowsClean, Exists
    <3>2. CASE delivery'[d].status = "gone"
      BY <3>2 DEF Exists
    <3>3. QED BY <1>3, <3>1, <3>2
  <2>3. QED BY <2>2 DEF RowsClean
<1>5. ASSUME ~lost', NEW d \in Deliveries PROVE PendingOwed(d)' /\ RetryOwed(d)'
  <2>1. CASE delivery'[d] = delivery[d]
    BY <1>0, <1>1, <1>2, <1>3, <1>5, <2>1, OwedKept
  <2>2. CASE delivery'[d].status = "gone"
    BY <2>2 DEF PendingOwed, RetryOwed
  <2>3. QED BY <1>3, <2>1, <2>2
<1>6. QED BY <1>4, <1>5 DEF OwedInv

LEMMA OwedTask ==
  ASSUME TypeInv, OwedInv, NEW t \in Tasks, TaskAction(t)
  PROVE  OwedInv'
<1>0. /\ task \in [Tasks -> TaskType] /\ wk \in [Tasks -> WorkerType]
      /\ delivery \in [Deliveries -> DeliveryType] /\ hook' = hook /\ call' = call
  BY DEF TypeInv, TypeOK, TaskAction, Dispatch, WorkerStep, Post, ReadAttempt, UpdateDelivery,
         InsertRetry, InsertRefused, AddRetry, Done, Throw
<1>1. CASE Dispatch(t) \/ Post(t) \/ ReadAttempt(t)
  <2>1. PICK pc \in {"post", "read", "update"} : wk'[t].pc = pc
    BY <1>0, <1>1 DEF Dispatch, GoTo, Post, ReadAttempt, WorkerType
  <2>2. \A u \in Tasks : u # t => wk'[u] = wk[u] /\ task'[u] = task[u]
    BY <1>0, <1>1 DEF Dispatch, GoTo, Post, ReadAttempt
  <2>3. task'[t].state = "active" /\ task'[t].delivery = task[t].delivery
    BY <1>0, <1>1 DEF Dispatch, Post, ReadAttempt, Active, TaskType
  <2>4. ~Active(t, "add") /\ UNCHANGED <<delivery, lost>>
    BY <1>1 DEF Dispatch, Post, ReadAttempt, Active
  <2>5. \A d \in Deliveries : \A u \in Tasks :
          (Records(u, d) => Records(u, d)') /\ (Owes(u, d) => Owes(u, d)')
    <3>1. ~Active(t, "insert")
      BY <1>1 DEF Dispatch, Post, ReadAttempt, Active
    <3>2. QED BY <2>1, <2>2, <2>3, <3>1 DEF Records, Owes, Active
  <2>6. \A d \in Deliveries : Adds(d) => Adds(d)'
    BY <1>0, <2>2, <2>4 DEF Adds, Active
  <2>7. RowsClean'
    BY <1>0, <2>4 DEF OwedInv, RowsClean, Exists
  <2>8. ASSUME ~lost' PROVE \A d \in Deliveries : PendingOwed(d)' /\ RetryOwed(d)'
    BY <2>4, <2>5, <2>6, <2>8, OwedKept
  <2>9. QED BY <2>7, <2>8 DEF OwedInv
\* The answer is recorded: the job now owes the retry its row announces.
<1>2. CASE UpdateDelivery(t)
  <2>1. PICK e \in Deliveries : e = task[t].delivery
    BY <1>2 DEF UpdateDelivery, Active, TypeInv, TasksPoint
  <2>2. /\ UNCHANGED <<task, lost>> /\ Active(t, "update")
        /\ \A u \in Tasks : u # t => wk'[u] = wk[u]
        /\ RetryDue(t) => wk'[t].pc = "insert"
    BY <1>0, <1>2 DEF UpdateDelivery, WorkerType
  <2>3. /\ \A d \in Deliveries : d # e => delivery'[d] = delivery[d]
        /\ ~Exists(e) => delivery' = delivery
        /\ Exists(e) => /\ delivery'[e].status \in {"success", "failed"}
                        /\ delivery'[e].retryAt => RetryDue(t)
                        /\ delivery'[e].parent = delivery[e].parent
                        /\ delivery'[e].hook = delivery[e].hook
    BY <1>0, <1>2, <2>1 DEF UpdateDelivery, DeliveryType
  <2>4. RowsClean'
    BY <1>0, <2>3 DEF OwedInv, RowsClean, Exists
  <2>5. ASSUME NEW d \in Deliveries, d # e, ~lost'
        PROVE  PendingOwed(d)' /\ RetryOwed(d)'
    <3>1. \A u \in Tasks : (Records(u, d) => Records(u, d)') /\ (Owes(u, d) => Owes(u, d)')
      BY <2>1, <2>2, <2>5 DEF Records, Owes, Active
    <3>2. Adds(d) => Adds(d)'
      BY <1>0, <2>2 DEF Adds, Active
    <3>3. PendingOwed(d) /\ RetryOwed(d) /\ delivery'[d] = delivery[d]
      BY <2>2, <2>3, <2>5 DEF OwedInv
    <3>4. PendingOwed(d)'
      BY <3>1, <3>2, <3>3 DEF PendingOwed
    <3>5. \A r \in Deliveries : delivery[r].parent = d => delivery'[r].parent = d
      BY <2>3
    <3>6. RetryOwed(d)'
      BY <3>1, <3>3, <3>5 DEF RetryOwed
    <3>7. QED BY <3>4, <3>6
  <2>6. PendingOwed(e)' /\ RetryOwed(e)'
    <3>1. CASE ~Exists(e)
      BY <2>3, <3>1 DEF Exists, PendingOwed, RetryOwed
    <3>2. CASE Exists(e)
      <4>1. PendingOwed(e)'
        BY <2>3, <3>2 DEF PendingOwed
      <4>2. RetryDue(t) => Owes(t, e)'
        BY <2>1, <2>2 DEF Owes, Active
      <4>3. RetryOwed(e)'
        BY <2>3, <3>2, <4>2 DEF RetryOwed
      <4>4. QED BY <4>1, <4>3
    <3>3. QED BY <3>1, <3>2
  <2>7. QED BY <2>4, <2>5, <2>6 DEF OwedInv
\* The retry exists, and the worker is about to add its job.
<1>3. ASSUME NEW e \in Deliveries, InsertRetry(t, e)
      PROVE  OwedInv'
  <2>1. PICK p \in Deliveries :
          /\ p = task[t].delivery /\ hook[delivery[p].hook] # "deleted"
          /\ InsertDelivery(e, delivery[p].hook, delivery[p].event, wk[t].attempt + 1, p)
    BY <1>3 DEF InsertRetry, Active, TypeInv, TasksPoint
  <2>2. delivery[p].hook \in Webhooks
    BY <1>0 DEF DeliveryType
  <2>3. /\ RowsClean'
        /\ delivery'[e].status = "pending" /\ delivery'[e].parent = p
        /\ \A r \in Deliveries : r # e => delivery'[r] = delivery[r]
        /\ \A r, q \in Deliveries : delivery[r].parent = q => delivery'[r].parent = q
    BY <1>0, <2>1, <2>2, OwedInsert
  <2>4. /\ UNCHANGED <<task, lost>> /\ Active(t, "insert")
        /\ \A u \in Tasks : u # t => wk'[u] = wk[u]
        /\ wk'[t].pc = "add" /\ wk'[t].retry = e
    BY <1>0, <1>3 DEF InsertRetry, Idle
  <2>5. PendingOwed(e)' /\ RetryOwed(e)'
    <3>1. Adds(e)'
      BY <2>4 DEF Adds, Active
    <3>2. QED BY <2>3, <3>1 DEF PendingOwed, RetryOwed
  <2>6. ASSUME ~lost', NEW d \in Deliveries, d # e
        PROVE  PendingOwed(d)' /\ RetryOwed(d)'
    <3>1. PendingOwed(d) /\ RetryOwed(d) /\ delivery'[d] = delivery[d]
      BY <2>3, <2>4, <2>6 DEF OwedInv
    <3>2. \A u \in Tasks : Records(u, d) => Records(u, d)'
      BY <2>4 DEF Records, Active
    <3>3. \A u \in Tasks : u # t /\ Owes(u, d) => Owes(u, d)'
      BY <2>4 DEF Owes, Records, Active
    <3>4. Owes(t, d) => d = p
      BY <2>1 DEF Owes, Records
    <3>5. Adds(d) => Adds(d)'
      BY <1>0, <2>4 DEF Adds, Active
    <3>6. PendingOwed(d)'
      BY <3>1, <3>2, <3>5 DEF PendingOwed
    <3>7. RetryOwed(d)'
      BY <2>3, <3>1, <3>3, <3>4 DEF RetryOwed
    <3>8. QED BY <3>6, <3>7
  <2>7. QED BY <2>3, <2>5, <2>6 DEF OwedInv
\* The webhook is deleted, and the row of the job with it.
<1>4. CASE InsertRefused(t)
  <2>1. PICK p \in Deliveries : p = task[t].delivery /\ hook[delivery[p].hook] = "deleted"
    BY <1>4 DEF InsertRefused, Active, TypeInv, TasksPoint
  <2>2. ~Exists(p)
    BY <2>1 DEF OwedInv, RowsClean
  <2>3. /\ UNCHANGED <<delivery, lost>> /\ Active(t, "insert")
        /\ \A u \in Tasks : u # t => wk'[u] = wk[u] /\ task'[u] = task[u]
    BY <1>0, <1>4 DEF InsertRefused, JobFails
  <2>4. ASSUME ~lost', NEW d \in Deliveries, d # p
        PROVE  PendingOwed(d)' /\ RetryOwed(d)'
    <3>1. \A u \in Tasks : (Records(u, d) => Records(u, d)') /\ (Owes(u, d) => Owes(u, d)')
      BY <2>1, <2>3, <2>4 DEF Records, Owes, Active
    <3>2. Adds(d) => Adds(d)'
      BY <1>0, <2>3 DEF Adds, Active
    <3>3. PendingOwed(d) /\ RetryOwed(d)
      BY <2>3, <2>4 DEF OwedInv
    <3>4. QED BY <2>3, <3>1, <3>2, <3>3 DEF PendingOwed, RetryOwed
  <2>5. PendingOwed(p)' /\ RetryOwed(p)'
    BY <2>2, <2>3 DEF Exists, PendingOwed, RetryOwed
  <2>6. RowsClean'
    BY <1>0, <2>3 DEF OwedInv, RowsClean, Exists
  <2>7. QED BY <2>4, <2>5, <2>6 DEF OwedInv
<1>5. CASE AddRetry(t)
  <2>1. PICK u \in Tasks : NewTask(u) /\ task' = [task EXCEPT ![u] = Waiting(wk[t].retry)]
    BY <1>5 DEF AddRetry
  <2>2. /\ UNCHANGED <<delivery, lost>> /\ Active(t, "add")
        /\ \A v \in Tasks : v # t => wk'[v] = wk[v]
        /\ wk'[t].pc = "done"
    BY <1>0, <1>5 DEF AddRetry, Idle
  <2>3. \A v \in Tasks : v # u => task'[v] = task[v]
    BY <1>0, <2>1
  <2>4. task[u].state = "none" /\ task'[u].state = "waiting"
        /\ task'[u].delivery = wk[t].retry
    BY <1>0, <2>1 DEF NewTask, Waiting
  <2>5. \A d \in Deliveries : \A v \in Tasks :
          (Records(v, d) => Records(v, d)') /\ (Owes(v, d) => Owes(v, d)')
    BY <2>2, <2>3, <2>4 DEF Records, Owes, Active
  <2>6. \A d \in Deliveries : Adds(d) => Adds(d)' \/ Records(u, d)'
    BY <1>0, <2>2, <2>3, <2>4 DEF Adds, Records, Active
  <2>7. RowsClean'
    BY <1>0, <2>2 DEF OwedInv, RowsClean, Exists
  <2>8. ASSUME ~lost' PROVE \A d \in Deliveries : PendingOwed(d)' /\ RetryOwed(d)'
    BY <2>2, <2>5, <2>6, <2>8, OwedKept
  <2>9. QED BY <2>7, <2>8 DEF OwedInv
<1>6. CASE Done(t)
  <2>1. /\ UNCHANGED <<delivery, lost>> /\ Active(t, "done")
        /\ \A u \in Tasks : u # t => wk'[u] = wk[u] /\ task'[u] = task[u]
    BY <1>0, <1>6 DEF Done
  <2>2. \A d \in Deliveries : \A u \in Tasks :
          (Records(u, d) => Records(u, d)') /\ (Owes(u, d) => Owes(u, d)')
    BY <2>1 DEF Records, Owes, Active
  <2>3. \A d \in Deliveries : Adds(d) => Adds(d)'
    BY <1>0, <2>1 DEF Adds, Active
  <2>4. RowsClean'
    BY <1>0, <2>1 DEF OwedInv, RowsClean, Exists
  <2>5. ASSUME ~lost' PROVE \A d \in Deliveries : PendingOwed(d)' /\ RetryOwed(d)'
    BY <2>1, <2>2, <2>3, <2>5, OwedKept
  <2>6. QED BY <2>4, <2>5 DEF OwedInv
<1>7. CASE Throw(t)
  <2>1. UNCHANGED delivery /\ lost'
    BY <1>7 DEF Throw
  <2>2. RowsClean'
    BY <1>0, <2>1 DEF OwedInv, RowsClean, Exists
  <2>3. QED BY <2>1, <2>2 DEF OwedInv
<1>8. QED
  BY <1>1, <1>2, <1>3, <1>4, <1>5, <1>6, <1>7 DEF TaskAction, WorkerStep

\* After a crash that dropped nothing every job that was active waits again.
LEMMA OwedCrash ==
  ASSUME TypeInv, OwedInv, Crash
  PROVE  OwedInv'
<1>0. task \in [Tasks -> TaskType] /\ UNCHANGED <<hook, delivery, call>>
  BY DEF TypeInv, TypeOK, Crash
<1>1. RowsClean'
  BY <1>0 DEF OwedInv, RowsClean, Exists
<1>2. ASSUME ~lost' PROVE \A d \in Deliveries : PendingOwed(d)' /\ RetryOwed(d)'
  <2>1. ~lost /\ \A t \in Tasks : ~Active(t, "add") /\ ~(task'[t].stalls > MaxStalls)
    BY <1>2 DEF Crash
  <2>2. ASSUME NEW t \in Tasks
        PROVE  /\ task[t].state # "active" => task'[t] = task[t]
               /\ task[t].state = "active" =>
                    task'[t].state = "waiting" /\ task'[t].delivery = task[t].delivery
    <3>1. task[t] \in TaskType
      BY <1>0
    <3>2. CASE task[t].state = "active"
      <4>1. task'[t] = [task[t] EXCEPT !.stalls = task[t].stalls + 1,
                          !.state = IF task[t].stalls + 1 > MaxStalls THEN "failed"
                                    ELSE "waiting"]
        BY <3>2 DEF Crash
      <4>2. /\ task'[t].stalls = task[t].stalls + 1
            /\ task'[t].delivery = task[t].delivery
            /\ task'[t].state = IF task[t].stalls + 1 > MaxStalls THEN "failed"
                                ELSE "waiting"
        BY <3>1, <4>1 DEF TaskType
      <4>3. QED BY <2>1, <3>2, <4>2
    <3>3. CASE task[t].state # "active"
      BY <3>3 DEF Crash
    <3>4. QED BY <3>2, <3>3
  <2>3. \A d \in Deliveries : \A t \in Tasks :
          (Records(t, d) => Records(t, d)') /\ (Owes(t, d) => Owes(t, d)')
    BY <2>2 DEF Records, Owes, Active
  <2>4. \A d \in Deliveries : Adds(d) => Adds(d)'
    BY <1>0, <2>1 DEF Adds
  <2>5. QED BY <1>0, <2>1, <2>3, <2>4, OwedKept
<1>3. QED BY <1>1, <1>2 DEF OwedInv

LEMMA OwedStep ==
  ASSUME TypeInv, OwedInv, [Next]_vars
  PROVE  OwedInv'
<1>1. CASE UNCHANGED vars
  BY <1>1 DEF vars, queueVars, OwedInv, RowsClean, Exists, PendingOwed, RetryOwed, Adds,
              Records, Owes, Active
<1>2. CASE Next
  BY <1>2, NextCases, OwedCall, OwedHook, OwedTask, OwedCrash
<1>3. QED BY <1>1, <1>2

LEMMA OwedAlways == Spec => [](TypeInv /\ OwedInv)
<1>1. Init => TypeInv /\ OwedInv
  BY TypeInit, OwedInit
<1>2. (TypeInv /\ OwedInv) /\ [Next]_vars => (TypeInv /\ OwedInv)'
  BY TypeStep, OwedStep
<1>3. QED BY <1>1, <1>2, PTL DEF Spec

LEMMA OwedIsHeld ==
  ASSUME NEW d \in Deliveries
  PROVE  /\ Adds(d) => Held(d)
         /\ \A t \in Tasks : Owes(t, d) \/ Records(t, d) => Held(d)
BY DEF Adds, Records, Owes, Active, Held

\* Unless an error dropped its job, a pending delivery is in the hands of a job, an
\* emit call or a worker about to add its job: no crash leaves it behind.
THEOREM PendingAlwaysHeld == Spec => []PendingIsHeld
<1>1. OwedInv => PendingIsHeld
  BY OwedIsHeld DEF OwedInv, PendingOwed, PendingIsHeld
<1>2. QED BY OwedAlways, <1>1, PTL

\* Under the same condition a delivery that announces a retry has one, or a job that
\* will insert it.
THEOREM NextRetryAlwaysKept == Spec => []NextRetryIsKept
<1>1. OwedInv => NextRetryIsKept
  BY OwedIsHeld DEF OwedInv, RetryOwed, NextRetryIsKept
<1>2. QED BY OwedAlways, <1>1, PTL

-----------------------------------------------------------------------------
(* Retries of a delivery                                                   *)

\* A delivery has a job, an emit call is about to add it, or a worker is.
Tasked(t, d) == task[t].state # "none" /\ task[t].delivery = d
Emits(c, d) == call[c].pc = "add" /\ call[c].delivery = d
Retries(t, d) == wk[t].pc = "add" /\ wk[t].retry = d

\* The retries made of delivery d.
Retried(d) == {r \in Deliveries : delivery[r].parent = d}

\* The runs of a job that may have inserted a retry.
Spent(t) == task[t].state \in {"completed", "failed"} \/ wk[t].pc \in {"add", "done"}
Runs(t) == task[t].stalls + IF Spent(t) THEN 1 ELSE 0

WorkersRun == \A t \in Tasks : wk[t].pc # "idle" => task[t].state = "active"

\* One at a time has a delivery in hand, so that it gets one job only.
HeldOnce == \A d \in Deliveries :
  /\ \A t, u \in Tasks : Tasked(t, d) /\ Tasked(u, d) => t = u
  /\ \A b, c \in Clients : Emits(b, d) /\ Emits(c, d) => b = c
  /\ \A t, u \in Tasks : Retries(t, d) /\ Retries(u, d) => t = u
  /\ \A t \in Tasks, c \in Clients : ~(Tasked(t, d) /\ Emits(c, d))
  /\ \A t \in Tasks, c \in Clients : ~(Retries(t, d) /\ Emits(c, d))
  /\ \A t, u \in Tasks : ~(Tasked(t, d) /\ Retries(u, d))

\* A row that is not inserted yet is in nobody's hand ...
Unborn == \A d \in Deliveries :
  delivery[d].status = "none" =>
    /\ \A t \in Tasks : ~Tasked(t, d) /\ ~Retries(t, d)
    /\ \A c \in Clients : ~Emits(c, d)
    /\ delivery[d].parent = 0

\* ... and only a delivery that has a job has retries.
ParentsTasked ==
  \A d \in Deliveries : Retried(d) # {} => \E t \in Tasks : Tasked(t, d)

HeldInv == WorkersRun /\ HeldOnce /\ Unborn /\ ParentsTasked

\* A run inserts one retry at most.
RunsBound ==
  \A t \in Tasks, d \in Deliveries : Tasked(t, d) => Cardinality(Retried(d)) <= Runs(t)

\* As long as a job has run once, its delivery has not both succeeded and been retried.
OnceClean ==
  \A t \in Tasks, d \in Deliveries :
    Tasked(t, d) /\ task[t].stalls = 0 /\ delivery[d].status = "success" =>
      Retried(d) = {} /\ wk[t].pc # "insert"

RunInv == HeldInv /\ RunsBound /\ OnceClean

LEMMA RetriedFinite ==
  ASSUME NEW d
  PROVE  IsFiniteSet(Retried(d)) /\ Cardinality(Retried(d)) \in Nat
<1>1. IsFiniteSet(Deliveries)
  BY FS_Interval, ConstantsAssumption DEF Deliveries
<1>2. IsFiniteSet(Retried(d))
  BY <1>1, FS_Subset DEF Retried
<1>3. QED BY <1>2, FS_CardinalityType

LEMMA RunsType ==
  ASSUME TypeInv, NEW t \in Tasks
  PROVE  Runs(t) \in Nat /\ task[t].stalls \in Nat /\ task[t].stalls <= Runs(t)
<1>1. task[t].stalls \in Nat
  BY DEF TypeInv, TypeOK, TaskType
<1>2. QED BY <1>1 DEF Runs

\* A step that introduces no delivery, no job and no retry.
LEMMA HeldKept ==
  ASSUME HeldInv, WorkersRun',
         \A t \in Tasks : /\ task'[t].delivery = task[t].delivery
                          /\ task'[t].state = "none" <=> task[t].state = "none",
         \A c \in Clients : \A d \in Deliveries : Emits(c, d)' => Emits(c, d),
         \A t \in Tasks : \A d \in Deliveries : Retries(t, d)' => Retries(t, d),
         \A d \in Deliveries : /\ delivery'[d].status = "none" => delivery[d].status = "none"
                               /\ delivery'[d].parent = delivery[d].parent
  PROVE  /\ HeldInv'
         /\ \A t \in Tasks, d \in Deliveries : Tasked(t, d)' <=> Tasked(t, d)
         /\ \A d \in Deliveries : Retried(d)' = Retried(d)
<1>1. \A t \in Tasks, d \in Deliveries : Tasked(t, d)' <=> Tasked(t, d)
  BY DEF Tasked
<1>2. \A d \in Deliveries : Retried(d)' = Retried(d)
  BY DEF Retried
<1>3. HeldOnce'
  BY <1>1 DEF HeldInv, HeldOnce
<1>4. Unborn'
  BY <1>1 DEF HeldInv, Unborn
<1>5. ParentsTasked'
  BY <1>1, <1>2 DEF HeldInv, ParentsTasked
<1>6. QED BY <1>1, <1>2, <1>3, <1>4, <1>5 DEF HeldInv

\* ... and none that lets a job run or succeed again.
LEMMA RunKept ==
  ASSUME TypeInv, TypeInv', RunInv, WorkersRun',
         \A t \in Tasks : /\ task'[t].delivery = task[t].delivery
                          /\ task'[t].state = "none" <=> task[t].state = "none"
                          /\ task'[t].stalls >= task[t].stalls
                          /\ Runs(t)' >= Runs(t)
                          /\ wk'[t].pc = "insert" => wk[t].pc = "insert",
         \A c \in Clients : \A d \in Deliveries : Emits(c, d)' => Emits(c, d),
         \A t \in Tasks : \A d \in Deliveries : Retries(t, d)' => Retries(t, d),
         \A d \in Deliveries :
           /\ delivery'[d].status = "none" => delivery[d].status = "none"
           /\ delivery'[d].status = "success" => delivery[d].status = "success"
           /\ delivery'[d].parent = delivery[d].parent
  PROVE  RunInv'
<1>1. /\ HeldInv'
      /\ \A t \in Tasks, d \in Deliveries : Tasked(t, d)' <=> Tasked(t, d)
      /\ \A d \in Deliveries : Retried(d)' = Retried(d)
  BY HeldKept DEF RunInv
<1>2. RunsBound'
  <2>1. ASSUME NEW t \in Tasks, NEW d \in Deliveries, Tasked(t, d)'
        PROVE  Cardinality(Retried(d)') <= Runs(t)'
    <3>1. Retried(d)' = Retried(d) /\ Cardinality(Retried(d)) <= Runs(t) /\ Runs(t) <= Runs(t)'
      BY <1>1, <2>1 DEF RunInv, RunsBound
    <3>2. Cardinality(Retried(d)) \in Nat /\ Runs(t) \in Nat
      BY RetriedFinite, RunsType
    <3>3. task'[t].stalls \in Nat
      BY DEF TypeInv, TypeOK, TaskType
    <3>4. Runs(t)' \in Nat
      BY <3>3 DEF Runs
    <3>5. QED BY <3>1, <3>2, <3>4
  <2>2. QED BY <2>1 DEF RunsBound
<1>3. OnceClean'
  <2>1. ASSUME NEW t \in Tasks, NEW d \in Deliveries, Tasked(t, d)', task'[t].stalls = 0,
               delivery'[d].status = "success"
        PROVE  Retried(d)' = {} /\ wk'[t].pc # "insert"
    <3>1. task[t].stalls = 0
      BY <2>1, RunsType
    <3>2. QED BY <1>1, <2>1, <3>1 DEF RunInv, OnceClean
  <2>2. QED BY <2>1 DEF OnceClean
<1>4. QED BY <1>1, <1>2, <1>3 DEF RunInv

LEMMA RunInit == Init => RunInv
<1> SUFFICES ASSUME Init PROVE RunInv
  OBVIOUS
<1>1. /\ \A t \in Tasks : task[t].state = "none" /\ wk[t].pc = "idle"
      /\ \A c \in Clients : call[c].pc = "idle"
      /\ \A d \in Deliveries : delivery[d].parent = 0
  BY DEF Init, NoTask, Idle, NoCall
<1>2. \A d \in Deliveries : Retried(d) = {}
  BY <1>1, ConstantsAssumption DEF Retried, Deliveries
<1>3. QED
  BY <1>1, <1>2 DEF RunInv, HeldInv, WorkersRun, HeldOnce, Unborn, ParentsTasked, RunsBound,
                    OnceClean, Tasked, Emits, Retries

\* A call inserts row d, or a worker does for its job.
LEMMA NewRow ==
  ASSUME TypeInv, HeldInv, NEW d \in Deliveries, NEW w, NEW e, NEW attempt, NEW p,
         InsertDelivery(d, w, e, attempt, p)
  PROVE  /\ delivery[d].status = "none" /\ delivery[d].parent = 0
         /\ delivery'[d].status = "pending" /\ delivery'[d].parent = p
         /\ \A r \in Deliveries : r # d => delivery'[r] = delivery[r]
         /\ \A q \in Deliveries : q # p => Retried(q)' = Retried(q)
         /\ \A q \in Deliveries : q = p => Retried(q)' = Retried(q) \cup {d} /\ d \notin Retried(q)
<1>1. delivery \in [Deliveries -> DeliveryType]
  BY DEF TypeInv, TypeOK
<1>2. \A r \in Deliveries : delivery'[r] = IF r = d
        THEN [hook |-> w, event |-> e, status |-> "pending", attempt |-> attempt,
              retryAt |-> FALSE, parent |-> p, reset |-> FALSE]
        ELSE delivery[r]
  BY <1>1 DEF InsertDelivery
<1>3. delivery[d].status = "none" /\ delivery[d].parent = 0
  BY DEF InsertDelivery, NewDelivery, HeldInv, Unborn
<1>4. \A q \in Deliveries : q # 0
  BY ConstantsAssumption DEF Deliveries
<1>5. /\ delivery'[d].status = "pending" /\ delivery'[d].parent = p
      /\ \A r \in Deliveries : r # d => delivery'[r] = delivery[r]
  BY <1>2
<1>6. \A q \in Deliveries : q # p => Retried(q)' = Retried(q)
  BY <1>3, <1>4, <1>5 DEF Retried
<1>7. \A q \in Deliveries :
        q = p => Retried(q)' = Retried(q) \cup {d} /\ d \notin Retried(q)
  BY <1>3, <1>4, <1>5 DEF Retried
<1>8. QED BY <1>3, <1>5, <1>6, <1>7

\* emit inserts a row that is nobody's retry.
LEMMA RunCreate ==
  ASSUME TypeInv, TypeInv', RunInv, NEW c \in Clients, NEW d \in Deliveries,
         CreateDelivery(c, d)
  PROVE  RunInv'
<1>0. call \in [Clients -> CallType] /\ UNCHANGED <<task, wk>>
  BY DEF TypeInv, TypeOK, CreateDelivery, queueVars
<1>1. PICK w \in call[c].webhooks : InsertDelivery(d, w, call[c].event, 1, 0)
  BY DEF CreateDelivery
<1>2. \A q \in Deliveries : q # 0
  BY ConstantsAssumption DEF Deliveries
<1>3. /\ delivery[d].status = "none" /\ delivery'[d].status = "pending"
      /\ delivery'[d].parent = 0
      /\ \A r \in Deliveries : r # d => delivery'[r] = delivery[r]
      /\ \A q \in Deliveries : Retried(q)' = Retried(q)
  BY <1>1, <1>2, NewRow DEF RunInv
<1>4. /\ \A b \in Clients : \A q \in Deliveries :
           Emits(b, q)' <=> Emits(b, q) \/ (b = c /\ q = d)
      /\ \A t \in Tasks : \A q \in Deliveries :
           (Tasked(t, q)' <=> Tasked(t, q)) /\ (Retries(t, q)' <=> Retries(t, q))
  BY <1>0 DEF CreateDelivery, CallType, Emits, Tasked, Retries
<1>5. /\ \A t \in Tasks : ~Tasked(t, d) /\ ~Retries(t, d)
      /\ \A b \in Clients : ~Emits(b, d)
  BY <1>3 DEF RunInv, HeldInv, Unborn
<1>6. HeldOnce'
  BY <1>4, <1>5 DEF RunInv, HeldInv, HeldOnce
<1>7. Unborn'
  BY <1>3, <1>4 DEF RunInv, HeldInv, Unborn
<1>8. ParentsTasked' /\ WorkersRun'
  BY <1>0, <1>3, <1>4 DEF RunInv, HeldInv, ParentsTasked, WorkersRun
<1>9. RunsBound'
  BY <1>0, <1>3, <1>4 DEF RunInv, RunsBound, Runs, Spent
<1>10. OnceClean'
  BY <1>0, <1>3, <1>4 DEF RunInv, OnceClean
<1>11. QED BY <1>6, <1>7, <1>8, <1>9, <1>10 DEF RunInv, HeldInv

\* A worker inserts the retry of its delivery, once in this run.
LEMMA RunInsert ==
  ASSUME TypeInv, TypeInv', RunInv, NEW t \in Tasks, NEW d \in Deliveries, InsertRetry(t, d)
  PROVE  RunInv'
<1>0. wk \in [Tasks -> WorkerType] /\ UNCHANGED <<task, call>>
  BY DEF TypeInv, TypeOK, InsertRetry
<1>1. PICK p \in Deliveries :
        /\ p = task[t].delivery
        /\ InsertDelivery(d, delivery[p].hook, delivery[p].event, wk[t].attempt + 1, p)
  BY DEF InsertRetry, Active, TypeInv, TasksPoint
<1>2. /\ delivery[d].status = "none" /\ delivery'[d].status = "pending"
      /\ delivery'[d].parent = p
      /\ \A r \in Deliveries : r # d => delivery'[r] = delivery[r]
      /\ \A q \in Deliveries : q # p => Retried(q)' = Retried(q)
      /\ Retried(p)' = Retried(p) \cup {d} /\ d \notin Retried(p)
  BY <1>1, NewRow DEF RunInv
<1>3. /\ wk[t].pc = "insert" /\ task[t].state = "active"
      /\ wk'[t].pc = "add" /\ wk'[t].retry = d
      /\ \A u \in Tasks : u # t => wk'[u] = wk[u]
  BY <1>0 DEF InsertRetry, Active, Idle
<1>4. /\ \A u \in Tasks : \A q \in Deliveries :
           Retries(u, q)' <=> Retries(u, q) \/ (u = t /\ q = d)
      /\ \A u \in Tasks : \A q \in Deliveries : Tasked(u, q)' <=> Tasked(u, q)
      /\ \A b \in Clients : \A q \in Deliveries : Emits(b, q)' <=> Emits(b, q)
  BY <1>0, <1>3 DEF Emits, Tasked, Retries
<1>5. /\ \A u \in Tasks : ~Tasked(u, d) /\ ~Retries(u, d)
      /\ \A b \in Clients : ~Emits(b, d)
  BY <1>2 DEF RunInv, HeldInv, Unborn
<1>6. HeldOnce'
  BY <1>4, <1>5 DEF RunInv, HeldInv, HeldOnce
<1>7. Unborn'
  BY <1>2, <1>4 DEF RunInv, HeldInv, Unborn
<1>8. Tasked(t, p) /\ p # d
  BY <1>1, <1>3, <1>5 DEF Tasked
<1>9. ParentsTasked' /\ WorkersRun'
  BY <1>0, <1>2, <1>3, <1>4, <1>8 DEF RunInv, HeldInv, ParentsTasked, WorkersRun
<1>10. \A u \in Tasks : Tasked(u, p) => u = t
  BY <1>8 DEF RunInv, HeldInv, HeldOnce
<1>11. RunsBound'
  <2>1. ASSUME NEW u \in Tasks, NEW q \in Deliveries, Tasked(u, q)
        PROVE  Cardinality(Retried(q)') <= Runs(u)'
    <3>1. CASE q # p
      <4>1. Cardinality(Retried(q)) <= Runs(u) /\ Retried(q)' = Retried(q)
        BY <1>2, <2>1, <3>1 DEF RunInv, RunsBound
      <4>2. Runs(u)' = Runs(u)
        BY <1>0, <1>1, <1>3, <2>1, <3>1 DEF Runs, Spent, Tasked
      <4>3. QED BY <4>1, <4>2
    <3>2. CASE q = p
      <4>1. u = t /\ Cardinality(Retried(p)) <= Runs(t)
        BY <1>10, <2>1, <3>2 DEF RunInv, RunsBound
      <4>2. Runs(t) = task[t].stalls /\ Runs(t)' = task[t].stalls + 1
        BY <1>0, <1>3, RunsType DEF Runs, Spent
      <4>3. Cardinality(Retried(p)') = Cardinality(Retried(p)) + 1
        BY <1>2, RetriedFinite, FS_AddElement
      <4>4. Cardinality(Retried(p)) \in Nat /\ task[t].stalls \in Nat
        BY RetriedFinite, RunsType
      <4>5. QED BY <3>2, <4>1, <4>2, <4>3, <4>4
    <3>3. QED BY <3>1, <3>2
  <2>2. QED BY <1>4, <2>1 DEF RunsBound
<1>12. OnceClean'
  <2>1. ASSUME NEW u \in Tasks, NEW q \in Deliveries, Tasked(u, q), task'[u].stalls = 0,
               delivery'[q].status = "success"
        PROVE  Retried(q)' = {} /\ wk'[u].pc # "insert"
    <3>1. q # d /\ delivery[q].status = "success" /\ task[u].stalls = 0
      BY <1>0, <1>2, <2>1
    <3>2. Retried(q) = {} /\ wk[u].pc # "insert"
      BY <2>1, <3>1 DEF RunInv, OnceClean
    <3>3. u # t
      BY <1>3, <3>2
    <3>4. q # p
      BY <1>10, <2>1, <3>3
    <3>5. QED BY <1>2, <1>3, <3>2, <3>3, <3>4
  <2>2. QED BY <1>4, <2>1 DEF OnceClean
<1>13. QED BY <1>6, <1>7, <1>9, <1>11, <1>12 DEF RunInv, HeldInv

\* The job of a delivery that a call or a worker has in hand.
LEMMA RunAdd ==
  ASSUME TypeInv, TypeInv', RunInv, WorkersRun', NEW u \in Tasks, NEW d \in Deliveries,
         NewTask(u), task' = [task EXCEPT ![u] = Waiting(d)], UNCHANGED delivery,
         (\E c \in Clients : Emits(c, d)) \/ (\E t \in Tasks : Retries(t, d)),
         \A c \in Clients : \A q \in Deliveries : Emits(c, q)' => Emits(c, q) /\ q # d,
         \A t \in Tasks : \A q \in Deliveries : Retries(t, q)' => Retries(t, q) /\ q # d,
         \A t \in Tasks : /\ wk'[t].pc = "insert" => wk[t].pc = "insert"
                          /\ wk'[t].pc \in {"add", "done"} <=> wk[t].pc \in {"add", "done"}
  PROVE  RunInv'
<1>1. /\ task[u].state = "none" /\ task'[u].state = "waiting" /\ task'[u].delivery = d
      /\ task'[u].stalls = 0 /\ \A t \in Tasks : t # u => task'[t] = task[t]
  BY WaitingType DEF NewTask, TypeInv, TypeOK
<1>2. \A t \in Tasks : \A q \in Deliveries :
        Tasked(t, q)' <=> Tasked(t, q) \/ (t = u /\ q = d)
  BY <1>1 DEF Tasked
<1>3. \A t \in Tasks : ~Tasked(t, d)
  BY DEF RunInv, HeldInv, HeldOnce
<1>4. delivery[d].status # "none"
  BY DEF RunInv, HeldInv, Unborn
<1>5. \A q \in Deliveries : Retried(q)' = Retried(q)
  BY DEF Retried
<1>6. HeldOnce'
  BY <1>2, <1>3 DEF RunInv, HeldInv, HeldOnce
<1>7. Unborn'
  BY <1>2, <1>4 DEF RunInv, HeldInv, Unborn
<1>8. ParentsTasked'
  BY <1>2, <1>5 DEF RunInv, HeldInv, ParentsTasked
<1>9. Retried(d) = {} /\ Cardinality({}) = 0
  BY <1>3, FS_EmptySet DEF RunInv, HeldInv, ParentsTasked
<1>10. wk[u].pc = "idle"
  BY <1>1 DEF RunInv, HeldInv, WorkersRun
<1>11. RunsBound'
  <2>1. ASSUME NEW t \in Tasks, NEW q \in Deliveries, t # u, Tasked(t, q)
        PROVE  Cardinality(Retried(q)') <= Runs(t)'
    <3>1. Runs(t)' = Runs(t)
      BY <1>1, <2>1 DEF Runs, Spent
    <3>2. QED BY <1>5, <2>1, <3>1 DEF RunInv, RunsBound
  <2>2. Cardinality(Retried(d)') <= Runs(u)'
    BY <1>1, <1>5, <1>9 DEF Runs
  <2>3. \A q \in Deliveries : Tasked(u, q)' => q = d
    BY <1>1 DEF Tasked
  <2>4. QED BY <1>2, <2>1, <2>2, <2>3 DEF RunsBound
<1>12. OnceClean'
  <2>1. ASSUME NEW t \in Tasks, NEW q \in Deliveries, Tasked(t, q)', task'[t].stalls = 0,
               delivery[q].status = "success"
        PROVE  Retried(q)' = {} /\ wk'[t].pc # "insert"
    <3>1. CASE t = u
      <4>1. q = d
        BY <1>1, <2>1, <3>1 DEF Tasked
      <4>2. QED BY <1>5, <1>9, <1>10, <3>1, <4>1
    <3>2. CASE t # u
      BY <1>1, <1>2, <1>5, <2>1, <3>2 DEF RunInv, OnceClean
    <3>3. QED BY <3>1, <3>2
  <2>2. QED BY <2>1 DEF OnceClean
<1>13. QED BY <1>6, <1>7, <1>8, <1>11, <1>12 DEF RunInv, HeldInv

LEMMA RunCall ==
  ASSUME TypeInv, TypeInv', RunInv, NEW c \in Clients, CallAction(c)
  PROVE  RunInv'
<1>0. call \in [Clients -> CallType] /\ delivery \in [Deliveries -> DeliveryType] /\ wk' = wk
  BY DEF TypeInv, TypeOK, CallAction, Emit, CallStep, FindWebhooks, CreateDelivery, AddJob,
         EmitError, CallFails, RetrySave, RetryLoad, queueVars
<1>1. ASSUME UNCHANGED task, call'[c].pc # "add", \A b \in Clients : b # c => call'[b] = call[b],
             \A d \in Deliveries :
               /\ delivery'[d].status = "none" => delivery[d].status = "none"
               /\ delivery'[d].status = "success" => delivery[d].status = "success"
               /\ delivery'[d].parent = delivery[d].parent
      PROVE  RunInv'
  <2>1. /\ WorkersRun'
        /\ \A b \in Clients : \A d \in Deliveries : Emits(b, d)' => Emits(b, d)
        /\ \A t \in Tasks : \A d \in Deliveries : Retries(t, d)' => Retries(t, d)
    BY <1>0, <1>1 DEF RunInv, HeldInv, WorkersRun, Emits, Retries
  <2>2. \A t \in Tasks : /\ task'[t].delivery = task[t].delivery
                         /\ task'[t].state = "none" <=> task[t].state = "none"
                         /\ task'[t].stalls >= task[t].stalls
                         /\ Runs(t)' >= Runs(t)
                         /\ wk'[t].pc = "insert" => wk[t].pc = "insert"
    <3>1. \A t \in Tasks : Runs(t)' = Runs(t) /\ Runs(t) \in Nat /\ task[t].stalls \in Nat
      BY <1>0, <1>1, RunsType DEF Runs, Spent
    <3>2. QED BY <1>0, <1>1, <3>1
  <2>3. QED BY <1>1, <2>1, <2>2, RunKept
<1>2. \A ws : Continue(c, ws) => call'[c].pc # "add" /\ \A b \in Clients : b # c => call'[b] = call[b]
  BY <1>0 DEF Continue, NoCall
<1>3. CASE Emit(c) \/ FindWebhooks(c) \/ EmitError(c) \/ CallFails(c)
           \/ \E d \in Deliveries : RetryLoad(c, d)
  <2>1. UNCHANGED <<task, delivery>>
    BY <1>3 DEF Emit, FindWebhooks, EmitError, CallFails, RetryLoad, queueVars
  <2>2. CASE FindWebhooks(c) \/ EmitError(c)
    BY <1>1, <1>2, <2>1, <2>2 DEF FindWebhooks, EmitError
  <2>3. CASE Emit(c)
    BY <1>0, <1>1, <2>1, <2>3 DEF Emit, NoCall
  <2>4. CASE CallFails(c)
    BY <1>0, <1>1, <2>1, <2>4 DEF CallFails, NoCall
  <2>5. ASSUME NEW d \in Deliveries, RetryLoad(c, d) PROVE RunInv'
    BY <1>0, <1>1, <2>1, <2>5 DEF RetryLoad, NoCall
  <2>6. QED BY <1>3, <2>2, <2>3, <2>4, <2>5
<1>4. CASE RetrySave(c)
  <2>1. /\ UNCHANGED task /\ call'[c].pc # "add" /\ Exists(call[c].delivery)
        /\ \A b \in Clients : b # c => call'[b] = call[b]
    BY <1>0, <1>4 DEF RetrySave, NoCall, queueVars
  <2>2. \A d \in Deliveries :
          /\ delivery'[d].status = "none" => delivery[d].status = "none"
          /\ delivery'[d].status = "success" => delivery[d].status = "success"
          /\ delivery'[d].parent = delivery[d].parent
    BY <1>0, <1>4 DEF RetrySave, DeliveryType
  <2>3. QED BY <1>1, <2>1, <2>2
<1>5. CASE AddJob(c)
  <2>1. PICK u \in Tasks : NewTask(u) /\ task' = [task EXCEPT ![u] = Waiting(call[c].delivery)]
    BY <1>5 DEF AddJob
  <2>2. PICK d \in Deliveries : d = call[c].delivery /\ Emits(c, d)
    BY <1>5 DEF AddJob, TypeInv, CallsPoint, Emits
  <2>3. /\ UNCHANGED delivery /\ call'[c].pc # "add"
        /\ \A b \in Clients : b # c => call'[b] = call[b]
    BY <1>2, <1>5 DEF AddJob
  <2>4. \A b \in Clients : \A q \in Deliveries : Emits(b, q)' => Emits(b, q) /\ q # d
    BY <2>2, <2>3 DEF Emits, RunInv, HeldInv, HeldOnce
  <2>5. \A t \in Tasks : \A q \in Deliveries : Retries(t, q)' => Retries(t, q) /\ q # d
    BY <1>0, <2>2 DEF Retries, RunInv, HeldInv, HeldOnce
  <2>6. WorkersRun'
    BY <1>0, <2>1 DEF RunInv, HeldInv, WorkersRun, NewTask, TypeInv, TypeOK
  <2>7. QED BY <1>0, <2>1, <2>2, <2>3, <2>4, <2>5, <2>6, RunAdd
<1>6. QED
  BY <1>3, <1>4, <1>5, RunCreate DEF CallAction, CallStep

LEMMA RunHook ==
  ASSUME TypeInv, TypeInv', RunInv, NEW w \in Webhooks, Switch(w) \/ Delete(w)
  PROVE  RunInv'
<1>0. delivery \in [Deliveries -> DeliveryType] /\ UNCHANGED <<task, wk, call>>
  BY DEF TypeInv, TypeOK, Switch, Delete, queueVars
<1>1. \A d \in Deliveries :
        /\ delivery'[d].status = "none" => delivery[d].status = "none"
        /\ delivery'[d].status = "success" => delivery[d].status = "success"
        /\ delivery'[d].parent = delivery[d].parent
  BY <1>0 DEF Switch, Delete, DeliveryType
<1>2. /\ WorkersRun'
      /\ \A b \in Clients : \A d \in Deliveries : Emits(b, d)' => Emits(b, d)
      /\ \A t \in Tasks : \A d \in Deliveries : Retries(t, d)' => Retries(t, d)
  BY <1>0 DEF RunInv, HeldInv, WorkersRun, Emits, Retries
<1>3. \A t \in Tasks : Runs(t)' = Runs(t) /\ Runs(t) \in Nat /\ task[t].stalls \in Nat
  BY <1>0, RunsType DEF Runs, Spent
<1>4. \A t \in Tasks : task'[t].stalls >= task[t].stalls /\ Runs(t)' >= Runs(t)
  BY <1>0, <1>3
<1>5. QED BY <1>0, <1>1, <1>2, <1>4, RunKept

\* The steps of a job that runs, short of its inserts.
LEMMA RunMoves ==
  ASSUME TypeInv, TypeInv', RunInv, NEW t \in Tasks,
         \/ Dispatch(t) \/ Post(t) \/ ReadAttempt(t)
         \/ InsertRefused(t) \/ Done(t) \/ Throw(t)
  PROVE  RunInv'
<1>0. /\ task \in [Tasks -> TaskType] /\ wk \in [Tasks -> WorkerType]
      /\ task'[t] \in TaskType
      /\ UNCHANGED <<delivery, call>>
  BY DEF TypeInv, TypeOK, Dispatch, Post, ReadAttempt, InsertRefused, Done, Throw
<1>1. /\ \A u \in Tasks : u # t => task'[u] = task[u] /\ wk'[u] = wk[u]
      /\ task[t].state \in {"waiting", "active"}
      /\ task'[t].delivery = task[t].delivery /\ task'[t].stalls = task[t].stalls
  BY <1>0 DEF Dispatch, GoTo, Post, ReadAttempt, InsertRefused, Done, Throw, JobFails, Active,
              TaskType
<1>2. \/ task'[t].state = "active" /\ wk'[t].pc \in {"post", "read", "update"}
                                   /\ wk[t].pc \in {"idle", "post", "read"}
      \/ task'[t].state \in {"completed", "failed"} /\ wk'[t].pc = "idle"
  <2>1. CASE Dispatch(t)
    <3>1. wk[t].pc = "idle"
      BY <2>1 DEF Dispatch, RunInv, HeldInv, WorkersRun
    <3>2. QED BY <1>0, <2>1, <3>1 DEF Dispatch, GoTo, TaskType, WorkerType
  <2>2. CASE Post(t) \/ ReadAttempt(t)
    BY <1>0, <2>2 DEF Post, ReadAttempt, Active, WorkerType
  <2>3. CASE InsertRefused(t) \/ Done(t) \/ Throw(t)
    BY <1>0, <2>3 DEF InsertRefused, Done, Throw, JobFails, TaskType, Idle
  <2>4. QED BY <2>1, <2>2, <2>3
<1>3. WorkersRun'
  BY <1>1, <1>2 DEF RunInv, HeldInv, WorkersRun
<1>4. /\ \A b \in Clients : \A d \in Deliveries : Emits(b, d)' => Emits(b, d)
      /\ \A u \in Tasks : \A d \in Deliveries : Retries(u, d)' => Retries(u, d)
  BY <1>0, <1>1, <1>2 DEF Emits, Retries
<1>5. Spent(t) => Spent(t)'
  BY <1>1, <1>2 DEF Spent
<1>6. \A u \in Tasks : /\ task'[u].delivery = task[u].delivery
                       /\ task'[u].state = "none" <=> task[u].state = "none"
                       /\ wk'[u].pc = "insert" => wk[u].pc = "insert"
                       /\ task'[u].stalls = task[u].stalls
  BY <1>1, <1>2
<1>7. \A u \in Tasks : task'[u].stalls >= task[u].stalls /\ Runs(u)' >= Runs(u)
  <2>1. \A u \in Tasks : Runs(u) \in Nat /\ task[u].stalls \in Nat
    BY RunsType
  <2>2. \A u \in Tasks : u # t => Runs(u)' = Runs(u)
    BY <1>1 DEF Runs, Spent
  <2>3. Runs(t)' >= Runs(t)
    BY <1>5, <1>6, <2>1 DEF Runs
  <2>4. QED BY <1>6, <2>1, <2>2, <2>3
<1>8. QED BY <1>0, <1>3, <1>4, <1>6, <1>7, RunKept

\* An answer makes a success of a delivery that has no retry from this run.
LEMMA RunUpdate ==
  ASSUME TypeInv, TypeInv', RunInv, NEW t \in Tasks, UpdateDelivery(t)
  PROVE  RunInv'
<1>0. /\ wk \in [Tasks -> WorkerType] /\ delivery \in [Deliveries -> DeliveryType]
      /\ UNCHANGED <<task, call>>
  BY DEF TypeInv, TypeOK, UpdateDelivery
<1>1. PICK e \in Deliveries : e = task[t].delivery
  BY DEF UpdateDelivery, Active, TypeInv, TasksPoint
<1>2. /\ Active(t, "update")
      /\ \A u \in Tasks : u # t => wk'[u] = wk[u]
      /\ wk'[t].pc \in {"insert", "done"}
      /\ wk'[t].pc = "insert" => ~wk[t].ok
  BY <1>0 DEF UpdateDelivery, RetryDue, WorkerType, Idle
<1>3. /\ \A d \in Deliveries : d # e => delivery'[d] = delivery[d]
      /\ ~Exists(e) => delivery' = delivery
      /\ Exists(e) => delivery'[e].status = IF wk[t].ok THEN "success" ELSE "failed"
      /\ \A d \in Deliveries : delivery'[d].parent = delivery[d].parent
  BY <1>0, <1>1 DEF UpdateDelivery, DeliveryType
<1>4. \A d \in Deliveries : delivery'[d].status = "none" => delivery[d].status = "none"
  BY <1>3
<1>5. /\ WorkersRun'
      /\ \A b \in Clients : \A d \in Deliveries : Emits(b, d)' => Emits(b, d)
      /\ \A u \in Tasks : \A d \in Deliveries : Retries(u, d)' => Retries(u, d)
  BY <1>0, <1>2 DEF RunInv, HeldInv, WorkersRun, Emits, Retries, Active
<1>6. /\ HeldInv'
      /\ \A u \in Tasks, d \in Deliveries : Tasked(u, d)' <=> Tasked(u, d)
      /\ \A d \in Deliveries : Retried(d)' = Retried(d)
  BY <1>0, <1>3, <1>4, <1>5, HeldKept DEF RunInv
<1>7. RunsBound'
  <2>1. ASSUME NEW u \in Tasks, NEW d \in Deliveries, Tasked(u, d)
        PROVE  Cardinality(Retried(d)') <= Runs(u)'
    <3>1. Cardinality(Retried(d)) <= Runs(u) /\ Retried(d)' = Retried(d)
      BY <1>6, <2>1 DEF RunInv, RunsBound
    <3>2. Cardinality(Retried(d)) \in Nat /\ Runs(u) \in Nat /\ task[u].stalls \in Nat
      BY RetriedFinite, RunsType
    <3>3. Runs(u) <= Runs(u)' /\ Runs(u)' \in Nat
      BY <1>0, <1>2, <3>2 DEF Runs, Spent, Active
    <3>4. QED BY <3>1, <3>2, <3>3
  <2>2. QED BY <1>6, <2>1 DEF RunsBound
<1>8. OnceClean'
  <2>1. ASSUME NEW u \in Tasks, NEW d \in Deliveries, Tasked(u, d), task[u].stalls = 0,
               delivery'[d].status = "success"
        PROVE  Retried(d) = {} /\ wk'[u].pc # "insert"
    <3>1. CASE u = t
      <4>1. d = e
        BY <1>1, <2>1, <3>1 DEF Tasked
      <4>2. Runs(t) = 0
        BY <1>2, <2>1, <3>1 DEF Runs, Spent, Active
      <4>3. Cardinality(Retried(d)) <= 0
        BY <2>1, <3>1, <4>2 DEF RunInv, RunsBound
      <4>4. Cardinality(Retried(d)) = 0
        BY <4>3, RetriedFinite
      <4>5. Retried(d) = {}
        BY <4>4, RetriedFinite, FS_EmptySet
      <4>6. CASE Exists(e)
        BY <1>2, <1>3, <2>1, <3>1, <4>1, <4>5, <4>6
      <4>7. CASE ~Exists(e)
        BY <1>3, <2>1, <4>1, <4>7 DEF Exists
      <4>8. QED BY <4>6, <4>7
    <3>2. CASE u # t
      <4>1. d # e
        BY <1>1, <1>2, <2>1, <3>2 DEF Tasked, Active, RunInv, HeldInv, HeldOnce
      <4>2. QED BY <1>2, <1>3, <2>1, <3>2, <4>1 DEF RunInv, OnceClean
    <3>3. QED BY <3>1, <3>2
  <2>2. QED BY <1>0, <1>6, <2>1 DEF OnceClean
<1>9. QED BY <1>6, <1>7, <1>8 DEF RunInv

LEMMA RunTask ==
  ASSUME TypeInv, TypeInv', RunInv, NEW t \in Tasks, TaskAction(t)
  PROVE  RunInv'
<1>1. CASE AddRetry(t)
  <2>1. PICK u \in Tasks : NewTask(u) /\ task' = [task EXCEPT ![u] = Waiting(wk[t].retry)]
    BY <1>1 DEF AddRetry
  <2>2. PICK d \in Deliveries : d = wk[t].retry /\ Retries(t, d)
    BY <1>1 DEF AddRetry, Active, TypeInv, WorkersPoint, Retries
  <2>3. /\ UNCHANGED <<delivery, call>> /\ Active(t, "add") /\ wk'[t].pc = "done"
        /\ \A v \in Tasks : v # t => wk'[v] = wk[v]
    BY <1>1 DEF AddRetry, Idle, TypeInv, TypeOK
  <2>4. \A b \in Clients : \A q \in Deliveries : Emits(b, q)' => Emits(b, q) /\ q # d
    BY <2>2, <2>3 DEF Emits, RunInv, HeldInv, HeldOnce
  <2>5. \A v \in Tasks : \A q \in Deliveries : Retries(v, q)' => Retries(v, q) /\ q # d
    BY <2>2, <2>3 DEF Retries, RunInv, HeldInv, HeldOnce
  <2>6. WorkersRun'
    BY <2>1, <2>3 DEF RunInv, HeldInv, WorkersRun, NewTask, Active, TypeInv, TypeOK
  <2>7. \A v \in Tasks : /\ wk'[v].pc = "insert" => wk[v].pc = "insert"
                         /\ wk'[v].pc \in {"add", "done"} <=> wk[v].pc \in {"add", "done"}
    BY <2>3 DEF Active
  <2>8. QED BY <2>1, <2>2, <2>3, <2>4, <2>5, <2>6, <2>7, RunAdd
<1>2. QED BY <1>1, RunMoves, RunUpdate, RunInsert DEF TaskAction, WorkerStep

\* A crash spends what ran: the job has stalled once more.
LEMMA RunCrash ==
  ASSUME TypeInv, TypeInv', RunInv, Crash
  PROVE  RunInv'
<1>0. task \in [Tasks -> TaskType] /\ UNCHANGED <<delivery, call>>
  BY DEF TypeInv, TypeOK, Crash
<1>1. \A t \in Tasks : wk'[t].pc = "idle"
  BY DEF Crash, Idle
<1>2. ASSUME NEW t \in Tasks
      PROVE  /\ task'[t].delivery = task[t].delivery
             /\ task'[t].state = "none" <=> task[t].state = "none"
             /\ task'[t].stalls >= task[t].stalls
             /\ Runs(t)' >= Runs(t)
  <2>1. task[t] \in TaskType /\ task[t].stalls \in Nat /\ Runs(t) \in Nat
    BY <1>0, RunsType
  <2>2. CASE task[t].state = "active"
    <3>1. task'[t] = [task[t] EXCEPT !.stalls = task[t].stalls + 1,
                        !.state = IF task[t].stalls + 1 > MaxStalls THEN "failed"
                                  ELSE "waiting"]
      BY <2>2 DEF Crash
    <3>2. /\ task'[t].stalls = task[t].stalls + 1
          /\ task'[t].delivery = task[t].delivery
          /\ task'[t].state \in {"failed", "waiting"}
      BY <2>1, <3>1 DEF TaskType
    <3>3. QED BY <2>1, <2>2, <3>2 DEF Runs
  <2>3. CASE task[t].state # "active"
    <3>1. task'[t] = task[t] /\ wk[t].pc = "idle"
      BY <2>3 DEF Crash, RunInv, HeldInv, WorkersRun
    <3>2. Runs(t)' = Runs(t)
      BY <1>1, <3>1 DEF Runs, Spent
    <3>3. QED BY <2>1, <3>1, <3>2
  <2>4. QED BY <2>2, <2>3
<1>3. /\ WorkersRun'
      /\ \A b \in Clients : \A d \in Deliveries : Emits(b, d)' => Emits(b, d)
      /\ \A t \in Tasks : \A d \in Deliveries : Retries(t, d)' => Retries(t, d)
  BY <1>0, <1>1 DEF WorkersRun, Emits, Retries
<1>4. \A t \in Tasks : wk'[t].pc = "insert" => wk[t].pc = "insert"
  BY <1>1
<1>5. QED BY <1>0, <1>2, <1>3, <1>4, RunKept

LEMMA RunStep ==
  ASSUME TypeInv, TypeInv', RunInv, [Next]_vars
  PROVE  RunInv'
<1>1. CASE UNCHANGED vars
  BY <1>1 DEF vars, queueVars, RunInv, HeldInv, WorkersRun, HeldOnce, Unborn, ParentsTasked,
              RunsBound, OnceClean, Tasked, Emits, Retries, Retried, Runs, Spent
<1>2. CASE Next
  BY <1>2, NextCases, RunCall, RunHook, RunTask, RunCrash
<1>3. QED BY <1>1, <1>2

LEMMA RunAlways == Spec => [](TypeInv /\ RunInv)
<1>1. Init => TypeInv /\ RunInv
  BY TypeInit, RunInit
<1>2. (TypeInv /\ RunInv) /\ [Next]_vars => (TypeInv /\ RunInv)'
  BY TypeStep, RunStep
<1>3. QED BY <1>1, <1>2, PTL DEF Spec

\* A delivery has at most one retry, and one more for each time its job stalled and ran
\* again: a row gets one job, although inserting it and adding the job are two statements,
\* and a run inserts once (webhook.worker.ts:114-168).
THEOREM OneRetryAlways == Spec => []OneRetryPerRun
<1>1. ASSUME TypeInv, RunInv, NEW t \in Tasks, task[t].state # "none"
      PROVE  Cardinality({r \in Deliveries : delivery[r].parent = task[t].delivery})
               <= 1 + task[t].stalls
  <2>1. PICK d \in Deliveries : d = task[t].delivery
    BY <1>1 DEF TypeInv, TasksPoint
  <2>2. Cardinality(Retried(d)) <= Runs(t)
    BY <1>1, <2>1 DEF RunInv, RunsBound, Tasked
  <2>3. Runs(t) <= 1 + task[t].stalls /\ Runs(t) \in Nat /\ task[t].stalls \in Nat
    BY <1>1, RunsType DEF Runs
  <2>4. Cardinality(Retried(d)) <= 1 + task[t].stalls
    BY <2>2, <2>3, RetriedFinite
  <2>5. QED BY <2>1, <2>4 DEF Retried
<1>2. TypeInv /\ RunInv => OneRetryPerRun
  BY <1>1 DEF OneRetryPerRun
<1>3. QED BY RunAlways, <1>2, PTL

\* The row of a delivery that succeeded has no retry, unless its job ran a second time
\* after a stall (webhook.worker.ts:114-153).
THEOREM SuccessNeverRetried == Spec => []SuccessIsNotRetried
<1>1. ASSUME TypeInv, RunInv, NEW t \in Tasks, task[t].state # "none", task[t].stalls = 0,
             delivery[task[t].delivery].status = "success", NEW r \in Deliveries
      PROVE  delivery[r].parent # task[t].delivery
  <2>1. PICK d \in Deliveries : d = task[t].delivery
    BY <1>1 DEF TypeInv, TasksPoint
  <2>2. Retried(d) = {}
    BY <1>1, <2>1 DEF RunInv, OnceClean, Tasked
  <2>3. QED BY <2>1, <2>2 DEF Retried
<1>2. TypeInv /\ RunInv => SuccessIsNotRetried
  BY <1>1 DEF SuccessIsNotRetried
<1>3. QED BY RunAlways, <1>2, PTL
=============================================================================
