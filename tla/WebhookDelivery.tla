--------------------------- MODULE WebhookDelivery ---------------------------
(***************************************************************************)
(* Outgoing webhooks:                                                      *)
(*   - WebhookEventEmitter.emit, which turns an event into one delivery    *)
(*     row and one job of the BullMQ queue "webhooks" per active webhook;  *)
(*   - the webhook worker, which posts a delivery, records the answer and  *)
(*     schedules a retry as a new row and a new delayed job;               *)
(*   - the route that retries a failed delivery by hand, and the changes   *)
(*     of the webhooks themselves.                                         *)
(* Each step is one awaited statement; the API and the worker may fail or  *)
(* die between any two.  The endpoint is external: it answers or not.      *)
(* Delays are not modelled: a delayed job may start at any time.           *)
(***************************************************************************)
EXTENDS Integers, FiniteSets

CONSTANTS
  Clients,        \* API calls in flight
  Webhooks,       \* webhooks subscribed to the event type
  MaxEvents,      \* bound: events ever emitted
  MaxManual,      \* bound: retries by hand
  MaxDeliveries,  \* bound: delivery rows ever inserted
  MaxTasks,       \* bound: BullMQ jobs ever added
  MaxAttempts,    \* MAX_ATTEMPTS
  MaxStalls,      \* BullMQ's maxStalledCount
  Concurrency,    \* the worker's "concurrency" option
  MaxCrashes      \* bound: crashes of the worker process

ASSUME ConstantsAssumption ==
  /\ MaxEvents \in Nat /\ MaxManual \in Nat
  /\ MaxDeliveries \in Nat /\ MaxTasks \in Nat
  /\ MaxAttempts \in Nat \ {0} /\ Concurrency \in Nat \ {0}
  /\ MaxStalls \in Nat /\ MaxCrashes \in Nat

VARIABLES
  hook,      \* webhooks: "inactive" is is_active = false
  delivery,  \* webhook_deliveries
  task,      \* "deliver" jobs in BullMQ
  wk,        \* locals of the worker's processor, one per task
  call,      \* emit and retry calls in flight
  events,    \* events emitted so far
  manual,    \* retries by hand so far
  crashes,
  lost       \* history: an error or a crash dropped a job before it was added or done

queueVars == <<task, wk>>
boundVars == <<events, manual, crashes>>
vars == <<hook, delivery, queueVars, call, boundVars, lost>>

Deliveries == 1..MaxDeliveries
Tasks == 1..MaxTasks

\* "none" is a row not inserted yet, "gone" one deleted with its webhook.  retryAt
\* is next_retry_at IS NOT NULL.  parent, the delivery a worker's retry was made
\* for, and reset, a row retried by hand, are history.
DeliveryType == [hook: Webhooks, event: 0..MaxEvents,
                 status: {"none", "pending", "success", "failed", "gone"},
                 attempt: Nat, retryAt: BOOLEAN, parent: 0..MaxDeliveries, reset: BOOLEAN]

TaskType == [delivery: 0..MaxDeliveries,
             state: {"none", "waiting", "active", "completed", "failed"},
             stalls: 0..(MaxStalls + 1)]
NoTask == [delivery |-> 0, state |-> "none", stalls |-> 0]

WorkerType == [pc: {"idle", "post", "read", "update", "insert", "add", "done"},
               ok: BOOLEAN, attempt: Nat, retry: 0..MaxDeliveries]
Idle == [pc |-> "idle", ok |-> FALSE, attempt |-> 0, retry |-> 0]

\* webhooks is the part of emit's list not handled yet, attempt the one that a
\* retry by hand loaded.
CallType == [pc: {"idle", "find", "create", "add", "retry"}, event: 0..MaxEvents,
             webhooks: SUBSET Webhooks, delivery: 0..MaxDeliveries,
             attempt: Nat]
NoCall == [pc |-> "idle", event |-> 0, webhooks |-> {}, delivery |-> 0, attempt |-> 0]

TypeOK ==
  /\ hook \in [Webhooks -> {"active", "inactive", "deleted"}]
  /\ delivery \in [Deliveries -> DeliveryType]
  /\ task \in [Tasks -> TaskType]
  /\ wk \in [Tasks -> WorkerType]
  /\ call \in [Clients -> CallType]
  /\ events \in 0..MaxEvents
  /\ manual \in 0..MaxManual
  /\ crashes \in 0..MaxCrashes
  /\ lost \in BOOLEAN

Init ==
  /\ hook \in [Webhooks -> {"active", "inactive"}]
  /\ \E w \in Webhooks :
       delivery = [d \in Deliveries |->
         [hook |-> w, event |-> 0, status |-> "none", attempt |-> 0,
          retryAt |-> FALSE, parent |-> 0, reset |-> FALSE]]
  /\ task = [t \in Tasks |-> NoTask]
  /\ wk = [t \in Tasks |-> Idle]
  /\ call = [c \in Clients |-> NoCall]
  /\ events = 0 /\ manual = 0 /\ crashes = 0
  /\ lost = FALSE

-----------------------------------------------------------------------------
(* Helpers                                                                 *)

Exists(d) == delivery[d].status \in {"pending", "success", "failed"}

\* A new row d: the first free id.
NewDelivery(d) ==
  /\ delivery[d].status = "none"
  /\ \A e \in Deliveries : delivery[e].status = "none" => d <= e

InsertDelivery(d, w, e, attempt, parent) ==
  /\ NewDelivery(d)
  /\ delivery' = [delivery EXCEPT ![d] =
       [hook |-> w, event |-> e, status |-> "pending", attempt |-> attempt,
        retryAt |-> FALSE, parent |-> parent, reset |-> FALSE]]

\* webhooksQueue.add takes the first free task.
NewTask(t) ==
  /\ task[t].state = "none"
  /\ \A u \in Tasks : task[u].state = "none" => t <= u

Waiting(d) == [delivery |-> d, state |-> "waiting", stalls |-> 0]

Active(t, pc) == task[t].state = "active" /\ wk[t].pc = pc
GoTo(t, pc) == wk' = [wk EXCEPT ![t].pc = pc]

-----------------------------------------------------------------------------
(* WebhookEventEmitter                                                     *)

Emit(c) ==
  /\ call[c].pc = "idle"
  /\ events < MaxEvents
  /\ events' = events + 1
  /\ call' = [call EXCEPT ![c] = [NoCall EXCEPT !.pc = "find", !.event = events + 1]]
  /\ UNCHANGED <<hook, delivery, queueVars, manual, crashes, lost>>

\* The rest of a call whose list of webhooks is now ws.
Continue(c, ws) ==
  call' = [call EXCEPT ![c] =
    IF ws = {} THEN NoCall
    ELSE [NoCall EXCEPT !.pc = "create", !.event = call[c].event, !.webhooks = ws]]

\* findWebhooksForEvent: all active webhooks, whatever the call is about.
FindWebhooks(c) ==
  /\ call[c].pc = "find"
  /\ Continue(c, {w \in Webhooks : hook[w] = "active"})
  /\ UNCHANGED <<hook, delivery, queueVars, boundVars, lost>>

\* createDelivery; the webhook may have been deleted meanwhile (a foreign key).
CreateDelivery(c, d) ==
  /\ call[c].pc = "create"
  /\ \E w \in call[c].webhooks :
       /\ hook[w] # "deleted"
       /\ InsertDelivery(d, w, call[c].event, 1, 0)
       /\ call' = [call EXCEPT ![c].pc = "add", ![c].delivery = d,
                               ![c].webhooks = @ \ {w}]
  /\ UNCHANGED <<hook, queueVars, boundVars, lost>>

AddJob(c) ==
  /\ call[c].pc = "add"
  /\ \E t \in Tasks :
       NewTask(t) /\ task' = [task EXCEPT ![t] = Waiting(call[c].delivery)]
  /\ Continue(c, call[c].webhooks)
  /\ UNCHANGED <<hook, delivery, wk, boundVars, lost>>

\* An error of createDelivery or add is logged and the next webhook is tried.
EmitError(c) ==
  /\ \/ call[c].pc = "create" /\ \E w \in call[c].webhooks : Continue(c, call[c].webhooks \ {w})
     \/ call[c].pc = "add" /\ Continue(c, call[c].webhooks)
  /\ lost' = TRUE
  /\ UNCHANGED <<hook, delivery, queueVars, boundVars>>

\* The call ends early: an error outside emit's loop, or the API process dies.
CallFails(c) ==
  /\ call[c].pc # "idle"
  /\ call' = [call EXCEPT ![c] = NoCall]
  /\ lost' = (lost \/ call[c].pc # "retry")
  /\ UNCHANGED <<hook, delivery, queueVars, boundVars>>

-----------------------------------------------------------------------------
(* The retry route and the webhooks                                        *)

\* retryDelivery: only a failed delivery...
RetryLoad(c, d) ==
  /\ call[c].pc = "idle"
  /\ delivery[d].status = "failed"
  /\ manual < MaxManual
  /\ manual' = manual + 1
  /\ call' = [call EXCEPT ![c] = [NoCall EXCEPT !.pc = "retry", !.delivery = d,
                !.event = delivery[d].event, !.attempt = delivery[d].attempt]]
  /\ UNCHANGED <<hook, delivery, queueVars, events, crashes, lost>>

\* Mutant: a status of its own.
RetrySaveQueued(c) ==
  /\ call[c].pc = "retry"
  /\ LET d == call[c].delivery
     IN /\ Exists(d)
        /\ delivery' = [delivery EXCEPT ![d].status = "queued", ![d].reset = TRUE]
  /\ call' = [call EXCEPT ![c] = [NoCall EXCEPT !.pc = "find", !.event = call[c].event]]
  /\ UNCHANGED <<hook, queueVars, boundVars, lost>>

\* ...is saved as pending with one more attempt, and the controller emits its event
\* again.
RetrySave(c) ==
  /\ call[c].pc = "retry"
  /\ LET d == call[c].delivery
     IN /\ Exists(d)
        /\ delivery' = [delivery EXCEPT ![d].status = "pending",
                          ![d].attempt = call[c].attempt + 1,
                          ![d].retryAt = FALSE, ![d].reset = TRUE]
  /\ call' = [call EXCEPT ![c] = [NoCall EXCEPT !.pc = "find", !.event = call[c].event]]
  /\ UNCHANGED <<hook, queueVars, boundVars, lost>>

\* WebhooksService.update: is_active is switched.
Switch(w) ==
  /\ \/ hook[w] = "active" /\ hook' = [hook EXCEPT ![w] = "inactive"]
     \/ hook[w] = "inactive" /\ hook' = [hook EXCEPT ![w] = "active"]
  /\ UNCHANGED <<delivery, queueVars, call, boundVars, lost>>

\* delete: the rows of its deliveries go with it, their jobs stay.
Delete(w) ==
  /\ hook[w] # "deleted"
  /\ hook' = [hook EXCEPT ![w] = "deleted"]
  /\ delivery' = [d \in Deliveries |-> IF delivery[d].hook = w /\ Exists(d)
                                       THEN [delivery[d] EXCEPT !.status = "gone"]
                                       ELSE delivery[d]]
  /\ UNCHANGED <<queueVars, call, boundVars, lost>>

-----------------------------------------------------------------------------
(* The webhook worker                                                      *)

Dispatch(t) ==
  /\ task[t].state = "waiting"
  /\ Cardinality({u \in Tasks : task[u].state = "active"}) < Concurrency
  /\ task' = [task EXCEPT ![t].state = "active"]
  /\ GoTo(t, "post")
  /\ UNCHANGED <<hook, delivery, call, boundVars, lost>>

\* The POST: any answer but 2xx, a timeout and a network error are a failure.
Post(t) ==
  /\ Active(t, "post")
  /\ \E ok \in BOOLEAN : wk' = [wk EXCEPT ![t].pc = "read", ![t].ok = ok]
  /\ UNCHANGED <<hook, delivery, task, call, boundVars, lost>>

\* SELECT attempt ... || 1.
ReadAttempt(t) ==
  /\ Active(t, "read")
  /\ LET d == task[t].delivery
     IN wk' = [wk EXCEPT ![t].pc = "update",
                         ![t].attempt = IF Exists(d) THEN delivery[d].attempt ELSE 1]
  /\ UNCHANGED <<hook, delivery, task, call, boundVars, lost>>

\* Mutant: retries go on for ever.
RetryDueAlways(t) == ~wk[t].ok

\* Mutant: the answer is not looked at.
RetryDueAnyway(t) == wk[t].attempt < MaxAttempts

\* status === 'failed' && currentAttempt < MAX_ATTEMPTS.
RetryDue(t) == ~wk[t].ok /\ wk[t].attempt < MaxAttempts

\* Mutant: the two tests of the attempt differ by one.
UpdateOffByOne(t) ==
  /\ Active(t, "update")
  /\ LET d == task[t].delivery
     IN delivery' = IF ~Exists(d) THEN delivery
                    ELSE [delivery EXCEPT ![d].status = IF wk[t].ok THEN "success" ELSE "failed",
                                          ![d].retryAt = RetryDue(t)]
  /\ wk' = [wk EXCEPT ![t] = IF RetryDue(t) /\ wk[t].attempt + 1 < MaxAttempts
                             THEN [@ EXCEPT !.pc = "insert"] ELSE [Idle EXCEPT !.pc = "done"]]
  /\ UNCHANGED <<hook, task, call, boundVars, lost>>

\* Mutant: a delivery that will be retried stays pending.
UpdateKeepsPending(t) ==
  /\ Active(t, "update")
  /\ LET d == task[t].delivery
     IN delivery' = IF ~Exists(d) \/ RetryDue(t) THEN delivery
                    ELSE [delivery EXCEPT ![d].status = IF wk[t].ok THEN "success" ELSE "failed"]
  /\ wk' = [wk EXCEPT ![t] = IF RetryDue(t) THEN [@ EXCEPT !.pc = "insert"]
                             ELSE [Idle EXCEPT !.pc = "done"]]
  /\ UNCHANGED <<hook, task, call, boundVars, lost>>

\* The answer is recorded; a row deleted meanwhile stays deleted.
UpdateDelivery(t) ==
  /\ Active(t, "update")
  /\ LET d == task[t].delivery
     IN delivery' = IF ~Exists(d) THEN delivery
                    ELSE [delivery EXCEPT ![d].status = IF wk[t].ok THEN "success" ELSE "failed",
                                          ![d].retryAt = RetryDue(t)]
  /\ wk' = [wk EXCEPT ![t] = IF RetryDue(t) THEN [@ EXCEPT !.pc = "insert"]
                             ELSE [Idle EXCEPT !.pc = "done"]]
  /\ UNCHANGED <<hook, task, call, boundVars, lost>>

\* Mutant: the job has more attempts.
JobRetries(t) ==
  /\ task' = [task EXCEPT ![t].state = "waiting"]
  /\ wk' = [wk EXCEPT ![t] = Idle]

\* The job fails for good: it has one attempt.
JobFails(t) ==
  /\ task' = [task EXCEPT ![t].state = "failed"]
  /\ wk' = [wk EXCEPT ![t] = Idle]

\* Mutant: the row is left to be found.
InsertRetryOnly(t, d) ==
  /\ Active(t, "insert")
  /\ LET p == task[t].delivery
     IN /\ hook[delivery[p].hook] # "deleted"
        /\ InsertDelivery(d, delivery[p].hook, delivery[p].event, wk[t].attempt + 1, p)
  /\ wk' = [wk EXCEPT ![t] = [Idle EXCEPT !.pc = "done"]]
  /\ UNCHANGED <<hook, task, call, boundVars, lost>>

\* The retry is a row of its own...
InsertRetry(t, d) ==
  /\ Active(t, "insert")
  /\ LET p == task[t].delivery
     IN /\ hook[delivery[p].hook] # "deleted"
        /\ InsertDelivery(d, delivery[p].hook, delivery[p].event, wk[t].attempt + 1, p)
  /\ wk' = [wk EXCEPT ![t] = [Idle EXCEPT !.pc = "add", !.retry = d]]
  /\ UNCHANGED <<hook, task, call, boundVars, lost>>

\* ...which the foreign key refuses once the webhook is deleted...
InsertRefused(t) ==
  /\ Active(t, "insert")
  /\ hook[delivery[task[t].delivery].hook] = "deleted"
  /\ JobFails(t)
  /\ UNCHANGED <<hook, delivery, call, boundVars, lost>>

\* ...and a delayed job of its own.
AddRetry(t) ==
  /\ Active(t, "add")
  /\ \E u \in Tasks :
       NewTask(u) /\ task' = [task EXCEPT ![u] = Waiting(wk[t].retry)]
  /\ wk' = [wk EXCEPT ![t] = [Idle EXCEPT !.pc = "done"]]
  /\ UNCHANGED <<hook, delivery, call, boundVars, lost>>

Done(t) ==
  /\ Active(t, "done")
  /\ task' = [task EXCEPT ![t].state = "completed"]
  /\ wk' = [wk EXCEPT ![t] = Idle]
  /\ UNCHANGED <<hook, delivery, call, boundVars, lost>>

\* A query or the add throws.
Throw(t) ==
  /\ task[t].state = "active" /\ wk[t].pc \in {"read", "update", "insert", "add"}
  /\ JobFails(t)
  /\ lost' = TRUE
  /\ UNCHANGED <<hook, delivery, call, boundVars>>

\* The worker process dies and restarts: the stall check queues its jobs again, or
\* fails one that stalled too often.  A retry row whose job was not added yet is
\* left behind.
Crash ==
  /\ crashes < MaxCrashes
  /\ crashes' = crashes + 1
  /\ task' = [t \in Tasks |->
       IF task[t].state # "active" THEN task[t]
       ELSE [task[t] EXCEPT !.stalls = task[t].stalls + 1,
               !.state = IF task[t].stalls + 1 > MaxStalls THEN "failed" ELSE "waiting"]]
  /\ wk' = [t \in Tasks |-> Idle]
  /\ lost' = (lost \/ \E t \in Tasks : Active(t, "add") \/ task'[t].stalls > MaxStalls)
  /\ UNCHANGED <<hook, delivery, call, events, manual>>

-----------------------------------------------------------------------------
WorkerStep(t) ==
  \/ Post(t) \/ ReadAttempt(t) \/ UpdateDelivery(t)
  \/ \E d \in Deliveries : InsertRetry(t, d)
  \/ InsertRefused(t) \/ AddRetry(t) \/ Done(t)

CallStep(c) ==
  \/ FindWebhooks(c)
  \/ \E d \in Deliveries : CreateDelivery(c, d)
  \/ AddJob(c) \/ EmitError(c) \/ CallFails(c) \/ RetrySave(c)

Next ==
  \/ \E c \in Clients : Emit(c) \/ CallStep(c)
  \/ \E c \in Clients, d \in Deliveries : RetryLoad(c, d)
  \/ \E w \in Webhooks : Switch(w) \/ Delete(w)
  \/ \E t \in Tasks : Dispatch(t) \/ WorkerStep(t) \/ Throw(t)
  \/ Crash

Spec == Init /\ [][Next]_vars

\* The worker process keeps polling and running what it holds, and a call in flight
\* goes on or fails; events, retries by hand and crashes are under no obligation.
Fairness ==
  /\ \A t \in Tasks : WF_vars(Dispatch(t)) /\ WF_vars(WorkerStep(t))
  /\ \A c \in Clients : WF_vars(CallStep(c))

FairSpec == Spec /\ Fairness

-----------------------------------------------------------------------------
(* Properties                                                              *)

\* A queue job, an emit call or a worker still has delivery d in hand.
Held(d) ==
  \/ \E t \in Tasks : task[t].delivery = d /\ task[t].state \in {"waiting", "active"}
  \/ \E c \in Clients : call[c].pc = "add" /\ call[c].delivery = d
  \/ \E t \in Tasks : Active(t, "add") /\ wk[t].retry = d

\* No delivery is left pending with nobody to post it: rows and jobs are added by
\* two statements, and a crash between others must not lose the job.
\* Excused are rows retried by hand and behaviours in which an error dropped a job.
PendingIsHeld ==
  ~lost => \A d \in Deliveries :
             delivery[d].status = "pending" /\ ~delivery[d].reset => Held(d)

\* A next_retry_at that the delivery log shows is kept: the retry exists or the job
\* that owes it is still held, also after a crash between the update of the row and
\* the insert of the retry.
NextRetryIsKept ==
  ~lost => \A d \in Deliveries :
             delivery[d].status = "failed" /\ delivery[d].retryAt =>
               Held(d) \/ \E r \in Deliveries : delivery[r].parent = d

\* No chain of automatic retries goes beyond MAX_ATTEMPTS, also when a job runs a
\* second time.
AttemptsBounded ==
  \A d \in Deliveries : delivery[d].reset \/ delivery[d].attempt <= MaxAttempts

\* A delivery has one retry, and one more only for each time its job stalled and was
\* run again.
OneRetryPerRun ==
  \A t \in Tasks :
    task[t].state # "none" =>
      Cardinality({r \in Deliveries : delivery[r].parent = task[t].delivery})
        <= 1 + task[t].stalls

\* A retry is only made of a delivery that failed: the row of one that succeeded has
\* none, unless its job ran a second time after a stall.
SuccessIsNotRetried ==
  \A t \in Tasks :
    task[t].state # "none" /\ task[t].stalls = 0
      /\ delivery[task[t].delivery].status = "success"
    => \A r \in Deliveries : delivery[r].parent # task[t].delivery

\* Every delivery that was queued ends as a success or a failure, or goes with its
\* webhook (excused as in PendingIsHeld, and when the bounds of the model are used up).
DeliveryEnds ==
  \A d \in Deliveries :
    delivery[d].status = "pending" ~>
      \/ delivery[d].status # "pending" \/ delivery[d].reset \/ lost
      \/ \A e \in Deliveries : delivery[e].status # "none"
      \/ \A t \in Tasks : task[t].state # "none"

\* "Reset status to pending so the worker picks it up again"
\* (webhooks.service.ts:180): a delivery retried by hand is held by a job or by the
\* call that is about to queue it.
RetriedIsPickedUp ==
  ~lost => \A d \in Deliveries :
             delivery[d].status = "pending" /\ delivery[d].reset
               /\ hook[delivery[d].hook] = "active" =>
               Held(d) \/ \E c \in Clients : call[c].pc # "idle"
=============================================================================
