--------------------------- MODULE SprintLifecycle ---------------------------
(***************************************************************************)
(* What SprintsService promises of the sprints of a project, each call as  *)
(* one step: one sprint is active at a time, an active sprint that has     *)
(* ended gives way to the next one, and what is completed or deleted stays *)
(* so.  The Jira migration is bound by none of this: it gives a sprint the *)
(* status Jira has; imported says that one was active.  disturbed says     *)
(* that a call has saved a sprint it had read before another call wrote    *)
(* one; nothing is promised from then on.                                  *)
(***************************************************************************)
CONSTANT Sprints

VARIABLES status, disturbed, imported

vars == <<status, disturbed, imported>>

Set(s, to) == status' = [status EXCEPT ![s] = to]

Init ==
  /\ status \in [Sprints -> {"none", "planned", "active", "inactive", "completed"}]
  /\ \A a, b \in Sprints : status[a] = "active" /\ status[b] = "active" => a = b
  /\ disturbed = FALSE /\ imported = FALSE

Create(s) == status[s] = "none" /\ Set(s, "planned")

Start(s) ==
  /\ status[s] = "planned"
  /\ \A a \in Sprints : status[a] # "active"
  /\ Set(s, "active")

HandOver(a, s) ==
  /\ status[a] = "active" /\ status[s] = "planned"
  /\ status' = [status EXCEPT ![a] = "inactive", ![s] = "active"]

Complete(s) == status[s] \in {"active", "inactive"} /\ Set(s, "completed")

Delete(s) == status[s] \notin {"none", "active"} /\ Set(s, "deleted")

\* What was deleted is not found again: Jira's sprint is a new one then.
Import(s, to) ==
  /\ status[s] # "deleted"
  /\ Set(s, to)
  /\ imported' = (imported \/ to = "active")

Disturb == disturbed' = TRUE

Next ==
  \/ Disturb
  \/ /\ UNCHANGED <<disturbed, imported>>
     /\ \/ \E s \in Sprints : Create(s) \/ Start(s) \/ Complete(s) \/ Delete(s)
        \/ \E a, s \in Sprints : HandOver(a, s)
  \/ /\ UNCHANGED disturbed
     /\ \E s \in Sprints, to \in {"planned", "active", "completed"} : Import(s, to)

Spec == Init /\ [][Next]_vars

\* One active sprint at a time, unless the migration brought one.
OneActive ==
  \/ disturbed \/ imported
  \/ \A a, b \in Sprints : status[a] = "active" /\ status[b] = "active" => a = b
=============================================================================
