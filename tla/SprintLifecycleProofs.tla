------------------------ MODULE SprintLifecycleProofs ------------------------
(***************************************************************************)
(* What follows from SprintLifecycle for any number of sprints: one active *)
(* sprint at a time, unless the migration brings one.                      *)
(***************************************************************************)
EXTENDS SprintLifecycle, TLAPS

\* The inductive invariant: the statuses are a function, and one sprint is active.
Inv ==
  /\ disturbed \in BOOLEAN
  /\ disturbed \/ (DOMAIN status = Sprints /\ imported \in BOOLEAN /\ OneActive)

LEMMA InvNext == Inv /\ [Next]_vars => Inv'
<1> SUFFICES ASSUME Inv, [Next]_vars PROVE Inv'
  OBVIOUS
<1>1. CASE Disturb
  BY <1>1 DEF Disturb, Inv
<1>2. CASE UNCHANGED vars
  BY <1>2 DEF Inv, vars, OneActive
<1>3. CASE disturbed /\ UNCHANGED disturbed
  BY <1>3 DEF Inv
<1>4. ASSUME ~disturbed, UNCHANGED <<disturbed, imported>>, NEW s \in Sprints,
             Create(s) \/ Start(s) \/ Complete(s) \/ Delete(s)
      PROVE  Inv'
  BY <1>4 DEF Inv, OneActive, Create, Start, Complete, Delete, Set
<1>5. ASSUME ~disturbed, UNCHANGED <<disturbed, imported>>, NEW a \in Sprints,
             NEW s \in Sprints, HandOver(a, s)
      PROVE  Inv'
  BY <1>5 DEF Inv, OneActive, HandOver
<1>6. ASSUME ~disturbed, UNCHANGED disturbed, NEW s \in Sprints,
             NEW to \in {"planned", "active", "completed"}, Import(s, to)
      PROVE  Inv'
  BY <1>6 DEF Inv, OneActive, Import, Set
<1>7. QED
  BY <1>1, <1>2, <1>3, <1>4, <1>5, <1>6 DEF Inv, Next

\* One sprint is active at a time until a call disturbs another or the migration writes
\* one that is active in Jira: the promise of
\* SprintsService.start (sprints.service.ts:100-104, 208-239).
THEOREM OneActiveAlways == Spec => []OneActive
<1>1. Init => Inv
  BY DEF Init, Inv, OneActive
<1>2. Inv => OneActive
  BY DEF Inv, OneActive
<1>3. QED
  BY <1>1, <1>2, InvNext, PTL DEF Spec
=============================================================================
