-------------------------- MODULE JiraMigrationProofs --------------------------
(***************************************************************************)
(* Proofs about JiraMigration for every value of its constants: the type   *)
(* invariant, and that what a run records in completed_phases holds, so    *)
(* that an attempt which skips a recorded phase still ends with every page *)
(* of issues and its comments there or reported.                           *)
(***************************************************************************)
EXTENDS JiraMigration, TLAPS

\* Job t has loaded the run.
Working(t) == job[t].pc \notin {"idle", "load"}

\* It has done phase i or is past it, or has only to record it.
Passed(t, i) == job[t].phase > i \/ (job[t].phase = i /\ job[t].pc \in {"check", "close"})
Finished(t, i) == Passed(t, i) \/ (job[t].phase = i /\ At(t, "finish"))

\* The pages whose issues may be missing: the run is not for them, messages report them, or
\* there are too many messages.  And those whose comments may be.
Missing(errors) ==
  {p \in Pages : "project" \notin run.chosen \/ Full \in errors \/ <<"issues", p>> \in errors}
Mentioned(errors) ==
  {p \in Pages : p \in Missing(errors) \/ "comments" \notin run.chosen
                  \/ <<"comments", p>> \in errors}

\* What the history lets the properties claim.
Alone == "overlap" \notin lost
Kept == lost \cap {"import", "overlap", "reselected"} = {}
Heard == lost \cap {"import", "overlap", "reselected", "silent"} = {}

\* Where a job can be, and what it can hold there.
Shape(t) ==
  /\ job[t].state = "active" <=> ~At(t, "idle")
  /\ job[t].state = "waiting" => job[t].attempts < MaxAttempts
  /\ job[t].done \subseteq run.done
  /\ job[t].pc \in {"idle", "load", "mark", "wipe"} => job[t].phase = 1
  /\ At(t, "create") => job[t].phase = 3
  /\ job[t].pc \in {"pages", "inline"} => job[t].phase = 5
  /\ At(t, "inline") => job[t].page <= LastPage
  /\ At(t, "fetch") => job[t].phase = 6
  /\ At(t, "close") /\ job[t].full => job[t].phase = 7
  /\ job[t].pc \in {"create", "pages", "inline", "fetch", "finish"} => Name(t) \notin job[t].done
  /\ job[t].phase < 3 => job[t].project = "unknown"
  /\ job[t].phase < 5 => job[t].map = "none" /\ job[t].known = {}
  /\ job[t].phase = 5 /\ "issues" \in job[t].done => job[t].map = "none"
  /\ job[t].phase = 5 /\ job[t].map = "omits" => job[t].work = {} /\ ~job[t].inlined

\* What a job can rely on as long as it is the only one of the run at work.
Solo(t) ==
  /\ \A u \in Jobs : job[t].state = "active" /\ job[u].state = "active" => u = t
  /\ Working(t) =>
       /\ run.log \subseteq job[t].errors
       /\ \A i \in DOMAIN Phase : Phase[i] \in run.done => Phase[i] \in job[t].done \/ Passed(t, i)
  /\ Working(t) /\ ~At(t, "mark") => run.status # "completed"

\* What the recorded phases promise, given the messages there are.
RunImports(errors) ==
  /\ "projects" \in run.done => project = "jira" \/ Pages \subseteq Missing(errors)
  /\ "issues" \in run.done => Pages \subseteq issues \cup Missing(errors)

RunComments(errors) ==
  "comments" \in run.done =>
    /\ "issues" \in run.done \/ Pages \subseteq Missing(errors)
    /\ issues \subseteq comments \cup Mentioned(errors)

\* What the phases a job has done have left of the issues, ...
Imports(t) ==
  /\ job[t].project # "stale"
  /\ job[t].known \subseteq issues
  /\ Working(t) => job[t].chosen = run.chosen /\ RunImports(job[t].errors)
  /\ Finished(t, 3) => \/ job[t].project = "known" /\ project = "jira"
                       \/ Pages \subseteq Missing(job[t].errors)
  /\ At(t, "pages") => \A p \in Pages : p < job[t].page =>
                          p \in job[t].known \cup Missing(job[t].errors)
  /\ At(t, "inline") => \A p \in Pages : p <= job[t].page =>
                          p \in job[t].known \cup Missing(job[t].errors)
  /\ Finished(t, 5) => Pages \subseteq issues \cup Missing(job[t].errors)
  /\ Passed(t, 5) => "issues" \in run.done \/ Pages \subseteq Missing(job[t].errors)

\* ... and of the comments, or have put on the list for phase 5, or can list.
Comments(t) ==
  /\ Working(t) => RunComments(job[t].errors)
  /\ Finished(t, 5) /\ ~Passed(t, 6) => Pages \subseteq job[t].known \cup Missing(job[t].errors)
  /\ job[t].pc \in {"pages", "inline"} /\ job[t].map = "sends" =>
       \A p \in Pages : p < job[t].page =>
         p \in comments \cup job[t].work \cup Mentioned(job[t].errors)
  /\ /\ Finished(t, 5) /\ ~Passed(t, 6) /\ job[t].map # "none"
     /\ job[t].work # {} \/ job[t].inlined
     => Pages \subseteq comments \cup job[t].work \cup Mentioned(job[t].errors)
  /\ At(t, "fetch") => Pages \subseteq comments \cup job[t].work \cup Mentioned(job[t].errors)
  /\ Finished(t, 6) => issues \subseteq comments \cup Mentioned(job[t].errors)

Quiet == \A t \in Jobs : ~Working(t)

\* The inductive invariant.
Inv ==
  /\ TypeOK
  /\ \A t \in Jobs : Shape(t)
  /\ Alone => \A t \in Jobs : Solo(t)
  /\ Kept => (\A t \in Jobs : Imports(t)) /\ (Quiet => RunImports(run.log))
  /\ Heard => (\A t \in Jobs : Comments(t)) /\ (Quiet => RunComments(run.log))

-----------------------------------------------------------------------------
(* Phases, pages and messages                                              *)

LEMMA PhaseFacts ==
  /\ DOMAIN Phase = 1..7
  /\ Phase[1] = "members" /\ Phase[2] = "sync" /\ Phase[3] = "projects"
  /\ Phase[4] = "sprints" /\ Phase[5] = "issues" /\ Phase[6] = "comments"
  /\ Phase[7] = "attachments"
BY DEF Phase

LEMMA PhaseNames ==
  ASSUME TypeOK, NEW t \in Jobs
  PROVE  /\ job[t].phase \in 1..7 /\ Name(t) \in Phases
         /\ Name(t) = "members" <=> job[t].phase = 1
         /\ Name(t) = "sync" <=> job[t].phase = 2
         /\ Name(t) = "projects" <=> job[t].phase = 3
         /\ Name(t) = "sprints" <=> job[t].phase = 4
         /\ Name(t) = "issues" <=> job[t].phase = 5
         /\ Name(t) = "comments" <=> job[t].phase = 6
         /\ Name(t) = "attachments" <=> job[t].phase = 7
<1>1. job[t].phase \in DOMAIN Phase
  BY DEF TypeOK, JobType
<1>2. Name(t) \in Phases
  BY <1>1 DEF Name, Phases
<1>3. job[t].phase \in 1..7
  BY <1>1, PhaseFacts
<1>4. \/ job[t].phase = 1 \/ job[t].phase = 2 \/ job[t].phase = 3 \/ job[t].phase = 4
      \/ job[t].phase = 5 \/ job[t].phase = 6 \/ job[t].phase = 7
  BY <1>3
<1>5. QED BY <1>2, <1>3, <1>4, PhaseFacts DEF Name

\* Phases come in their order.
LEMMA FinishedOrder ==
  ASSUME TypeOK, NEW t \in Jobs, Shape(t)
  PROVE  /\ job[t].phase \in 1..7
         /\ Finished(t, 5) => Finished(t, 3) /\ Passed(t, 3)
         /\ Finished(t, 6) => Passed(t, 5) /\ Finished(t, 5)
         /\ At(t, "pages") \/ At(t, "inline") \/ At(t, "fetch") => Finished(t, 3) /\ Passed(t, 3)
         /\ At(t, "fetch") => Finished(t, 5) /\ Passed(t, 5) /\ ~Passed(t, 6)
<1>1. job[t].phase \in 1..7
  BY PhaseNames
<1>2. /\ At(t, "pages") \/ At(t, "inline") => job[t].phase = 5
      /\ At(t, "fetch") => job[t].phase = 6
  BY DEF Shape, At
<1>3. QED BY <1>1, <1>2 DEF Finished, Passed, At

\* More messages report more.
LEMMA MoreMessages ==
  ASSUME NEW few, NEW many, few \subseteq many
  PROVE  Missing(few) \subseteq Missing(many) /\ Mentioned(few) \subseteq Mentioned(many)
BY DEF Missing, Mentioned

LEMMA MissingMentioned ==
  ASSUME NEW errors
  PROVE  Missing(errors) \subseteq Mentioned(errors)
BY DEF Missing, Mentioned

\* A job of which nothing runs.
LEMMA IdleClaims ==
  ASSUME NEW t \in Jobs, At(t, "idle"), Shape(t)
  PROVE  ~Working(t) /\ Imports(t) /\ Comments(t)
BY DEF Shape, Working, Imports, Comments, Passed, Finished, At

LEMMA IdleClaimsNext ==
  ASSUME NEW t \in Jobs, At(t, "idle")', Shape(t)'
  PROVE  ~Working(t)' /\ Imports(t)' /\ Comments(t)'
BY DEF Shape, Working, Imports, Comments, Passed, Finished, At

\* Records as the queue keeps them.
LEMMA QueuedType ==
  ASSUME TypeOK, NEW t \in Jobs, NEW state \in {"none", "waiting", "active", "kept"}
  PROVE  LET q == Queued(t, state) IN
         /\ q \in JobType
         /\ q.state = state /\ q.attempts = job[t].attempts /\ q.pc = "idle" /\ q.phase = 1
         /\ q.done = {} /\ q.project = "unknown" /\ q.known = {} /\ q.map = "none"
         /\ NoJob \in JobType
<1>1. NoJob \in JobType
  BY PhaseFacts, ConstantsAssumption DEF NoJob, JobType
<1>2. job[t] \in JobType
  BY DEF TypeOK
<1>3. /\ job[t].attempts \in 0..MaxAttempts /\ job[t].full \in BOOLEAN
      /\ job[t].reset \in BOOLEAN
  BY <1>2 DEF JobType
<1>4. Queued(t, state) \in JobType
  BY <1>1, <1>3 DEF Queued, JobType
<1>5. QED BY <1>1, <1>4 DEF Queued, NoJob

LEMMA JobFields ==
  ASSUME TypeOK, NEW t \in Jobs
  PROVE  job[t] \in JobType
BY DEF TypeOK

-----------------------------------------------------------------------------
(* How the invariant is kept                                               *)

\* A step of a job at work.
LEMMA WorkerKeeps ==
  ASSUME Inv, NEW t \in Jobs, ~At(t, "idle"), NEW next \in JobType, SetJob(t, next),
         TypeOK', run.done \subseteq run'.done, lost \subseteq lost', Shape(t)',
         Alone' => (Working(t)' =>
           /\ run'.log \subseteq next.errors
           /\ \A i \in DOMAIN Phase :
                Phase[i] \in run'.done => Phase[i] \in next.done \/ Passed(t, i)'
           /\ next.pc # "mark" => run'.status # "completed"),
         Kept' => Imports(t)' /\ (~Working(t)' => RunImports(run.log)'),
         Heard' => Comments(t)' /\ (~Working(t)' => RunComments(run.log)')
  PROVE  Inv'
<1>1. /\ TypeOK /\ \A u \in Jobs : Shape(u)
      /\ Alone => \A u \in Jobs : Solo(u)
      /\ t \in DOMAIN job
  BY DEF Inv, TypeOK
<1>2. job'[t] = next /\ \A u \in Jobs \ {t} : job'[u] = job[u]
  BY <1>1 DEF SetJob, TypeOK
<1>3. \A u \in Jobs \ {t} : Shape(u)'
  BY <1>1, <1>2 DEF Shape, At, Name
<1>4. Alone' => Alone
  BY DEF Alone
<1>5. Alone => \A u \in Jobs \ {t} : At(u, "idle") /\ At(u, "idle")'
  BY <1>1, <1>2 DEF Solo, Shape, At
<1>6. Alone' => \A u \in Jobs : Solo(u)'
  <2>1. SUFFICES ASSUME Alone', NEW u \in Jobs PROVE Solo(u)'
    OBVIOUS
  <2>2. \A v \in Jobs \ {t} : At(v, "idle")' /\ job'[v].state # "active"
    BY <1>3, <1>4, <1>5, <2>1 DEF Shape
  <2>3. CASE u = t
    BY <1>2, <2>1, <2>2, <2>3 DEF Solo, At
  <2>4. CASE u # t
    BY <2>2, <2>4 DEF Solo, Working, At
  <2>5. QED BY <2>3, <2>4
<1>7. (Kept' \/ Heard') => Alone
  BY DEF Kept, Heard, Alone
<1>8. Alone => \A u \in Jobs \ {t} : ~Working(u)' /\ Imports(u)' /\ Comments(u)'
  BY <1>3, <1>5, IdleClaimsNext
<1>9. QED BY <1>1, <1>3, <1>6, <1>7, <1>8 DEF Inv, Quiet

LEMMA RestClaims ==
  ASSUME NEW t \in Jobs, ~Working(t)', Shape(t)'
  PROVE  Imports(t)' /\ Comments(t)'
BY PhaseFacts DEF Shape, Working, Imports, Comments, Passed, Finished, At

\* What is said of a job rests on the job, the data and the recorded phases.
LEMMA SameClaims ==
  ASSUME NEW t \in Jobs, job'[t] = job[t], run'.done = run.done, run'.chosen = run.chosen,
         UNCHANGED data
  PROVE  /\ Shape(t)' <=> Shape(t)
         /\ Working(t)' <=> Working(t)
         /\ Imports(t)' <=> Imports(t)
         /\ Comments(t)' <=> Comments(t)
<1>1. /\ Shape(t)' <=> Shape(t)
      /\ Working(t)' <=> Working(t)
  BY DEF Shape, Working, At, Name
<1>2. /\ Imports(t)' <=> Imports(t)
      /\ Comments(t)' <=> Comments(t)
  BY <1>1 DEF data, Imports, Comments, RunImports, RunComments, Passed, Finished, At, Missing,
       Mentioned
<1>3. QED BY <1>1, <1>2

\* A step of the API or the queue: at most a job at rest changes, or one that has not loaded
\* the run.
LEMMA RestKeeps ==
  ASSUME Inv, TypeOK', run'.done = run.done, run'.log = run.log, run'.chosen = run.chosen,
         run'.status # "completed" \/ run'.status = run.status,
         UNCHANGED data, lost \subseteq lost',
         \A u \in Jobs : job'[u] = job[u] \/ (~Working(u) /\ ~Working(u)' /\ Shape(u)'),
         Alone' => \A u, v \in Jobs :
                     job'[u].state = "active" /\ job'[v].state = "active" => u = v
  PROVE  Inv'
<1>1. /\ \A u \in Jobs : Shape(u)
      /\ Alone => \A u \in Jobs : Solo(u)
      /\ Kept => (\A u \in Jobs : Imports(u)) /\ (Quiet => RunImports(run.log))
      /\ Heard => (\A u \in Jobs : Comments(u)) /\ (Quiet => RunComments(run.log))
  BY DEF Inv
<1>2. /\ Alone' => Alone
      /\ Kept' => Kept
      /\ Heard' => Heard
  BY DEF Alone, Kept, Heard
<1>3. \A u \in Jobs : Shape(u)' /\ (Working(u)' <=> Working(u))
  BY <1>1, SameClaims
<1>4. Quiet' <=> Quiet
  BY <1>3 DEF Quiet
<1>5. ASSUME NEW u \in Jobs
      PROVE  (Imports(u) => Imports(u)') /\ (Comments(u) => Comments(u)')
  BY <1>3, SameClaims, RestClaims
<1>6. /\ RunImports(run.log)' <=> RunImports(run.log)
      /\ RunComments(run.log)' <=> RunComments(run.log)
  BY DEF data, RunImports, RunComments, Missing, Mentioned
<1>7. ASSUME Alone', NEW u \in Jobs
      PROVE  Solo(u)'
  <2>1. Solo(u)
    BY <1>1, <1>2, <1>7
  <2>2. CASE Working(u)
    <3>1. job'[u] = job[u]
      BY <2>2
    <3>2. QED BY <1>3, <1>7, <2>1, <2>2, <3>1 DEF Solo, Passed, At
  <2>3. CASE ~Working(u)
    BY <1>3, <1>7, <2>3 DEF Solo
  <2>4. QED BY <2>2, <2>3
<1>8. QED BY <1>1, <1>2, <1>3, <1>4, <1>5, <1>6, <1>7 DEF Inv

\* An attempt of job t ends, or has not got further than loading the run.
LEMMA EndKeeps ==
  ASSUME Inv, NEW t \in Jobs, ~At(t, "idle"), NEW state \in {"waiting", "kept"},
         state = "waiting" => job[t].attempts < MaxAttempts,
         SetJob(t, Queued(t, state)), TypeOK', UNCHANGED data,
         run.log \subseteq run'.log, run'.chosen = run.chosen,
         run.done \subseteq run'.done, run'.done \subseteq run.done \cup {"sync"},
         lost \cup Forgotten(t) \subseteq lost'
  PROVE  Inv'
<1> DEFINE next == Queued(t, state)
<1>1. TypeOK
  BY DEF Inv
<1>2. /\ next \in JobType
      /\ next.state = state /\ next.attempts = job[t].attempts /\ next.pc = "idle"
      /\ next.phase = 1 /\ next.done = {} /\ next.project = "unknown" /\ next.known = {}
      /\ next.map = "none"
  BY <1>1, QueuedType
<1>3. job'[t] = next
  BY <1>1 DEF SetJob, TypeOK
<1> HIDE DEF next
<1>4. Shape(t)' /\ ~Working(t)'
  BY <1>2, <1>3 DEF Shape, Working, At
<1>5. Imports(t)' /\ Comments(t)'
  BY <1>4, RestClaims
<1>6. /\ Kept' => Kept /\ Alone
      /\ Heard' => Heard /\ Kept /\ Alone
  BY DEF Alone, Kept, Heard
<1>7. ASSUME Kept'
      PROVE  \/ job[t].errors \subseteq run.log
             \/ run.done \cap {"projects", "issues", "comments"} = {}
  BY <1>7 DEF Kept, Forgotten
<1>8. \A u \in Jobs \ {t} : Alone => At(u, "idle")
  BY DEF Inv, Solo, Shape
<1>9. ~Working(t) /\ Alone => Quiet
  BY <1>8 DEF Quiet, Working, At
<1>10. ASSUME Kept'
       PROVE  RunImports(run.log)'
  <2>1. CASE ~Working(t)
    BY <1>6, <1>9, <1>10, <2>1 DEF Inv, RunImports, Missing, data
  <2>2. CASE Working(t)
    <3>1. RunImports(job[t].errors)
      BY <1>6, <1>10, <2>2 DEF Inv, Imports
    <3>2. QED BY <1>7, <1>10, <3>1 DEF RunImports, Missing, data
  <2>3. QED BY <2>1, <2>2
<1>11. ASSUME Heard'
       PROVE  RunComments(run.log)'
  <2>0. Kept'
    BY <1>11 DEF Heard, Kept
  <2>1. CASE ~Working(t)
    BY <1>6, <1>9, <1>11, <2>1 DEF Inv, RunComments, Missing, Mentioned, data
  <2>2. CASE Working(t)
    <3>1. RunComments(job[t].errors)
      BY <1>6, <1>11, <2>2 DEF Inv, Comments
    <3>2. QED BY <1>7, <2>0, <3>1 DEF RunComments, Missing, Mentioned, data
  <2>3. QED BY <2>1, <2>2
<1>12. QED BY <1>2, <1>3, <1>4, <1>5, <1>10, <1>11, WorkerKeeps DEF next

-----------------------------------------------------------------------------
(* The API and the queue                                                   *)

LEMMA InitHolds ==
  Init => Inv
<1> SUFFICES ASSUME Init PROVE Inv
  OBVIOUS
<1>1. NoJob \in JobType
  BY PhaseFacts, ConstantsAssumption DEF NoJob, JobType
<1>2. TypeOK
  BY <1>1, ConstantsAssumption DEF Init, TypeOK, NoCall, CallType, RunType, RunStatuses, Losses
<1>3. \A t \in Jobs : Shape(t) /\ ~Working(t) /\ Solo(t) /\ Imports(t) /\ Comments(t)
  BY PhaseFacts DEF Init, NoJob, Shape, Working, Solo, Imports, Comments, Passed, Finished, At
<1>4. RunImports(run.log) /\ RunComments(run.log)
  BY DEF Init, RunImports, RunComments
<1>5. QED BY <1>2, <1>3, <1>4 DEF Inv

LEMMA CallSteps ==
  ASSUME TypeOK, NEW c \in Clients, NEW next \in CallType, SetCall(c, next)
  PROVE  call' \in [Clients -> CallType]
BY DEF TypeOK, SetCall

LEMMA NoCallType ==
  NoCall \in CallType
BY ConstantsAssumption DEF NoCall, CallType

\* A request changes nothing but its call.
LEMMA RequestKeeps ==
  ASSUME Inv, NEW c \in Clients, NEW next \in CallType, Request(c, next)
  PROVE  Inv'
<1>1. TypeOK
  BY DEF Inv
<1>2. call' \in [Clients -> CallType]
  BY <1>1, CallSteps DEF Request
<1>3. calls' \in 0..MaxCalls
  BY <1>1, ConstantsAssumption DEF Request, TypeOK
<1>4. TypeOK'
  BY <1>1, <1>2, <1>3 DEF Request, TypeOK, data
<1>5. \A u, v \in Jobs : Alone' =>
        (job'[u].state = "active" /\ job'[v].state = "active" => u = v)
  BY DEF Request, Alone, Inv, Solo
<1>6. QED BY <1>4, <1>5, RestKeeps DEF Request

LEMMA SetStatusKeeps ==
  ASSUME Inv, NEW c \in Clients, NEW status \in {"pending", "cancelled"},
         NEW next \in {"retry_add", "cancel_remove"},
         SetStatus(c, status, next)
  PROVE  Inv'
<1>1. TypeOK
  BY DEF Inv
<1>2. call[c] \in CallType
  BY <1>1 DEF TypeOK
<1>3. [call[c] EXCEPT !.pc = next] \in CallType
  BY <1>2 DEF CallType
<1>4. call' \in [Clients -> CallType]
  BY <1>1, <1>3, CallSteps DEF SetStatus
<1>5. /\ run' \in RunType
      /\ run'.done = run.done /\ run'.log = run.log /\ run'.status = status
  BY <1>1 DEF SetStatus, TypeOK, RunType, RunStatuses
<1>6. TypeOK'
  BY <1>1, <1>4, <1>5 DEF SetStatus, TypeOK, data, bounds
<1>7. \A u, v \in Jobs : Alone' =>
        (job'[u].state = "active" /\ job'[v].state = "active" => u = v)
  BY DEF SetStatus, Alone, Inv, Solo
<1>8. QED BY <1>5, <1>6, <1>7, RestKeeps DEF SetStatus

\* Another selection is excused, or nothing of the former one is recorded or loaded.
LEMMA StartWriteKeeps ==
  ASSUME Inv, NEW c \in Clients, StartWrite(c)
  PROVE  Inv'
<1> DEFINE next == [call[c] EXCEPT !.pc = "start_add"]
<1>1. TypeOK /\ call[c] \in CallType
  BY DEF Inv, TypeOK
<1>2. next \in CallType /\ call[c].chosen \in Choices
  BY <1>1 DEF CallType
<1>3. SetCall(c, next) /\ UNCHANGED <<data, job, bounds>>
  BY DEF StartWrite
<1> HIDE DEF next
<1>4. call' \in [Clients -> CallType]
  BY <1>1, <1>2, <1>3, CallSteps
<1>5. /\ run' \in RunType
      /\ run'.done = run.done /\ run'.log = run.log /\ run'.status = "pending"
      /\ run'.chosen = call[c].chosen
  BY <1>1, <1>2 DEF StartWrite, TypeOK, RunType, RunStatuses
<1>6. lost \subseteq lost' /\ lost' \in SUBSET Losses
  BY <1>1 DEF StartWrite, TypeOK, Losses
<1>7. TypeOK'
  BY <1>1, <1>3, <1>4, <1>5, <1>6 DEF TypeOK, data, bounds
<1>8. Alone' => Alone
  BY <1>6 DEF Alone
<1>9. CASE run'.chosen = run.chosen
  <2>1. \A u, v \in Jobs : Alone' =>
          (job'[u].state = "active" /\ job'[v].state = "active" => u = v)
    BY <1>3, <1>8 DEF Inv, Solo
  <2>2. QED BY <1>3, <1>5, <1>6, <1>7, <1>9, <2>1, RestKeeps
<1>10. CASE run'.chosen # run.chosen
  <2>1. Kept' \/ Heard' => /\ run.done \cap {"projects", "issues", "comments"} = {}
                          /\ \A u \in Jobs : ~Working(u)
    BY <1>5, <1>10 DEF StartWrite, Kept, Heard, Working
  <2>2. \A u \in Jobs : Shape(u)' /\ (Working(u)' <=> Working(u))
    <3>1. \A u \in Jobs : Shape(u)
      BY DEF Inv
    <3>2. QED BY <1>3, <1>5, <3>1 DEF Shape, Working, At, Name
  <2>3. Alone' => \A u \in Jobs : Solo(u)'
    <3>1. Alone => \A u \in Jobs : Solo(u)
      BY DEF Inv
    <3>2. QED BY <1>3, <1>5, <1>8, <2>2, <3>1 DEF Solo, Passed, At
  <2>4. Kept' \/ Heard' => \A u \in Jobs : Imports(u)' /\ Comments(u)'
    BY <2>1, <2>2, RestClaims
  <2>5. Kept' \/ Heard' => RunImports(run.log)' /\ RunComments(run.log)'
    BY <1>5, <2>1 DEF RunImports, RunComments
  <2>6. QED BY <1>7, <2>2, <2>3, <2>4, <2>5 DEF Inv
<1>11. QED BY <1>9, <1>10

\* A job that is not at work is put into the queue or taken from it.
LEMMA SetRestKeeps ==
  ASSUME Inv, NEW t \in Jobs, At(t, "idle"), NEW next \in JobType, SetJob(t, next),
         next.state \in {"none", "waiting", "kept"}, next.attempts = 0, next.pc = "idle",
         next.phase = 1, next.done = {}, next.project = "unknown", next.known = {},
         next.map = "none",
         UNCHANGED <<run, data, bounds>>, call' \in [Clients -> CallType],
         lost' \in SUBSET Losses, lost \subseteq lost'
  PROVE  Inv'
<1>1. TypeOK
  BY DEF Inv
<1>2. job'[t] = next /\ \A u \in Jobs \ {t} : job'[u] = job[u]
  BY <1>1 DEF SetJob, TypeOK
<1>3. job' \in [Jobs -> JobType]
  BY <1>1 DEF SetJob, TypeOK
<1>4. TypeOK'
  BY <1>1, <1>3 DEF TypeOK, data, bounds
<1>5. ~Working(t) /\ ~Working(t)'
  BY <1>2 DEF Working, At
<1>6. Shape(t)'
  BY <1>2, ConstantsAssumption DEF Shape, At
<1>7. Alone' => \A u, v \in Jobs :
        job'[u].state = "active" /\ job'[v].state = "active" => u = v
  BY <1>2 DEF Alone, Inv, Solo
<1>8. QED BY <1>2, <1>4, <1>5, <1>6, <1>7, RestKeeps

LEMMA QueueKeeps ==
  ASSUME Inv, NEW c \in Clients, NEW t \in Jobs, NEW full \in BOOLEAN, NEW reset \in BOOLEAN,
         job[t].state = "none", Queue(c, t, full, reset)
  PROVE  Inv'
<1> DEFINE next == [NoJob EXCEPT !.state = "waiting", !.full = full, !.reset = reset]
<1>1. TypeOK /\ At(t, "idle")
  BY DEF Inv, Shape
<1>2. NoJob \in JobType
  BY PhaseFacts, ConstantsAssumption DEF NoJob, JobType
<1>3. /\ next \in JobType
      /\ next.state = "waiting" /\ next.attempts = 0 /\ next.pc = "idle"
      /\ next.phase = 1 /\ next.done = {} /\ next.project = "unknown" /\ next.known = {}
      /\ next.map = "none"
  BY <1>2 DEF NoJob, JobType
<1>4. SetJob(t, next)
  BY DEF Queue, SetJob
<1> HIDE DEF next
<1>5. call' \in [Clients -> CallType]
  BY <1>1, CallSteps, NoCallType DEF Queue
<1>6. lost' = lost /\ lost \in SUBSET Losses
  BY <1>1 DEF Queue, TypeOK
<1>7. QED BY <1>1, <1>3, <1>4, <1>5, <1>6, SetRestKeeps DEF Queue

\* The queue forgets a job that is not at work.
LEMMA ForgetKeeps ==
  ASSUME Inv, NEW t \in Jobs, job[t].state # "active", SetJob(t, NoJob),
         UNCHANGED <<run, data, bounds>>, call' \in [Clients -> CallType],
         lost' \in SUBSET Losses, lost \subseteq lost'
  PROVE  Inv'
<1>1. TypeOK /\ At(t, "idle")
  BY DEF Inv, Shape
<1>2. NoJob \in JobType
  BY PhaseFacts, ConstantsAssumption DEF NoJob, JobType
<1>3. QED BY <1>1, <1>2, SetRestKeeps DEF NoJob

LEMMA CallOnlyKeeps ==
  ASSUME Inv, NEW c \in Clients, SetCall(c, NoCall), UNCHANGED <<run, data, job, bounds, lost>>
  PROVE  Inv'
<1>1. TypeOK
  BY DEF Inv
<1>2. call' \in [Clients -> CallType]
  BY <1>1, CallSteps, NoCallType
<1>3. TypeOK'
  BY <1>1, <1>2 DEF TypeOK, data, bounds
<1>4. \A u, v \in Jobs : Alone' =>
        (job'[u].state = "active" /\ job'[v].state = "active" => u = v)
  BY DEF Alone, Inv, Solo
<1>5. QED BY <1>3, <1>4, RestKeeps

\* The rows of the project go: job u goes on, and if it held ids of them they hold no more.
Cleared(u) ==
  /\ job'[u].state = job[u].state /\ job'[u].attempts = job[u].attempts
  /\ job'[u].full = job[u].full /\ job'[u].phase = job[u].phase
  /\ job'[u].done = job[u].done /\ job'[u].errors = job[u].errors
  /\ job'[u].chosen = job[u].chosen /\ job'[u].known = job[u].known
  /\ job'[u].map = job[u].map /\ job'[u].inlined = job[u].inlined
  /\ job'[u].page = job[u].page /\ job'[u].work = job[u].work
  /\ \/ job'[u].pc = job[u].pc
     \/ job[u].pc = "wipe" /\ job'[u].pc = "phase"
  /\ \/ job'[u].project = job[u].project
     \/ (job[u].project = "known" \/ job[u].known # {}) /\ job'[u].project = "stale"

LEMMA ClearedKeeps ==
  ASSUME Inv, TypeOK', run' = run, issues' = {}, comments' = {}, lost \subseteq lost',
         \A u \in Jobs : Cleared(u),
         Kept' => /\ run.done \cap {"projects", "issues"} = {}
                  /\ \A u \in Jobs : job[u].project # "known" /\ job[u].known = {}
  PROVE  Inv'
<1>1. TypeOK /\ \A u \in Jobs : Shape(u)
  BY DEF Inv
<1>2. /\ Alone' => Alone
      /\ Kept' => Kept
      /\ Heard' => Heard /\ Kept'
  BY DEF Alone, Kept, Heard
<1>3. ASSUME NEW u \in Jobs
      PROVE  Cleared(u)
  OBVIOUS
<1>4. ASSUME NEW u \in Jobs
      PROVE  Shape(u)'
  <2>1. Shape(u)
    BY <1>1
  <2>2. job[u].phase \in 1..7
    BY <1>1, PhaseNames
  <2>3. /\ job[u].phase < 3 => job[u].project = "unknown"
        /\ job[u].phase < 5 => job[u].known = {}
    BY <2>1 DEF Shape
  <2>4. job[u].phase < 3 => job'[u].project = "unknown"
    BY <1>3, <2>2, <2>3 DEF Cleared
  <2>5. QED BY <1>3, <2>1, <2>4 DEF Shape, At, Name, Cleared
<1>5. \A u \in Jobs : Working(u)' <=> Working(u)
  BY <1>3 DEF Working, Cleared
<1>6. ASSUME Alone', NEW u \in Jobs
      PROVE  Solo(u)'
  <2>1. Solo(u)
    BY <1>2, <1>6 DEF Inv
  <2>2. \A i \in DOMAIN Phase : Passed(u, i)' <=> Passed(u, i)
    BY <1>3 DEF Passed, Cleared
  <2>3. (~At(u, "mark"))' => ~At(u, "mark")
    BY <1>3 DEF At, Cleared
  <2>4. run' = run /\ job'[u].done = job[u].done /\ job'[u].errors = job[u].errors
    BY <1>3 DEF Cleared
  <2>5. \A v \in Jobs : job'[v].state = job[v].state
    BY <1>3 DEF Cleared
  <2>6. Working(u)' <=> Working(u)
    BY <1>5
  <2>7. QED BY <2>1, <2>2, <2>3, <2>4, <2>5, <2>6 DEF Solo
<1>7. ASSUME Kept', NEW u \in Jobs
      PROVE  /\ Imports(u) /\ Imports(u)' /\ job[u].known = {}
             /\ job'[u].project = job[u].project
             /\ Finished(u, 3) => Pages \subseteq Missing(job[u].errors)
             /\ \A i \in 1..7 : (Passed(u, i)' <=> Passed(u, i)) /\ (Finished(u, i)' <=> Finished(u, i))
  <2>1. Imports(u)
    BY <1>2, <1>7 DEF Inv
  <2>2. job[u].known = {} /\ job[u].project # "known" /\ job'[u].project = job[u].project
    BY <1>3, <1>7 DEF Cleared
  <2>3. \A i \in 1..7 : (Passed(u, i)' <=> Passed(u, i)) /\ (Finished(u, i)' <=> Finished(u, i))
    BY <1>3 DEF Passed, Finished, At, Cleared
  <2>4. Finished(u, 3) => Pages \subseteq Missing(job[u].errors)
    BY <2>1, <2>2 DEF Imports
  <2>5. Finished(u, 5) => Finished(u, 3)
    BY <1>1, FinishedOrder
  <2>6. RunImports(job[u].errors)'
    BY <1>7 DEF RunImports
  <2>7. /\ At(u, "pages")' <=> At(u, "pages")
        /\ At(u, "inline")' <=> At(u, "inline")
    BY <1>3 DEF At, Cleared
  <2>8. Missing(job[u].errors)' = Missing(job[u].errors)
    BY <1>3 DEF Missing, Cleared
  <2>9. Imports(u)'
    BY <1>3, <1>5, <2>1, <2>2, <2>3, <2>4, <2>5, <2>6, <2>7, <2>8 DEF Imports, Cleared
  <2>10. QED BY <2>1, <2>2, <2>3, <2>4, <2>9
<1>8. ASSUME Heard', NEW u \in Jobs
      PROVE  Comments(u)'
  <2>1. Comments(u) /\ Imports(u)
    BY <1>2, <1>7, <1>8 DEF Inv
  <2>2. Finished(u, 3) => /\ Pages \subseteq Missing(job[u].errors)
                          /\ Pages \subseteq Mentioned(job[u].errors)
    BY <1>2, <1>7, <1>8, MissingMentioned
  <2>3. \A i \in 1..7 : (Passed(u, i)' <=> Passed(u, i)) /\ (Finished(u, i)' <=> Finished(u, i))
    BY <1>2, <1>7, <1>8
  <2>4. /\ Mentioned(job[u].errors)' = Mentioned(job[u].errors)
        /\ Missing(job[u].errors)' = Missing(job[u].errors)
    BY <1>3 DEF Mentioned, Missing, Cleared
  <2>5. /\ At(u, "pages")' <=> At(u, "pages")
        /\ At(u, "inline")' <=> At(u, "inline")
        /\ At(u, "fetch")' <=> At(u, "fetch")
    BY <1>3 DEF At, Cleared
  <2>6. /\ Finished(u, 5) => Finished(u, 3)
        /\ At(u, "fetch") => Finished(u, 3)
    BY <1>1, FinishedOrder
  <2>7. Working(u) => RunComments(job[u].errors)'
    BY <2>1, <2>4, <1>8 DEF Comments, RunComments
  <2>8. /\ job'[u].pc \in {"pages", "inline"} <=> job[u].pc \in {"pages", "inline"}
        /\ issues' = {}
    BY <1>3 DEF Cleared
  <2>9. /\ job'[u].map = job[u].map /\ job'[u].page = job[u].page
        /\ job'[u].work = job[u].work /\ job'[u].inlined = job[u].inlined
        /\ Working(u)' <=> Working(u)
    BY <1>3, <1>5 DEF Cleared
  <2>10. /\ At(u, "fetch") => Pages \subseteq Mentioned(job[u].errors)
         /\ job[u].pc \in {"pages", "inline"} =>
              \A p \in Pages : p < job[u].page => p \in Mentioned(job[u].errors)
    <3>1. /\ At(u, "pages") => \A p \in Pages : p < job[u].page => p \in Missing(job[u].errors)
          /\ At(u, "inline") => \A p \in Pages : p <= job[u].page => p \in Missing(job[u].errors)
      BY <1>2, <1>7, <1>8 DEF Imports
    <3>2. job[u].page \in Int /\ \A p \in Pages : p \in Int
      <4>1. job[u] \in JobType
        BY <1>1 DEF TypeOK
      <4>2. LastPage \in Nat
        BY ConstantsAssumption
      <4>3. job[u].page \in 1..LastPage + 1
        BY <4>1 DEF JobType
      <4>4. QED BY <4>2, <4>3 DEF Pages
    <3>3. Missing(job[u].errors) \subseteq Mentioned(job[u].errors)
      BY MissingMentioned
    <3>4. QED BY <2>2, <2>6, <3>1, <3>2, <3>3 DEF At
  <2>11. QED BY <2>7, <2>2, <2>3, <2>4, <2>5, <2>6, <2>8, <2>9, <2>10 DEF Comments
<1>9. Kept' => RunImports(run.log)'
  BY DEF RunImports
<1>10. ASSUME Heard', Quiet'
       PROVE  RunComments(run.log)'
  <2>1. RunComments(run.log)
    BY <1>2, <1>5, <1>10 DEF Inv, Quiet
  <2>2. QED BY <2>1 DEF RunComments, Missing, Mentioned
<1>11. QED BY <1>4, <1>6, <1>7, <1>8, <1>9, <1>10 DEF Inv

LEMMA ResetDeleteKeeps ==
  ASSUME Inv, NEW c \in Clients, ResetDelete(c)
  PROVE  Inv'
<1> DEFINE holders == {t \in Jobs : job[t].project = "known" \/ job[t].known # {}}
<1>1. TypeOK
  BY DEF Inv
<1>2. CASE project # "jira"
  BY <1>2, CallOnlyKeeps DEF ResetDelete, DeleteData
<1>3. CASE project = "jira"
  <2>1. /\ project' = "none" /\ issues' = {} /\ comments' = {} /\ run' = run
        /\ job' = [t \in Jobs |-> IF t \in holders THEN [job[t] EXCEPT !.project = "stale"]
                                  ELSE job[t]]
        /\ lost' = IF holders # {} \/ run.done \cap {"projects", "issues"} # {}
                   THEN lost \cup {"import"} ELSE lost
        /\ SetCall(c, NoCall) /\ UNCHANGED bounds
    BY <1>3 DEF ResetDelete, DeleteData
  <2>2. call' \in [Clients -> CallType]
    BY <1>1, <2>1, CallSteps, NoCallType
  <2>3. \A t \in Jobs : job[t] \in JobType /\ [job[t] EXCEPT !.project = "stale"] \in JobType
    <3>1. ASSUME NEW t \in Jobs PROVE job[t] \in JobType
      BY <1>1 DEF TypeOK
    <3>2. QED BY <3>1 DEF JobType
  <2>4. job' \in [Jobs -> JobType]
    BY <2>1, <2>3
  <2>5. TypeOK'
    BY <1>1, <2>1, <2>2, <2>4 DEF TypeOK, bounds, Losses
  <2>6. ASSUME NEW u \in Jobs
        PROVE  Cleared(u)
    <3>1. job[u] \in JobType
      BY <2>3
    <3>2. CASE u \in holders
      <4>1. job'[u] = [job[u] EXCEPT !.project = "stale"]
        BY <2>1, <3>2
      <4>2. job[u].project = "known" \/ job[u].known # {}
        BY <3>2
      <4>3. QED BY <3>1, <4>1, <4>2 DEF JobType, Cleared
    <3>3. CASE u \notin holders
      BY <2>1, <3>3 DEF Cleared
    <3>4. QED BY <3>2, <3>3
  <2>7. Kept' => /\ run.done \cap {"projects", "issues"} = {}
                 /\ \A u \in Jobs : job[u].project # "known" /\ job[u].known = {}
    BY <2>1 DEF Kept
  <2>8. lost \subseteq lost'
    BY <2>1
  <2>9. QED BY <2>1, <2>5, <2>6, <2>7, <2>8, ClearedKeeps
<1>4. QED BY <1>2, <1>3

LEMMA CallKeeps ==
  ASSUME Inv, NEW c \in Clients, CallStep(c)
  PROVE  Inv'
<1>1. TypeOK /\ First \in Jobs /\ Retries \subseteq Jobs
  BY DEF Inv, Jobs
<1>2. call[c] \in CallType /\ NoCall \in CallType
  BY <1>1, NoCallType DEF TypeOK
<1>3. CASE StartLoad(c)
  <2> DEFINE next(asked) == [pc |-> "start_write", full |-> asked.full,
                             reset |-> asked.reset, chosen |-> asked.chosen]
  <2>1. PICK asked \in Requests : Request(c, next(asked))
    BY <1>3 DEF StartLoad
  <2>2. next(asked) \in CallType
    BY ConstantsAssumption DEF CallType
  <2>3. QED BY <2>1, <2>2, RequestKeeps
<1>4. CASE StartWrite(c) \/ RetryWrite(c) \/ CancelWrite(c)
  BY <1>4, SetStatusKeeps, StartWriteKeeps DEF RetryWrite, CancelWrite
<1>5. CASE StartAdd(c)
  <2>1. call[c].full \in BOOLEAN /\ call[c].reset \in BOOLEAN
    BY <1>2 DEF CallType
  <2>2. CASE job[First].state = "none"
    BY <1>1, <1>5, <2>1, <2>2, QueueKeeps DEF StartAdd
  <2>3. CASE job[First].state # "none"
    BY <1>5, <2>3, CallOnlyKeeps DEF StartAdd
  <2>4. QED BY <2>2, <2>3
<1>6. CASE RetryLoad(c) \/ CancelLoad(c) \/ ResetLoad(c)
  <2>1. \A pc \in {"retry_write", "cancel_write", "reset_delete"} :
          [NoCall EXCEPT !.pc = pc] \in CallType
    BY <1>2 DEF CallType
  <2>2. QED BY <1>6, <2>1, RequestKeeps DEF RetryLoad, CancelLoad, ResetLoad
<1>7. CASE RetryAdd(c)
  BY <1>1, <1>7, QueueKeeps DEF RetryAdd
<1>8. CASE CancelRemove(c)
  <2>1. call' \in [Clients -> CallType]
    BY <1>1, <1>8, CallSteps, NoCallType DEF CancelRemove
  <2>2. CASE job[First].state = "active"
    BY <1>8, <2>2, CallOnlyKeeps DEF CancelRemove
  <2>3. CASE job[First].state # "active"
    <3>1. SetJob(First, NoJob)
      BY <1>8, <2>3 DEF CancelRemove, SetJob
    <3>2. lost \subseteq lost' /\ lost' \in SUBSET Losses
      BY <1>1, <1>8, <2>3 DEF CancelRemove, TypeOK, Losses
    <3>3. UNCHANGED <<run, data, bounds>>
      BY <1>8 DEF CancelRemove
    <3>4. QED BY <1>1, <2>1, <2>3, <3>1, <3>2, <3>3, ForgetKeeps
  <2>4. QED BY <2>2, <2>3
<1>9. CASE ResetDelete(c)
  BY <1>9, ResetDeleteKeeps
<1>10. CASE CallFails(c)
  BY <1>10, CallOnlyKeeps DEF CallFails
<1>11. QED
  BY <1>3, <1>4, <1>5, <1>6, <1>7, <1>8, <1>9, <1>10 DEF CallStep

LEMMA EvictKeeps ==
  ASSUME Inv, Evict
  PROVE  Inv'
<1>1. TypeOK /\ First \in Jobs
  BY DEF Inv, Jobs
<1>2. /\ call' \in [Clients -> CallType]
      /\ lost' \in SUBSET Losses /\ lost \subseteq lost'
      /\ UNCHANGED <<run, data, bounds>>
  BY <1>1 DEF Evict, TypeOK
<1>3. QED BY <1>1, <1>2, ForgetKeeps DEF Evict

\* A job that is taken while another is at work overlaps with it.
LEMMA PickKeeps ==
  ASSUME Inv, NEW t \in Jobs, Pick(t)
  PROVE  Inv'
<1> DEFINE next == [job[t] EXCEPT !.state = "active", !.attempts = @ + 1, !.pc = "load"]
<1>1. TypeOK /\ Shape(t)
  BY DEF Inv
<1>2. job[t].attempts \in 0..MaxAttempts /\ job[t].attempts < MaxAttempts /\ job[t] \in JobType
  BY <1>1 DEF Pick, Shape, TypeOK, JobType
<1>3. job[t].attempts + 1 \in 0..MaxAttempts
  BY <1>2, ConstantsAssumption
<1>4. /\ next \in JobType
      /\ next.state = "active" /\ next.pc = "load" /\ next.phase = job[t].phase
      /\ next.done = job[t].done /\ next.project = job[t].project
      /\ next.known = job[t].known /\ next.map = job[t].map
  BY <1>2, <1>3 DEF JobType
<1>5. job'[t] = next /\ (\A u \in Jobs \ {t} : job'[u] = job[u]) /\ job' \in [Jobs -> JobType]
  BY <1>1, <1>4 DEF Pick, SetJob, TypeOK
<1> HIDE DEF next
<1>6. TypeOK'
  BY <1>1, <1>5 DEF Pick, TypeOK, data, bounds, Losses
<1>7. At(t, "idle") /\ ~Working(t) /\ ~Working(t)' /\ job[t].phase = 1
  BY <1>1, <1>4, <1>5 DEF Pick, Shape, Working, At
<1>8. Shape(t)'
  BY <1>1, <1>4, <1>5, <1>7 DEF Pick, Shape, At
<1>9. Alone' => \A u, v \in Jobs :
        job'[u].state = "active" /\ job'[v].state = "active" => u = v
  BY <1>5 DEF Alone, Pick
<1>10. QED BY <1>5, <1>6, <1>7, <1>8, <1>9, RestKeeps DEF Pick

-----------------------------------------------------------------------------
(* A job at work                                                           *)

LEMMA AtWork ==
  ASSUME Inv, NEW t \in Jobs
  PROVE  /\ TypeOK /\ job[t] \in JobType /\ job[t].phase \in 1..7 /\ Shape(t)
         /\ Alone => Solo(t)
         /\ Kept => Imports(t) /\ Alone
         /\ Heard => Comments(t) /\ Kept
         /\ Alone /\ ~At(t, "idle") /\ ~Working(t) => Quiet
<1>1. TypeOK /\ job[t] \in JobType /\ job[t].phase \in 1..7
  BY PhaseNames DEF Inv, TypeOK
<1>2. Shape(t) /\ (Alone => Solo(t)) /\ (Kept => Imports(t)) /\ (Heard => Comments(t))
  BY DEF Inv
<1>3. (Kept => Alone) /\ (Heard => Kept)
  BY DEF Alone, Kept, Heard
<1>4. ASSUME Alone, ~At(t, "idle"), ~Working(t)
      PROVE  Quiet
  <2>1. \A u \in Jobs : Shape(u) /\ Solo(u)
    BY <1>4 DEF Inv
  <2>2. QED BY <1>4, <2>1 DEF Solo, Shape, Quiet, Working, At
<1>5. QED BY <1>1, <1>2, <1>3, <1>4

LEMMA JobNext ==
  ASSUME TypeOK, NEW t \in Jobs, NEW next \in JobType, SetJob(t, next)
  PROVE  job' \in [Jobs -> JobType] /\ job'[t] = next
BY DEF TypeOK, SetJob

LEMMA FaultBound ==
  ASSUME TypeOK, Fault
  PROVE  faults' \in 0..MaxFaults
BY ConstantsAssumption DEF TypeOK, Fault

\* Going on: nothing but the job changes, and no claim of it is given up.
LEMMA GoKeeps ==
  ASSUME Inv, NEW t \in Jobs, Working(t), ~At(t, "mark"), NEW next \in JobType,
         SetJob(t, next), UNCHANGED <<run, data, call, calls, lost>>,
         Fault \/ faults' = faults,
         next.pc \notin {"idle", "load"}, next.done = job[t].done,
         job[t].errors \subseteq next.errors,
         \A i \in 1..7 : Passed(t, i) => Passed(t, i)',
         Shape(t)', Kept => Imports(t)', Heard => Comments(t)'
  PROVE  Inv'
<1>1. TypeOK /\ (Alone => Solo(t))
  BY AtWork
<1>2. job' \in [Jobs -> JobType] /\ job'[t] = next
  BY <1>1, JobNext
<1>3. faults' \in 0..MaxFaults
  BY <1>1, FaultBound DEF TypeOK
<1>4. TypeOK'
  BY <1>1, <1>2, <1>3 DEF TypeOK, data
<1>5. Alone' => /\ run'.log \subseteq next.errors
                /\ \A i \in DOMAIN Phase :
                     Phase[i] \in run'.done => Phase[i] \in next.done \/ Passed(t, i)'
                /\ next.pc # "mark" => run'.status # "completed"
  BY <1>1, PhaseFacts DEF Alone, Solo
<1>6. Working(t)' /\ (Kept' <=> Kept) /\ (Heard' <=> Heard)
  BY <1>2 DEF Working, Kept, Heard
<1>7. ~At(t, "idle")
  BY DEF Working, At
<1>8. QED BY <1>2, <1>4, <1>5, <1>6, <1>7, WorkerKeeps

LEMMA LeaveKeeps ==
  ASSUME Inv, NEW t \in Jobs, ~At(t, "idle"), Leave(t),
         run' \in RunType,
         run'.log = run.log, run'.chosen = run.chosen,
         run.done \subseteq run'.done, run'.done \subseteq run.done \cup {"sync"}
  PROVE  Inv'
<1>1. TypeOK
  BY AtWork
<1>2. Queued(t, "kept") \in JobType
  BY <1>1, QueuedType
<1>3. job' \in [Jobs -> JobType]
  BY <1>1, <1>2, JobNext DEF Leave
<1>4. Forgotten(t) \subseteq {"import"}
  BY DEF Forgotten
<1>5. TypeOK'
  BY <1>1, <1>3, <1>4 DEF Leave, TypeOK, data, bounds, Losses
<1>6. lost \cup Forgotten(t) \subseteq lost'
  BY DEF Leave
<1>7. QED BY <1>5, <1>6, EndKeeps DEF Leave

LEMMA LoadKeeps ==
  ASSUME Inv, NEW t \in Jobs, LoadRun(t)
  PROVE  Inv'
<1> DEFINE next == [job[t] EXCEPT !.pc = "mark", !.done = run.done, !.chosen = run.chosen,
                                  !.errors = run.log]
<1>1. /\ TypeOK /\ job[t] \in JobType /\ Shape(t) /\ ~At(t, "idle") /\ job[t].phase = 1
      /\ ~Working(t)
  BY AtWork DEF LoadRun, At, Shape, Working
<1>2. CASE run.status = "cancelled"
  <2>1. run' \in RunType
    BY <1>1, <1>2 DEF LoadRun, TypeOK
  <2>2. QED BY <1>1, <1>2, <2>1, LeaveKeeps DEF LoadRun
<1>3. CASE run.status # "cancelled"
  <2>1. SetJob(t, next) /\ UNCHANGED <<run, data, call, bounds, lost>>
    BY <1>3 DEF LoadRun, Go
  <2>2. run.done \in SUBSET Phases /\ run.log \in SUBSET Reports /\ run.chosen \in Choices
    BY <1>1 DEF TypeOK, RunType
  <2>3. /\ next \in JobType
        /\ next.state = job[t].state /\ next.attempts = job[t].attempts
        /\ next.chosen = run.chosen
        /\ next.phase = 1 /\ next.project = job[t].project
        /\ next.known = job[t].known /\ next.map = job[t].map
        /\ next.pc = "mark" /\ next.done = run.done /\ next.errors = run.log
    BY <1>1, <2>2 DEF JobType
  <2> HIDE DEF next
  <2>4. job' \in [Jobs -> JobType] /\ job'[t] = next
    BY <1>1, <2>1, <2>3, JobNext
  <2>5. TypeOK'
    BY <1>1, <2>1, <2>4 DEF TypeOK, data, bounds
  <2>6. Shape(t)'
    BY <1>1, <2>1, <2>3, <2>4 DEF Shape, LoadRun, At
  <2>7. /\ (Kept' <=> Kept) /\ (Heard' <=> Heard) /\ Working(t)'
    BY <2>1, <2>3, <2>4 DEF Kept, Heard, Working
  <2>8. Kept => RunImports(run.log) /\ (Heard => RunComments(run.log))
    BY <1>1, AtWork DEF Inv
  <2>9. Kept => Imports(t)'
    BY <1>1, <2>1, <2>3, <2>4, <2>6, <2>8 DEF Imports, Shape, RunImports, Missing, Finished,
       Passed, At, data
  <2>10. Heard => Comments(t)'
    BY <1>1, <2>1, <2>3, <2>4, <2>8, AtWork DEF Comments, RunComments, Missing, Mentioned,
       Finished, Passed, At, data
  <2>11. QED
    BY <1>1, <2>1, <2>3, <2>5, <2>6, <2>7, <2>9, <2>10, WorkerKeeps
<1>4. QED BY <1>2, <1>3

LEMMA ThrowKeeps ==
  ASSUME Inv, NEW t \in Jobs, JobFails(t)
  PROVE  Inv'
<1>1. TypeOK /\ ~At(t, "idle") /\ Throw(t) /\ job[t] \in JobType
  BY AtWork DEF JobFails, At
<1>2. PICK state \in {"waiting", "kept"} :
        /\ state = "waiting" => job[t].attempts < MaxAttempts
        /\ SetJob(t, Queued(t, state))
  BY <1>1 DEF Throw
<1>3. Queued(t, state) \in JobType
  BY <1>1, QueuedType
<1>4. job' \in [Jobs -> JobType]
  BY <1>1, <1>2, <1>3, JobNext
<1>5. Forgotten(t) \subseteq {"import"}
  BY DEF Forgotten
<1>6. /\ run' \in RunType /\ run'.chosen = run.chosen
      /\ run.log \subseteq run'.log /\ run'.done = run.done
  <2>1. run \in RunType
    BY <1>1 DEF TypeOK
  <2>2. PICK full \in SUBSET {Full} :
          run' = run \/ run' = [run EXCEPT !.status = "failed", !.log = run.log \cup full]
    BY <1>1 DEF Throw
  <2>3. run.log \cup full \in SUBSET Reports
    BY <2>1 DEF RunType, Reports
  <2>4. QED BY <2>1, <2>2, <2>3 DEF RunType, RunStatuses
<1>7. /\ lost \cup Forgotten(t) \subseteq lost'
      /\ lost' \in SUBSET Losses
  BY <1>1, <1>5 DEF Throw, TypeOK, Losses
<1>8. faults' \in 0..MaxFaults
  BY <1>1, FaultBound DEF Throw
<1>9. TypeOK'
  BY <1>1, <1>4, <1>6, <1>7, <1>8 DEF Throw, TypeOK, data
<1>10. UNCHANGED data
  BY <1>1 DEF Throw
<1>11. QED BY <1>1, <1>2, <1>6, <1>7, <1>9, <1>10, EndKeeps

LEMMA CrashKeeps ==
  ASSUME Inv, NEW t \in Jobs, Crash(t)
  PROVE  Inv'
<1>1. TypeOK /\ ~At(t, "idle") /\ job[t] \in JobType
  BY AtWork DEF Crash, Shape
<1>2. PICK state \in {"waiting", "kept"} :
        /\ state = "waiting" => job[t].attempts < MaxAttempts
        /\ SetJob(t, Queued(t, state))
  BY DEF Crash
<1>3. Queued(t, state) \in JobType
  BY <1>1, QueuedType
<1>4. job' \in [Jobs -> JobType]
  BY <1>1, <1>2, <1>3, JobNext
<1>5. Forgotten(t) \subseteq {"import"}
  BY DEF Forgotten
<1>6. /\ lost \cup Forgotten(t) \subseteq lost'
      /\ lost' \in SUBSET Losses
  BY <1>1, <1>5 DEF Crash, TypeOK, Losses
<1>7. faults' \in 0..MaxFaults
  BY <1>1, FaultBound DEF Crash
<1>8. UNCHANGED <<run, data, call, calls>>
  BY DEF Crash
<1>9. TypeOK'
  BY <1>1, <1>4, <1>6, <1>7, <1>8 DEF TypeOK, data
<1>10. QED BY <1>1, <1>2, <1>6, <1>8, <1>9, EndKeeps

LEMMA CloseMembersKeeps ==
  ASSUME Inv, NEW t \in Jobs, CloseMembers(t)
  PROVE  Inv'
<1>1. TypeOK /\ ~At(t, "idle") /\ "sync" \in Phases
  BY AtWork, PhaseFacts DEF CloseMembers, At, Phases
<1>2. /\ run' \in RunType /\ run'.chosen = run.chosen
      /\ run'.log = run.log /\ run'.done = run.done \cup {"sync"}
  BY <1>1 DEF CloseMembers, TypeOK, RunType, RunStatuses
<1>3. QED BY <1>1, <1>2, LeaveKeeps DEF CloseMembers

\* What the job has reported is what the run reports.
LEMMA CloseKeeps ==
  ASSUME Inv, NEW t \in Jobs, Close(t)
  PROVE  Inv'
<1> DEFINE next == Queued(t, "kept")
<1>1. /\ TypeOK /\ job[t] \in JobType /\ ~At(t, "idle") /\ Working(t)
  BY AtWork DEF Close, At, Working
<1>2. /\ next \in JobType
      /\ next.state = "kept" /\ next.pc = "idle" /\ next.phase = 1 /\ next.done = {}
      /\ next.project = "unknown" /\ next.known = {} /\ next.map = "none"
  BY <1>1, QueuedType
<1>3. SetJob(t, next) /\ UNCHANGED <<data, call, bounds, lost>>
  BY DEF Close
<1> HIDE DEF next
<1>4. job' \in [Jobs -> JobType] /\ job'[t] = next
  BY <1>1, <1>2, <1>3, JobNext
<1>5. job[t].errors \in SUBSET Reports
  BY <1>1 DEF JobType
<1>6. /\ run' \in RunType /\ run'.chosen = run.chosen
      /\ run'.log = job[t].errors /\ run'.done = run.done
  BY <1>1, <1>5 DEF Close, TypeOK, RunType, RunStatuses
<1>7. TypeOK'
  BY <1>1, <1>3, <1>4, <1>6 DEF TypeOK, data, bounds
<1>8. Shape(t)' /\ ~Working(t)'
  BY <1>2, <1>4 DEF Shape, Working, At
<1>9. Imports(t)' /\ Comments(t)'
  BY <1>8, RestClaims
<1>10. Kept' => RunImports(run.log)'
  BY <1>1, <1>3, <1>6, AtWork DEF Kept, Imports, RunImports, Missing, data
<1>11. Heard' => RunComments(run.log)'
  BY <1>1, <1>3, <1>6, AtWork DEF Heard, Comments, RunComments, Missing, Mentioned, data
<1>12. QED BY <1>1, <1>2, <1>3, <1>6, <1>7, <1>8, <1>9, <1>10, <1>11, WorkerKeeps

\* The same for a step that changes data or the run, or is excused for what it loses.
LEMMA WorkKeeps ==
  ASSUME Inv, NEW t \in Jobs, Working(t), NEW next \in JobType, SetJob(t, next),
         run' \in RunType,
         project' \in {"none", "native", "jira"}, issues' \in SUBSET Pages,
         comments' \in SUBSET Pages, UNCHANGED <<call, calls>>, Fault \/ faults' = faults,
         lost \subseteq lost', lost' \in SUBSET Losses,
         run.done \subseteq run'.done, next.pc \notin {"idle", "load"},
         Shape(t)',
         Alone => /\ run'.log \subseteq next.errors
                  /\ \A i \in 1..7 : Phase[i] \in run'.done => Phase[i] \in next.done \/ Passed(t, i)'
                  /\ next.pc # "mark" => run'.status # "completed",
         Kept' => Imports(t)', Heard' => Comments(t)'
  PROVE  Inv'
<1>1. TypeOK
  BY AtWork
<1>2. job' \in [Jobs -> JobType] /\ job'[t] = next
  BY <1>1, JobNext
<1>3. faults' \in 0..MaxFaults
  BY <1>1, FaultBound DEF TypeOK
<1>4. TypeOK'
  BY <1>1, <1>2, <1>3 DEF TypeOK
<1>5. Working(t)' /\ ~At(t, "idle") /\ (Alone' => Alone)
  BY <1>2 DEF Working, At, Alone
<1>6. DOMAIN Phase = 1..7
  BY PhaseFacts
<1>7. QED BY <1>2, <1>4, <1>5, <1>6, WorkerKeeps

LEMMA MarkKeeps ==
  ASSUME Inv, NEW t \in Jobs, MarkRun(t)
  PROVE  Inv'
<1> DEFINE pc == IF job[t].reset /\ "members" \notin job[t].done THEN "wipe" ELSE "phase"
<1> DEFINE next == [job[t] EXCEPT !.pc = pc]
<1>1. /\ TypeOK /\ job[t] \in JobType /\ Shape(t) /\ Working(t) /\ job[t].phase = 1
      /\ (Alone => Solo(t))
  BY AtWork DEF MarkRun, At, Shape, Working
<1>2. SetJob(t, next) /\ UNCHANGED <<data, call, bounds, lost>>
  BY DEF MarkRun
<1>3. pc \in {"wipe", "phase"}
  OBVIOUS
<1> HIDE DEF pc
<1>4. /\ next \in JobType
      /\ next.state = job[t].state /\ next.attempts = job[t].attempts
      /\ next.chosen = job[t].chosen
      /\ next.phase = 1 /\ next.project = job[t].project /\ next.full = job[t].full
      /\ next.known = job[t].known /\ next.map = job[t].map
      /\ next.pc = pc /\ next.done = job[t].done /\ next.errors = job[t].errors
  BY <1>1, <1>3 DEF JobType
<1> HIDE DEF next
<1>5. job'[t] = next
  BY <1>1, <1>2, <1>4, JobNext
<1>6. /\ run' \in RunType /\ run'.chosen = run.chosen
      /\ run'.log = run.log /\ run'.done = run.done /\ run'.status = "processing"
  BY <1>1 DEF MarkRun, TypeOK, RunType, RunStatuses
<1>7. Shape(t)'
  BY <1>1, <1>3, <1>4, <1>5, <1>6 DEF MarkRun, Shape, At
<1>8. Alone => /\ run'.log \subseteq next.errors
               /\ \A i \in 1..7 : Phase[i] \in run'.done => Phase[i] \in next.done \/ Passed(t, i)'
  BY <1>1, <1>3, <1>4, <1>5, <1>6, PhaseFacts DEF Solo, Passed, MarkRun, At
<1>9. Kept => Imports(t)'
  BY <1>1, <1>2, <1>3, <1>4, <1>5, <1>6, AtWork DEF Imports, RunImports, Missing, Finished,
     Passed, At, data, Working
<1>10. Heard => Comments(t)'
  BY <1>1, <1>2, <1>3, <1>4, <1>5, <1>6, AtWork DEF Comments, RunComments, Missing, Mentioned,
     Finished, Passed, At, data, Working
<1>11. (Kept' <=> Kept) /\ (Heard' <=> Heard)
  BY <1>2 DEF Kept, Heard
<1>12. /\ project' \in {"none", "native", "jira"} /\ issues' \in SUBSET Pages
       /\ comments' \in SUBSET Pages /\ faults' = faults /\ UNCHANGED <<call, calls>>
       /\ lost \subseteq lost' /\ lost' \in SUBSET Losses
  BY <1>1, <1>2 DEF TypeOK, data, bounds
<1>13. QED
  BY <1>1, <1>2, <1>3, <1>4, <1>6, <1>7, <1>8, <1>9, <1>10, <1>11, <1>12, WorkKeeps

LEMMA WipeKeeps ==
  ASSUME Inv, NEW t \in Jobs, Wipe(t)
  PROVE  Inv'
<1> DEFINE next == [job[t] EXCEPT !.pc = "phase"]
<1> DEFINE jobs == [job EXCEPT ![t].pc = "phase"]
<1> DEFINE holders == {u \in Jobs : jobs[u].project = "known" \/ jobs[u].known # {}}
<1>1. /\ TypeOK /\ job[t] \in JobType /\ Shape(t) /\ Working(t) /\ job[t].phase = 1
      /\ (Alone => Solo(t))
  BY AtWork DEF Wipe, At, Shape, Working
<1>2. /\ next \in JobType
      /\ next.state = job[t].state /\ next.attempts = job[t].attempts
      /\ next.chosen = job[t].chosen
      /\ next.phase = 1 /\ next.project = job[t].project /\ next.full = job[t].full
      /\ next.known = job[t].known /\ next.map = job[t].map
      /\ next.pc = "phase" /\ next.done = job[t].done /\ next.errors = job[t].errors
      /\ next.inlined = job[t].inlined /\ next.page = job[t].page /\ next.work = job[t].work
  BY <1>1 DEF JobType
<1>3. /\ jobs = [job EXCEPT ![t] = next] /\ UNCHANGED <<run, call, bounds>>
      /\ \/ DeleteData(jobs)
         \/ job' = jobs /\ UNCHANGED <<data, lost>>
  BY DEF Wipe, SetJob
<1>4. jobs \in [Jobs -> JobType] /\ jobs[t] = next /\ \A u \in Jobs \ {t} : jobs[u] = job[u]
  BY <1>1, <1>2 DEF TypeOK
<1> HIDE DEF next, jobs
<1>5. CASE project # "jira" \/ ~DeleteData(jobs)
  <2>1. job' = jobs /\ UNCHANGED <<data, lost>>
    BY <1>3, <1>5 DEF DeleteData
  <2>2. job'[t] = next /\ SetJob(t, next)
    BY <1>3, <1>4, <2>1 DEF SetJob
  <2>3. Shape(t)'
    BY <1>1, <1>2, <1>3, <2>2 DEF Shape, At, Wipe
  <2>4. \A i \in 1..7 : Passed(t, i) => Passed(t, i)'
    BY <1>1, <1>2, <2>2 DEF Passed, At, Wipe
  <2>5. Kept => Imports(t)'
    BY <1>1, <1>2, <1>3, <2>1, <2>2, AtWork DEF Imports, RunImports, Missing, Finished,
       Passed, At, data, Working
  <2>6. Heard => Comments(t)'
    BY <1>1, <1>2, <1>3, <2>1, <2>2, AtWork DEF Comments, RunComments, Missing, Mentioned,
       Finished, Passed, At, data, Working
  <2>7. ~At(t, "mark")
    BY DEF Wipe, At
  <2>8. QED
    BY <1>1, <1>2, <1>3, <2>1, <2>2, <2>3, <2>4, <2>5, <2>6, <2>7, GoKeeps DEF bounds
<1>6. CASE project = "jira" /\ DeleteData(jobs)
  <2>1. /\ project' = "none" /\ issues' = {} /\ comments' = {}
        /\ job' = [u \in Jobs |-> IF u \in holders THEN [jobs[u] EXCEPT !.project = "stale"]
                                  ELSE jobs[u]]
        /\ lost' = IF holders # {} \/ run.done \cap {"projects", "issues"} # {}
                   THEN lost \cup {"import"} ELSE lost
    BY <1>3, <1>6 DEF DeleteData
  <2>2. \A u \in Jobs : jobs[u] \in JobType /\ [jobs[u] EXCEPT !.project = "stale"] \in JobType
    BY <1>4 DEF JobType
  <2>3. job' \in [Jobs -> JobType]
    BY <2>1, <2>2
  <2>4. TypeOK'
    BY <1>1, <1>3, <2>1, <2>3 DEF TypeOK, bounds, Losses
  <2>5. ASSUME NEW u \in Jobs
        PROVE  Cleared(u)
    <3>1. /\ jobs[u].state = job[u].state /\ jobs[u].attempts = job[u].attempts
          /\ jobs[u].full = job[u].full /\ jobs[u].phase = job[u].phase
          /\ jobs[u].done = job[u].done /\ jobs[u].errors = job[u].errors
          /\ jobs[u].known = job[u].known /\ jobs[u].map = job[u].map
          /\ jobs[u].inlined = job[u].inlined /\ jobs[u].page = job[u].page
          /\ jobs[u].work = job[u].work /\ jobs[u].project = job[u].project
          /\ jobs[u].chosen = job[u].chosen
          /\ \/ jobs[u].pc = job[u].pc
             \/ job[u].pc = "wipe" /\ jobs[u].pc = "phase"
      BY <1>1, <1>2, <1>4 DEF Wipe, At
    <3>2. CASE u \in holders
      <4>1. job'[u] = [jobs[u] EXCEPT !.project = "stale"] /\ jobs[u] \in JobType
        BY <2>1, <2>2, <3>2
      <4>2. job[u].project = "known" \/ job[u].known # {}
        BY <3>1, <3>2
      <4>3. /\ job'[u].state = jobs[u].state /\ job'[u].attempts = jobs[u].attempts
            /\ job'[u].full = jobs[u].full /\ job'[u].phase = jobs[u].phase
            /\ job'[u].done = jobs[u].done /\ job'[u].errors = jobs[u].errors
            /\ job'[u].known = jobs[u].known /\ job'[u].map = jobs[u].map
            /\ job'[u].inlined = jobs[u].inlined /\ job'[u].page = jobs[u].page
            /\ job'[u].work = jobs[u].work /\ job'[u].pc = jobs[u].pc
            /\ job'[u].project = "stale" /\ job'[u].chosen = jobs[u].chosen
        BY <4>1 DEF JobType
      <4>4. QED BY <3>1, <4>2, <4>3 DEF Cleared
    <3>3. CASE u \notin holders
      BY <2>1, <3>1, <3>3 DEF Cleared
    <3>4. QED BY <3>2, <3>3
  <2>6. \A u \in Jobs : jobs[u].project = job[u].project /\ jobs[u].known = job[u].known
    BY <1>2, <1>4
  <2>7. Kept' => /\ run.done \cap {"projects", "issues"} = {}
                 /\ \A u \in Jobs : job[u].project # "known" /\ job[u].known = {}
    BY <2>1, <2>6 DEF Kept
  <2>8. lost \subseteq lost' /\ run' = run
    BY <1>3, <2>1
  <2>9. QED BY <2>1, <2>4, <2>5, <2>7, <2>8, ClearedKeeps
<1>7. QED BY <1>5, <1>6

LEMMA PageFacts ==
  ASSUME NEW t \in Jobs, job[t] \in JobType
  PROVE  /\ LastPage \in Int /\ 1 <= LastPage /\ job[t].page \in Int /\ job[t].page \in 1..LastPage + 1
         /\ \A p \in Pages : p \in Int /\ 1 <= p /\ p <= LastPage
         /\ job[t].errors \in SUBSET Reports /\ job[t].known \in SUBSET Pages
         /\ job[t].work \in SUBSET Pages
<1>1. LastPage \in Int /\ 1 <= LastPage
  BY ConstantsAssumption
<1>2. /\ job[t].page \in 1..LastPage + 1 /\ job[t].errors \in SUBSET Reports
      /\ job[t].known \in SUBSET Pages /\ job[t].work \in SUBSET Pages
  BY DEF JobType
<1>3. QED BY <1>1, <1>2 DEF Pages

\* What the recorded phase found is there to be read again.
LEMMA SkipKeeps ==
  ASSUME Inv, NEW t \in Jobs, SkipPhase(t)
  PROVE  Inv'
<1> DEFINE local == IF Name(t) = "projects" /\ project # "none" THEN "known" ELSE job[t].project
<1> DEFINE keys == IF Name(t) = "issues" THEN issues ELSE job[t].known
<1> DEFINE next == [job[t] EXCEPT !.pc = "check", !.project = local, !.known = keys]
<1>1. /\ TypeOK /\ job[t] \in JobType /\ Shape(t) /\ Working(t) /\ ~At(t, "mark")
      /\ job[t].phase \in 1..7 /\ (Alone => Solo(t)) /\ job[t].pc = "phase"
  BY AtWork DEF SkipPhase, At, Working
<1>2. SetJob(t, next) /\ UNCHANGED <<run, data, call, bounds, lost>>
  BY DEF SkipPhase, Go
<1>3. Name(t) \in job[t].done /\ Name(t) \in run.done
  BY <1>1 DEF SkipPhase, Shape
<1>4. /\ Name(t) = "projects" <=> job[t].phase = 3
      /\ Name(t) = "issues" <=> job[t].phase = 5
      /\ Name(t) = "comments" <=> job[t].phase = 6
  BY <1>1, PhaseNames
<1>5. local \in {"unknown", "known", "stale"} /\ keys \in SUBSET Pages
  BY <1>1 DEF TypeOK, JobType
<1>6. /\ local = IF job[t].phase = 3 /\ project # "none" THEN "known" ELSE job[t].project
      /\ keys = IF job[t].phase = 5 THEN issues ELSE job[t].known
  BY <1>4
<1> HIDE DEF local, keys
<1>7. /\ next \in JobType
      /\ next.state = job[t].state /\ next.attempts = job[t].attempts
      /\ next.chosen = job[t].chosen
      /\ next.phase = job[t].phase /\ next.project = local /\ next.full = job[t].full
      /\ next.known = keys /\ next.map = job[t].map
      /\ next.pc = "check" /\ next.done = job[t].done /\ next.errors = job[t].errors
      /\ next.inlined = job[t].inlined /\ next.page = job[t].page /\ next.work = job[t].work
  BY <1>1, <1>5 DEF JobType
<1> HIDE DEF next
<1>8. job'[t] = next
  BY <1>1, <1>2, <1>7, JobNext
<1>9. Shape(t)'
  BY <1>1, <1>2, <1>3, <1>4, <1>6, <1>7, <1>8 DEF Shape, At
<1>10. \A i \in 1..7 : Passed(t, i)' <=> Passed(t, i) \/ job[t].phase = i
  BY <1>1, <1>7, <1>8 DEF Passed
<1>11. ASSUME Kept
       PROVE  Imports(t)'
  <2>1. Imports(t) /\ RunImports(job[t].errors) /\ job[t].chosen = run.chosen
    BY <1>1, <1>11, AtWork DEF Imports
  <2>2. /\ job'[t].chosen = job[t].chosen /\ run'.chosen = run.chosen
      /\ Missing(job[t].errors)' = Missing(job[t].errors)
    BY <1>2, <1>7, <1>8 DEF Missing
  <2>3. /\ job[t].phase = 3 => project = "jira" \/ Pages \subseteq Missing(job[t].errors)
        /\ job[t].phase = 5 => Pages \subseteq issues \cup Missing(job[t].errors)
    BY <1>3, <1>4, <2>1 DEF RunImports
  <2>4. \A i \in 1..7 : Finished(t, i) => Finished(t, i)'
    BY <1>1, <1>7, <1>8 DEF Finished, Passed, At
  <2>5. \A i \in 1..7 : Finished(t, i)' => Finished(t, i) \/ job[t].phase = i
    BY <1>1, <1>7, <1>8 DEF Finished, Passed, At
  <2>6. RunImports(job[t].errors)'
    BY <1>2, <2>1, <2>2 DEF RunImports, data
  <2>7. /\ local # "stale" /\ keys \subseteq issues
        /\ Finished(t, 3)' => \/ local = "known" /\ project = "jira"
                              \/ Pages \subseteq Missing(job[t].errors)
    BY <1>6, <2>1, <2>3, <2>5 DEF Imports
  <2>8. /\ Finished(t, 5)' => Pages \subseteq issues \cup Missing(job[t].errors)
        /\ Passed(t, 5)' => "issues" \in run.done \/ Pages \subseteq Missing(job[t].errors)
    BY <1>3, <1>4, <1>10, <2>1, <2>3, <2>5 DEF Imports
  <2>9. /\ job'[t].project = local /\ job'[t].known = keys /\ job'[t].errors = job[t].errors
        /\ ~At(t, "pages")' /\ ~At(t, "inline")'
        /\ run' = run /\ project' = project /\ issues' = issues
    BY <1>2, <1>7, <1>8 DEF At, data
  <2>10. QED BY <2>1, <2>2, <2>6, <2>7, <2>8, <2>9 DEF Imports
<1>12. ASSUME Heard
       PROVE  Comments(t)'
  <2>1. Comments(t) /\ RunComments(job[t].errors) /\ RunImports(job[t].errors)
    BY <1>1, <1>12, AtWork DEF Comments, Imports
  <2>2. /\ job'[t].chosen = job[t].chosen /\ run'.chosen = run.chosen
      /\ Missing(job[t].errors)' = Missing(job[t].errors)
        /\ Mentioned(job[t].errors)' = Mentioned(job[t].errors)
    BY <1>2, <1>7, <1>8 DEF Missing, Mentioned
  <2>3. job[t].phase = 6 => issues \subseteq comments \cup Mentioned(job[t].errors)
    BY <1>3, <1>4, <2>1 DEF RunComments
  <2>4. \A i \in 1..7 : Finished(t, i)' => Finished(t, i) \/ job[t].phase = i
    BY <1>1, <1>7, <1>8 DEF Finished, Passed, At
  <2>5. job[t].phase = 5 => job[t].map = "none"
    BY <1>1, <1>3, <1>4 DEF Shape
  <2>6. RunComments(job[t].errors)'
    BY <1>2, <2>1, <2>2 DEF RunComments, data
  <2>7. /\ Finished(t, 6)' => issues \subseteq comments \cup Mentioned(job[t].errors)
        /\ /\ Finished(t, 5)' /\ ~Passed(t, 6)' /\ job[t].map # "none"
           /\ job[t].work # {} \/ job[t].inlined
           => Pages \subseteq comments \cup job[t].work \cup Mentioned(job[t].errors)
    BY <1>10, <2>1, <2>3, <2>4, <2>5 DEF Comments
  <2>8. job[t].phase = 5 => Pages \subseteq issues \cup Missing(job[t].errors)
    BY <1>3, <1>4, <2>1 DEF RunImports
  <2>9. Finished(t, 5)' /\ ~Passed(t, 6)' => Pages \subseteq keys \cup Missing(job[t].errors)
    BY <1>6, <1>10, <2>1, <2>4, <2>8 DEF Comments
  <2>10. QED
    BY <1>2, <1>7, <1>8, <2>2, <2>6, <2>7, <2>9 DEF Comments, At, data
<1>13. QED
  BY <1>1, <1>2, <1>7, <1>9, <1>10, <1>11, <1>12, GoKeeps DEF bounds

\* The recorded phase is passed without reading the issues again, and their comments will be
\* missing: that is excused.
LEMMA NotRereadKeeps ==
  ASSUME Inv, NEW t \in Jobs, IssuesNotReread(t)
  PROVE  Inv'
<1> DEFINE next == [job[t] EXCEPT !.pc = "check"]
<1>1. /\ TypeOK /\ job[t] \in JobType /\ Shape(t) /\ Working(t) /\ ~At(t, "mark")
      /\ (Alone => Solo(t)) /\ job[t].pc = "phase"
      /\ job[t].phase = 5 /\ "issues" \in run.done /\ job[t].state = "active"
  <2>1. job[t].pc = "phase" /\ Name(t) = "issues" /\ Name(t) \in job[t].done
    BY DEF IssuesNotReread, At
  <2>2. TypeOK /\ job[t] \in JobType /\ Shape(t) /\ (Alone => Solo(t))
    BY AtWork
  <2>3. QED BY <2>1, <2>2, PhaseNames DEF Shape, At, Working
<1>2. /\ SetJob(t, next) /\ UNCHANGED <<run, data, call, calls>> /\ Fault
      /\ lost' = lost \cup {"silent"}
  BY DEF IssuesNotReread
<1>3. /\ next \in JobType
      /\ next.state = job[t].state /\ next.attempts = job[t].attempts
      /\ next.chosen = job[t].chosen
      /\ next.phase = job[t].phase /\ next.project = job[t].project /\ next.full = job[t].full
      /\ next.known = job[t].known /\ next.map = job[t].map
      /\ next.pc = "check" /\ next.done = job[t].done /\ next.errors = job[t].errors
      /\ next.inlined = job[t].inlined /\ next.page = job[t].page /\ next.work = job[t].work
  BY <1>1 DEF JobType
<1> HIDE DEF next
<1>4. job'[t] = next
  BY <1>1, <1>2, <1>3, JobNext
<1>5. Shape(t)'
  BY <1>1, <1>2, <1>3, <1>4 DEF Shape, At, Name
<1>6. /\ \A i \in 1..7 : Passed(t, i) => Passed(t, i)'
      /\ Finished(t, 3) /\ ~Passed(t, 6)'
  BY <1>1, <1>3, <1>4 DEF Passed, Finished
<1>7. Alone => /\ run'.log \subseteq next.errors
               /\ \A i \in 1..7 : Phase[i] \in run'.done => Phase[i] \in next.done \/ Passed(t, i)'
               /\ next.pc # "mark" => run'.status # "completed"
  BY <1>1, <1>2, <1>3, <1>6, PhaseFacts DEF Solo
<1>8. /\ job'[t].chosen = job[t].chosen /\ run' = run
      /\ Missing(job[t].errors)' = Missing(job[t].errors)
  BY <1>2, <1>3, <1>4 DEF Missing
<1>9. Kept => Imports(t)'
  <2>1. SUFFICES ASSUME Kept PROVE Imports(t)'
    OBVIOUS
  <2>2. Imports(t) /\ RunImports(job[t].errors) /\ job[t].chosen = run.chosen
    BY <1>1, <2>1, AtWork DEF Imports
  <2>3. RunImports(job[t].errors)'
    BY <1>2, <1>8, <2>2 DEF RunImports, data
  <2>4. Pages \subseteq issues \cup Missing(job[t].errors)
    BY <1>1, <2>2 DEF RunImports
  <2>5. QED
    BY <1>1, <1>2, <1>3, <1>4, <1>6, <1>8, <2>2, <2>3, <2>4 DEF Imports, At, data
<1>10. (Kept' <=> Kept) /\ ~Heard'
  BY <1>2 DEF Kept, Heard
<1>11. /\ run' \in RunType
       /\ project' \in {"none", "native", "jira"} /\ issues' \in SUBSET Pages
       /\ comments' \in SUBSET Pages
       /\ lost \subseteq lost' /\ lost' \in SUBSET Losses
       /\ run.done \subseteq run'.done
  BY <1>1, <1>2 DEF TypeOK, data, Losses
<1>12. QED
  BY <1>1, <1>2, <1>3, <1>5, <1>7, <1>9, <1>10, <1>11, WorkKeeps

\* Messages alone: there are more of them, and all else that is said of the job stays.
LEMMA LogFillsKeeps ==
  ASSUME Inv, NEW t \in Jobs, LogFills(t)
  PROVE  Inv'
<1> DEFINE errors == job[t].errors \cup {Full}
<1> DEFINE next == [job[t] EXCEPT !.errors = errors]
<1>1. /\ TypeOK /\ job[t] \in JobType /\ Shape(t) /\ Working(t) /\ ~At(t, "mark")
      /\ job[t].errors \in SUBSET Reports /\ job[t].pc \in {"pages", "finish"}
      /\ job[t].phase \in 1..7
  BY AtWork, PageFacts DEF LogFills, At, Working
<1>2. SetJob(t, next) /\ UNCHANGED <<run, data, call, calls, lost>> /\ Fault
  BY <1>1 DEF LogFills, Fails, JobType
<1>3. errors \in SUBSET Reports /\ job[t].errors \subseteq errors
  BY <1>1 DEF Reports
<1> HIDE DEF errors
<1>4. /\ next \in JobType
      /\ next.state = job[t].state /\ next.attempts = job[t].attempts
      /\ next.chosen = job[t].chosen
      /\ next.phase = job[t].phase /\ next.project = job[t].project /\ next.full = job[t].full
      /\ next.known = job[t].known /\ next.map = job[t].map
      /\ next.pc = job[t].pc /\ next.done = job[t].done /\ next.errors = errors
      /\ next.inlined = job[t].inlined /\ next.page = job[t].page /\ next.work = job[t].work
  BY <1>1, <1>3 DEF JobType
<1> HIDE DEF next
<1>5. job'[t] = next
  BY <1>1, <1>2, <1>4, JobNext
<1>6. Shape(t)'
  BY <1>1, <1>2, <1>4, <1>5 DEF Shape, At, Name
<1>7. \A i \in 1..7 : (Passed(t, i)' <=> Passed(t, i)) /\ (Finished(t, i)' <=> Finished(t, i))
  BY <1>1, <1>4, <1>5 DEF Passed, Finished, At
<1>8. /\ Missing(job[t].errors) \subseteq Missing(errors)
      /\ Mentioned(job[t].errors) \subseteq Mentioned(errors)
  BY <1>3, MoreMessages
<1>9. /\ job'[t].chosen = job[t].chosen /\ run' = run
      /\ Missing(job[t].errors)' = Missing(errors)
      /\ Mentioned(job[t].errors)' = Mentioned(errors)
  BY <1>2, <1>4, <1>5 DEF Missing, Mentioned
<1>10. /\ job'[t].project = job[t].project /\ job'[t].known = job[t].known
       /\ job'[t].map = job[t].map /\ job'[t].work = job[t].work
       /\ job'[t].inlined = job[t].inlined /\ job'[t].page = job[t].page
       /\ issues' = issues /\ comments' = comments /\ project' = project
       /\ (At(t, "pages")' <=> At(t, "pages")) /\ ~At(t, "inline")' /\ ~At(t, "fetch")'
       /\ job'[t].pc \in {"pages", "inline"} => job[t].pc \in {"pages", "inline"}
  BY <1>1, <1>2, <1>4, <1>5 DEF At, data
<1>11. Kept => Imports(t)'
  <2>1. SUFFICES ASSUME Kept PROVE Imports(t)'
    OBVIOUS
  <2>2. Imports(t) /\ RunImports(job[t].errors) /\ job[t].chosen = run.chosen
    BY <1>1, <2>1, AtWork DEF Imports
  <2>3. RunImports(job[t].errors)'
    BY <1>8, <1>9, <1>10, <2>2 DEF RunImports
  <2>4. QED BY <1>1, <1>7, <1>8, <1>9, <1>10, <2>2, <2>3 DEF Imports
<1>12. Heard => Comments(t)'
  <2>1. SUFFICES ASSUME Heard PROVE Comments(t)'
    OBVIOUS
  <2>2. Comments(t) /\ RunComments(job[t].errors)
    BY <1>1, <2>1, AtWork DEF Comments
  <2>3. RunComments(job[t].errors)'
    BY <1>8, <1>9, <1>10, <2>2 DEF RunComments
  <2>4. QED BY <1>7, <1>8, <1>9, <1>10, <2>2, <2>3 DEF Comments
<1>13. QED BY <1>1, <1>2, <1>3, <1>4, <1>6, <1>7, <1>11, <1>12, GoKeeps

\* A log after reports still has the earlier ones.
LEMMA Reported ==
  ASSUME NEW t \in Jobs, job[t] \in JobType, NEW reports \in SUBSET Reports,
         NEW errors \in Report(t, reports)
  PROVE  errors \in SUBSET Reports /\ job[t].errors \subseteq errors /\ reports \subseteq errors
<1>1. Full \in Reports /\ job[t].errors \in SUBSET Reports
  BY DEF Reports, JobType
<1>2. PICK full \in SUBSET {Full} : errors = job[t].errors \cup reports \cup full
  BY DEF Report
<1>3. QED BY <1>1, <1>2

LEMMA CreateKeeps ==
  ASSUME Inv, NEW t \in Jobs, CreateProject(t)
  PROVE  Inv'
<1> DEFINE next == [job[t] EXCEPT !.pc = "finish", !.project = "known"]
<1>1. /\ TypeOK /\ job[t] \in JobType /\ Shape(t) /\ Working(t) /\ job[t].pc = "create"
      /\ job[t].phase = 3 /\ (Alone => Solo(t))
  BY AtWork DEF CreateProject, At, Working, Shape
<1>2. /\ SetJob(t, next) /\ project' = "jira"
      /\ UNCHANGED <<run, issues, comments, call, bounds, lost>>
  BY DEF CreateProject
<1>3. /\ next \in JobType
      /\ next.state = job[t].state /\ next.attempts = job[t].attempts
      /\ next.chosen = job[t].chosen
      /\ next.phase = job[t].phase /\ next.project = "known" /\ next.full = job[t].full
      /\ next.known = job[t].known /\ next.map = job[t].map
      /\ next.pc = "finish" /\ next.done = job[t].done /\ next.errors = job[t].errors
      /\ next.inlined = job[t].inlined /\ next.page = job[t].page /\ next.work = job[t].work
  BY <1>1 DEF JobType
<1> HIDE DEF next
<1>4. job'[t] = next
  BY <1>1, <1>2, <1>3, JobNext
<1>5. Shape(t)'
  BY <1>1, <1>2, <1>3, <1>4 DEF Shape, At, Name
<1>6. Alone => /\ run'.log \subseteq next.errors
               /\ \A i \in 1..7 : Phase[i] \in run'.done => Phase[i] \in next.done \/ Passed(t, i)'
               /\ next.pc # "mark" => run'.status # "completed"
  BY <1>1, <1>2, <1>3, <1>4, PhaseFacts DEF Solo, Passed, At
<1>7. Kept => Imports(t)'
  BY <1>1, <1>2, <1>3, <1>4, AtWork DEF Imports, RunImports, Missing, Finished, Passed, At
<1>8. Heard => Comments(t)'
  BY <1>1, <1>2, <1>3, <1>4, AtWork DEF Comments, RunComments, Missing, Mentioned, Finished,
     Passed, At
<1>9. (Kept' <=> Kept) /\ (Heard' <=> Heard)
  BY <1>2 DEF Kept, Heard
<1>10. /\ run' \in RunType
       /\ project' \in {"none", "native", "jira"} /\ issues' \in SUBSET Pages
       /\ comments' \in SUBSET Pages /\ faults' = faults /\ UNCHANGED <<call, calls>>
       /\ lost \subseteq lost' /\ lost' \in SUBSET Losses
       /\ run.done \subseteq run'.done
  BY <1>1, <1>2 DEF TypeOK, bounds
<1>11. QED
  BY <1>1, <1>2, <1>3, <1>5, <1>6, <1>7, <1>8, <1>9, <1>10, WorkKeeps

\* A report of every page makes up for all of them.
LEMMA AllReported ==
  ASSUME NEW errors, {"issues"} \X Pages \subseteq errors
  PROVE  Missing(errors) = Pages /\ Mentioned(errors) = Pages
<1>1. \A p \in Pages : <<"issues", p>> \in {"issues"} \X Pages
  OBVIOUS
<1>2. QED BY <1>1 DEF Missing, Mentioned

LEMMA NoProjectKeeps ==
  ASSUME Inv, NEW t \in Jobs, NoProject(t)
  PROVE  Inv'
<1> DEFINE reports == {"issues"} \X Pages
<1>0. PICK errors \in Report(t, reports) :
        Fails(t, [[job[t] EXCEPT !.pc = "finish"] EXCEPT !.errors = errors])
  BY DEF NoProject, ReportsAndGoes
<1> DEFINE next == [job[t] EXCEPT !.pc = "finish", !.errors = errors]
<1>1. /\ TypeOK /\ job[t] \in JobType /\ Shape(t) /\ Working(t) /\ job[t].pc = "create"
      /\ job[t].phase = 3 /\ ~At(t, "mark")
  BY AtWork DEF NoProject, At, Working, Shape
<1>2. SetJob(t, next) /\ UNCHANGED <<run, data, call, calls, lost>> /\ Fault
  BY <1>0, <1>1 DEF Fails, JobType
<1>3. /\ errors \in SUBSET Reports /\ job[t].errors \subseteq errors
      /\ {"issues"} \X Pages \subseteq errors
  <2>1. reports \in SUBSET Reports
    BY DEF Reports
  <2> HIDE DEF reports
  <2>2. errors \in SUBSET Reports /\ job[t].errors \subseteq errors /\ reports \subseteq errors
    BY <1>1, <2>1, Reported
  <2>3. QED BY <2>2 DEF reports
<1> HIDE DEF reports
<1>4. /\ next \in JobType
      /\ next.state = job[t].state /\ next.attempts = job[t].attempts
      /\ next.chosen = job[t].chosen
      /\ next.phase = job[t].phase /\ next.project = job[t].project /\ next.full = job[t].full
      /\ next.known = job[t].known /\ next.map = job[t].map
      /\ next.pc = "finish" /\ next.done = job[t].done
      /\ next.errors = errors /\ job[t].errors \subseteq next.errors
      /\ next.inlined = job[t].inlined /\ next.page = job[t].page /\ next.work = job[t].work
  BY <1>1, <1>3 DEF JobType
<1> HIDE DEF next
<1>5. job'[t] = next
  BY <1>1, <1>2, <1>4, JobNext
<1>6. Missing(next.errors) = Pages /\ Mentioned(next.errors) = Pages
  BY <1>3, <1>4, AllReported
<1>7. Shape(t)'
  BY <1>1, <1>2, <1>4, <1>5 DEF Shape, At, Name
<1>8. \A i \in 1..7 : Passed(t, i) => Passed(t, i)'
  BY <1>1, <1>4, <1>5 DEF Passed
<1>9. /\ job'[t].chosen = job[t].chosen /\ run'.chosen = run.chosen
      /\ Missing(job[t].errors)' = Pages /\ Mentioned(job[t].errors)' = Pages
  BY <1>2, <1>4, <1>5, <1>6 DEF Missing, Mentioned
<1>10. TypeOK => issues \subseteq Pages
  BY DEF TypeOK
<1>11. Kept => Imports(t)'
  BY <1>1, <1>2, <1>4, <1>5, <1>9, AtWork DEF Imports, RunImports, data, At
<1>12. Heard => Comments(t)'
  BY <1>1, <1>2, <1>4, <1>5, <1>9, <1>10, AtWork DEF Comments, RunComments, data, At
<1>13. QED BY <1>1, <1>2, <1>4, <1>7, <1>8, <1>11, <1>12, GoKeeps

\* Where a phase starts, and the list of pages that phase 5 starts from.
LEMMA StartedFields ==
  ASSUME TypeOK, NEW t \in Jobs, NEW map \in {"sends", "omits"}
  PROVE  LET next == Started(t, map) IN
         /\ next \in JobType
         /\ next.state = job[t].state /\ next.attempts = job[t].attempts
         /\ next.chosen = job[t].chosen
         /\ next.phase = job[t].phase /\ next.project = job[t].project /\ next.full = job[t].full
         /\ next.known = job[t].known /\ next.done = job[t].done /\ next.errors = job[t].errors
         /\ next.pc \in {"create", "pages", "fetch", "finish"}
         /\ next.pc = "create" <=> job[t].phase = 3 /\ "project" \in job[t].chosen
         /\ next.pc = "pages" <=> job[t].phase = 5
         /\ next.pc = "fetch" <=> job[t].phase = 6 /\ "comments" \in job[t].chosen
         /\ job[t].phase = 5 => next.map = map /\ next.page = 1 /\ next.work = {} /\ ~next.inlined
         /\ job[t].phase # 5 => next.map = job[t].map /\ next.inlined = job[t].inlined
         /\ next.pc = "fetch" => next.work = WorkList(t)
         /\ job[t].phase # 5 /\ next.pc # "fetch" => next.work = job[t].work
<1>1. job[t] \in JobType
  BY DEF TypeOK
<1>2. 1 \in 1..LastPage + 1 /\ WorkList(t) \in SUBSET Pages
  BY <1>1, ConstantsAssumption DEF WorkList, JobType
<1>3. /\ Name(t) = "projects" <=> job[t].phase = 3
      /\ Name(t) = "issues" <=> job[t].phase = 5
      /\ Name(t) = "comments" <=> job[t].phase = 6
  BY PhaseNames
<1>4. /\ Unchosen(t) => job[t].phase # 5
      /\ job[t].phase = 3 => (Unchosen(t) <=> "project" \notin job[t].chosen)
      /\ job[t].phase = 6 => (Unchosen(t) <=> "comments" \notin job[t].chosen)
  BY <1>3 DEF Unchosen
<1>5. CASE job[t].phase = 3 /\ ~Unchosen(t)
  <2> DEFINE next == [job[t] EXCEPT !.pc = "create"]
  <2>1. Started(t, map) = next
    BY <1>3, <1>5 DEF Started
  <2>2. /\ next \in JobType
        /\ next.state = job[t].state /\ next.attempts = job[t].attempts
        /\ next.chosen = job[t].chosen
        /\ next.phase = job[t].phase /\ next.project = job[t].project /\ next.full = job[t].full
        /\ next.known = job[t].known /\ next.done = job[t].done /\ next.errors = job[t].errors
        /\ next.pc = "create" /\ next.map = job[t].map /\ next.inlined = job[t].inlined
        /\ next.work = job[t].work
    BY <1>1 DEF JobType
  <2> HIDE DEF next
  <2>3. QED BY <1>4, <1>5, <2>1, <2>2
<1>6. CASE job[t].phase = 5
  <2> DEFINE next == [job[t] EXCEPT !.pc = "pages", !.map = map, !.page = 1, !.work = {},
                                    !.inlined = FALSE]
  <2>1. Started(t, map) = next
    BY <1>3, <1>4, <1>6 DEF Started
  <2>2. /\ next.state = job[t].state /\ next.attempts = job[t].attempts
        /\ next.chosen = job[t].chosen
        /\ next.phase = job[t].phase /\ next.project = job[t].project /\ next.full = job[t].full
        /\ next.known = job[t].known /\ next.done = job[t].done /\ next.errors = job[t].errors
        /\ next.pc = "pages" /\ next.map = map /\ next.inlined = FALSE
        /\ next.work = {} /\ next.page = 1
    BY <1>1 DEF JobType
  <2>3. next \in JobType
    BY <1>1, <1>2 DEF JobType
  <2> HIDE DEF next
  <2>4. QED BY <1>6, <2>1, <2>2, <2>3
<1>7. CASE job[t].phase = 6 /\ ~Unchosen(t)
  <2> DEFINE list == WorkList(t)
  <2> DEFINE next == [job[t] EXCEPT !.pc = "fetch", !.work = list]
  <2>1. Started(t, map) = next
    BY <1>3, <1>7 DEF Started
  <2>2. list = WorkList(t) /\ list \in SUBSET Pages
    BY <1>2
  <2> HIDE DEF list
  <2>3. /\ next \in JobType
        /\ next.state = job[t].state /\ next.attempts = job[t].attempts
        /\ next.chosen = job[t].chosen
        /\ next.phase = job[t].phase /\ next.project = job[t].project /\ next.full = job[t].full
        /\ next.known = job[t].known /\ next.done = job[t].done /\ next.errors = job[t].errors
        /\ next.pc = "fetch" /\ next.map = job[t].map /\ next.inlined = job[t].inlined
        /\ next.work = list
    BY <1>1, <2>2 DEF JobType
  <2> HIDE DEF next
  <2>4. QED BY <1>4, <1>7, <2>1, <2>2, <2>3
<1>8. CASE Unchosen(t) \/ job[t].phase \notin {3, 5, 6}
  <2> DEFINE next == [job[t] EXCEPT !.pc = "finish"]
  <2>1. Started(t, map) = next
    BY <1>3, <1>4, <1>8 DEF Started
  <2>2. /\ next \in JobType
        /\ next.state = job[t].state /\ next.attempts = job[t].attempts
        /\ next.chosen = job[t].chosen
        /\ next.phase = job[t].phase /\ next.project = job[t].project /\ next.full = job[t].full
        /\ next.known = job[t].known /\ next.done = job[t].done /\ next.errors = job[t].errors
        /\ next.pc = "finish" /\ next.map = job[t].map /\ next.inlined = job[t].inlined
        /\ next.work = job[t].work
    BY <1>1 DEF JobType
  <2> HIDE DEF next
  <2>3. QED BY <1>4, <1>8, <2>1, <2>2
<1>9. QED BY <1>5, <1>6, <1>7, <1>8

LEMMA EnterKeeps ==
  ASSUME Inv, NEW t \in Jobs, EnterPhase(t)
  PROVE  Inv'
<1>1. /\ TypeOK /\ job[t] \in JobType /\ Shape(t) /\ Working(t) /\ job[t].pc = "phase"
      /\ job[t].phase \in 1..7 /\ (Alone => Solo(t))
  BY AtWork DEF EnterPhase, At, Working
<1>2. PICK map \in {"sends", "omits"} : SetJob(t, Started(t, map))
  BY DEF EnterPhase
<1> DEFINE next == Started(t, map)
<1>3. /\ next \in JobType
      /\ next.state = job[t].state /\ next.attempts = job[t].attempts
      /\ next.chosen = job[t].chosen
      /\ next.phase = job[t].phase /\ next.project = job[t].project /\ next.full = job[t].full
      /\ next.known = job[t].known /\ next.done = job[t].done /\ next.errors = job[t].errors
      /\ next.pc \in {"create", "pages", "fetch", "finish"}
      /\ next.pc = "create" <=> job[t].phase = 3 /\ "project" \in job[t].chosen
      /\ next.pc = "pages" <=> job[t].phase = 5
      /\ next.pc = "fetch" <=> job[t].phase = 6 /\ "comments" \in job[t].chosen
      /\ job[t].phase = 5 => next.map = map /\ next.page = 1 /\ next.work = {} /\ ~next.inlined
      /\ job[t].phase # 5 => next.map = job[t].map /\ next.inlined = job[t].inlined
      /\ next.pc = "fetch" => next.work = WorkList(t)
      /\ job[t].phase # 5 /\ next.pc # "fetch" => next.work = job[t].work
  BY <1>1, StartedFields
<1> HIDE DEF next
<1>4. job'[t] = next
  BY <1>1, <1>2, <1>3, JobNext DEF next
<1>5. /\ run' \in RunType /\ run'.chosen = run.chosen
      /\ run'.log = run.log /\ run'.done = run.done
      /\ run'.status \in {run.status, "processing"}
  BY <1>1 DEF EnterPhase, TypeOK, RunType, RunStatuses
<1>6. UNCHANGED <<data, call, bounds, lost>>
  BY DEF EnterPhase
<1>7. \A i \in 1..7 : Passed(t, i)' <=> Passed(t, i)
  BY <1>1, <1>3, <1>4 DEF Passed
<1>8. /\ Finished(t, 3)' => Finished(t, 3) \/ "project" \notin job[t].chosen
      /\ Finished(t, 5)' <=> Finished(t, 5)
      /\ Finished(t, 6)' => Finished(t, 6) \/ "comments" \notin job[t].chosen
  BY <1>1, <1>3, <1>4, <1>7 DEF Finished, At
<1>9. Shape(t)'
  <2>1. Name(t) \notin job[t].done /\ (job[t].phase = 5 => Name(t) = "issues")
    BY <1>1, PhaseNames DEF EnterPhase
  <2>2. Shape(t)
    BY <1>1
  <2>3. job[t].phase = 5 => "issues" \notin job[t].done
    BY <2>1
  <2>4. Name(t)' = Name(t)
    BY <1>3, <1>4 DEF Name
  <2>5. /\ job[t].phase < 5 => next.map = "none" /\ job[t].known = {}
        /\ job[t].state = "active"
    BY <1>1, <1>3, <2>2 DEF Shape, At
  <2>6. QED BY <1>1, <1>3, <1>4, <1>5, <2>1, <2>2, <2>3, <2>4, <2>5 DEF Shape, At
<1>10. Alone => /\ run'.log \subseteq next.errors
                /\ \A i \in 1..7 : Phase[i] \in run'.done => Phase[i] \in next.done \/ Passed(t, i)'
                /\ next.pc # "mark" => run'.status # "completed"
  BY <1>1, <1>3, <1>5, <1>7, PhaseFacts DEF Solo, At
<1>11. /\ job'[t].chosen = job[t].chosen /\ run'.chosen = run.chosen
       /\ Missing(job[t].errors)' = Missing(job[t].errors)
       /\ Mentioned(job[t].errors)' = Mentioned(job[t].errors)
  BY <1>3, <1>4, <1>5 DEF Missing, Mentioned
<1>12. ASSUME Kept
       PROVE  Imports(t)'
  <2>1. Imports(t) /\ RunImports(job[t].errors) /\ job[t].chosen = run.chosen
    BY <1>1, <1>12, AtWork DEF Imports
  <2>2. RunImports(job[t].errors)'
    BY <1>5, <1>6, <1>11, <2>1 DEF RunImports, data
  <2>3. \A p \in Pages : ~(p < 1)
    BY <1>1, PageFacts
  <2>4. At(t, "pages")' => job'[t].page = 1
    BY <1>3, <1>4 DEF At
  <2>5. ~At(t, "inline")'
    BY <1>3, <1>4 DEF At
  <2>6. /\ job'[t].project = job[t].project /\ job'[t].known = job[t].known /\ issues' = issues
        /\ project' = project /\ run'.done = run.done
    BY <1>3, <1>4, <1>5, <1>6 DEF data
  <2>7. "project" \notin job[t].chosen => Pages \subseteq Missing(job[t].errors)
    BY <2>1 DEF Missing
  <2>8. QED BY <1>7, <1>8, <1>11, <2>1, <2>2, <2>3, <2>4, <2>5, <2>6, <2>7 DEF Imports
<1>13. ASSUME Heard
       PROVE  Comments(t)'
  <2>1. Comments(t) /\ RunComments(job[t].errors) /\ job[t].chosen = run.chosen
    BY <1>1, <1>13, AtWork DEF Comments, Imports
  <2>2. RunComments(job[t].errors)'
    BY <1>5, <1>6, <1>11, <2>1 DEF RunComments, data
  <2>3. \A p \in Pages : ~(p < 1)
    BY <1>1, PageFacts
  <2>4. job'[t].pc \in {"pages", "inline"} => job'[t].page = 1
    BY <1>3, <1>4
  <2>5. Missing(job[t].errors) \subseteq Mentioned(job[t].errors)
    BY MissingMentioned
  <2>6. job[t].phase = 6 => Finished(t, 5) /\ ~Passed(t, 6)
    BY <1>1 DEF Finished, Passed
  <2>7. job[t].phase = 6 => Pages \subseteq comments \cup WorkList(t) \cup Mentioned(job[t].errors)
    BY <2>1, <2>5, <2>6 DEF Comments, WorkList
  <2>8. Finished(t, 5) => job[t].phase \in {5, 6, 7} /\ job[t].phase # 5
    BY <1>1 DEF Finished, Passed, At
  <2>9. /\ Finished(t, 5)' /\ ~Passed(t, 6)' /\ job'[t].map # "none"
        /\ job'[t].work # {} \/ job'[t].inlined
        => Pages \subseteq comments \cup job'[t].work \cup Mentioned(job[t].errors)
    BY <1>3, <1>4, <1>7, <1>8, <2>1, <2>7, <2>8 DEF Comments
  <2>10. At(t, "fetch")' => Pages \subseteq comments \cup job'[t].work \cup Mentioned(job[t].errors)
    BY <1>3, <1>4, <2>7 DEF At
  <2>11. issues' = issues /\ comments' = comments /\ job'[t].known = job[t].known
    BY <1>3, <1>4, <1>6 DEF data
  <2>12. "comments" \notin job[t].chosen => issues \subseteq Mentioned(job[t].errors)
    BY <1>1, <2>1 DEF Mentioned, TypeOK
  <2>13. QED
    BY <1>7, <1>8, <1>11, <2>1, <2>2, <2>3, <2>4, <2>9, <2>10, <2>11, <2>12 DEF Comments
<1>14. (Kept' <=> Kept) /\ (Heard' <=> Heard)
  BY <1>6 DEF Kept, Heard
<1>15. /\ project' \in {"none", "native", "jira"} /\ issues' \in SUBSET Pages
       /\ comments' \in SUBSET Pages /\ faults' = faults /\ UNCHANGED <<call, calls>>
       /\ lost \subseteq lost' /\ lost' \in SUBSET Losses
  BY <1>1, <1>6 DEF TypeOK, data, bounds
<1>16. next.pc \notin {"idle", "load"} /\ SetJob(t, next) /\ run.done \subseteq run'.done
  BY <1>2, <1>3, <1>5 DEF next
<1>17. QED
  BY <1>1, <1>3, <1>5, <1>9, <1>10, <1>12, <1>13, <1>14, <1>15, <1>16, WorkKeeps

\* Every page has been asked for, or the messages report them all.
LEMMA PagesDoneKeeps ==
  ASSUME Inv, NEW t \in Jobs, PagesDone(t)
  PROVE  Inv'
<1> DEFINE next == [job[t] EXCEPT !.pc = "finish", !.page = 1]
<1>1. /\ TypeOK /\ job[t] \in JobType /\ Shape(t) /\ Working(t) /\ job[t].pc = "pages"
      /\ job[t].phase = 5 /\ ~At(t, "mark")
  BY AtWork DEF PagesDone, At, Working, Shape
<1>2. SetJob(t, next) /\ UNCHANGED <<run, data, call, bounds, lost>>
  BY DEF PagesDone, Go
<1>3. 1 \in 1..LastPage + 1
  BY <1>1, PageFacts
<1>4. /\ next \in JobType
      /\ next.state = job[t].state /\ next.attempts = job[t].attempts
      /\ next.chosen = job[t].chosen
      /\ next.phase = job[t].phase /\ next.project = job[t].project /\ next.full = job[t].full
      /\ next.known = job[t].known /\ next.map = job[t].map
      /\ next.pc = "finish" /\ next.done = job[t].done /\ next.errors = job[t].errors
      /\ next.inlined = job[t].inlined /\ next.page = 1 /\ next.work = job[t].work
  BY <1>1, <1>3 DEF JobType
<1> HIDE DEF next
<1>5. job'[t] = next
  BY <1>1, <1>2, <1>4, JobNext
<1>6. /\ job'[t].chosen = job[t].chosen /\ run'.chosen = run.chosen
      /\ Missing(job[t].errors)' = Missing(job[t].errors)
      /\ Mentioned(job[t].errors)' = Mentioned(job[t].errors)
  BY <1>2, <1>4, <1>5 DEF Missing, Mentioned
<1>7. Shape(t)'
  BY <1>1, <1>2, <1>4, <1>5 DEF Shape, At, Name
<1>8. \A i \in 1..7 : Passed(t, i)' <=> Passed(t, i)
  BY <1>1, <1>4, <1>5 DEF Passed
<1>9. /\ Finished(t, 3)' /\ Finished(t, 3) /\ Finished(t, 5)' /\ ~Passed(t, 5) /\ ~Passed(t, 6)
      /\ ~Finished(t, 6)'
  BY <1>1, <1>4, <1>5 DEF Finished, Passed, At
<1>10. ~Passes(t) => \A p \in Pages : p < job[t].page
  BY <1>1, PageFacts DEF PagesDone
<1>11. ASSUME Kept
       PROVE  /\ Imports(t)' /\ Pages \subseteq job[t].known \cup Missing(job[t].errors)
              /\ Passes(t) => Pages \subseteq Missing(job[t].errors)
  <2>1. Imports(t) /\ RunImports(job[t].errors) /\ job[t].chosen = run.chosen
    BY <1>1, <1>11, AtWork DEF Imports
  <2>2. RunImports(job[t].errors)'
    BY <1>2, <1>6, <2>1 DEF RunImports, data
  <2>3. Passes(t) => Pages \subseteq Missing(job[t].errors)
    BY <1>9, <2>1 DEF Passes, Imports, Missing
  <2>4. Pages \subseteq job[t].known \cup Missing(job[t].errors)
    BY <1>1, <1>10, <2>1, <2>3 DEF Imports, At
  <2>5. job[t].known \subseteq issues
    BY <2>1 DEF Imports
  <2>6. QED
    BY <1>2, <1>4, <1>5, <1>6, <1>8, <1>9, <2>1, <2>2, <2>3, <2>4, <2>5 DEF Imports, data, At
<1>12. ASSUME Heard
       PROVE  Comments(t)'
  <2>1. Comments(t) /\ RunComments(job[t].errors)
    BY <1>1, <1>12, AtWork DEF Comments
  <2>2. RunComments(job[t].errors)'
    BY <1>2, <1>6, <2>1 DEF RunComments, data
  <2>3. Missing(job[t].errors) \subseteq Mentioned(job[t].errors)
    BY MissingMentioned
  <2>4. /\ job[t].map # "none" /\ (job[t].work # {} \/ job[t].inlined)
        => Pages \subseteq comments \cup job[t].work \cup Mentioned(job[t].errors)
    <3>1. CASE Passes(t)
      BY <1>11, <1>12, <2>3, <3>1, AtWork
    <3>2. CASE ~Passes(t) /\ job[t].map = "sends"
      BY <1>1, <1>10, <2>1, <3>2 DEF Comments
    <3>3. CASE job[t].map = "omits"
      BY <1>1, <3>3 DEF Shape
    <3>4. QED BY <1>1, <3>1, <3>2, <3>3 DEF JobType
  <2>5. Pages \subseteq job[t].known \cup Missing(job[t].errors)
    BY <1>11, <1>12, AtWork
  <2>6. QED
    BY <1>2, <1>4, <1>5, <1>6, <1>9, <2>1, <2>2, <2>4, <2>5 DEF Comments, data, At
<1>13. QED BY <1>1, <1>2, <1>4, <1>7, <1>8, <1>11, <1>12, GoKeeps DEF bounds

\* A page that a job asks for: what it finds there, and what it says of it.
LEMMA AtPageFacts ==
  ASSUME Inv, NEW t \in Jobs, AtPage(t)
  PROVE  /\ TypeOK /\ job[t] \in JobType /\ Shape(t) /\ Working(t) /\ job[t].pc = "pages"
         /\ job[t].phase = 5 /\ ~At(t, "mark") /\ job[t].state = "active"
         /\ Alone => Solo(t)
         /\ job[t].page \in Pages
BY AtWork, PageFacts DEF AtPage, At, Working, Shape, Pages

\* The pages from here on are reported, those before it are there or were reported.
LEMMA PageNotReadKeeps ==
  ASSUME Inv, NEW t \in Jobs, PageNotRead(t)
  PROVE  Inv'
<1> DEFINE reports == {"issues"} \X (job[t].page..LastPage)
<1>0. PICK errors \in Report(t, reports) :
        Fails(t, [[job[t] EXCEPT !.pc = "finish", !.page = 1] EXCEPT !.errors = errors])
  BY DEF PageNotRead, ReportsAndGoes
<1> DEFINE next == [job[t] EXCEPT !.pc = "finish", !.page = 1, !.errors = errors]
<1>1. /\ TypeOK /\ job[t] \in JobType /\ Shape(t) /\ Working(t) /\ job[t].pc = "pages"
      /\ job[t].phase = 5 /\ ~At(t, "mark") /\ job[t].state = "active"
  BY AtPageFacts DEF PageNotRead
<1>2. SetJob(t, next) /\ UNCHANGED <<run, data, call, calls, lost>> /\ Fault
  BY <1>0, <1>1 DEF Fails, JobType
<1>3. \A p \in Pages : p < job[t].page \/ <<"issues", p>> \in reports
  BY <1>1, PageFacts
<1>4. reports \in SUBSET Reports /\ 1 \in 1..LastPage + 1
  <2>1. job[t].page..LastPage \subseteq Pages
    BY <1>1, PageFacts DEF Pages
  <2>2. QED BY <1>1, <2>1, PageFacts DEF Reports
<1> HIDE DEF reports
<1>5. /\ errors \in SUBSET Reports /\ job[t].errors \subseteq errors
       /\ reports \subseteq errors
  BY <1>1, <1>4, Reported
<1>6. /\ next \in JobType
      /\ next.state = job[t].state /\ next.attempts = job[t].attempts
      /\ next.chosen = job[t].chosen
      /\ next.phase = job[t].phase /\ next.project = job[t].project /\ next.full = job[t].full
      /\ next.known = job[t].known /\ next.map = job[t].map
      /\ next.pc = "finish" /\ next.done = job[t].done
      /\ next.errors = errors
      /\ next.inlined = job[t].inlined /\ next.page = 1 /\ next.work = job[t].work
  BY <1>1, <1>4, <1>5 DEF JobType
<1> HIDE DEF next
<1>7. job'[t] = next
  BY <1>1, <1>2, <1>6, JobNext
<1>8. Shape(t)'
  BY <1>1, <1>2, <1>6, <1>7 DEF Shape, At, Name
<1>9. \A i \in 1..7 : Passed(t, i)' <=> Passed(t, i)
  BY <1>1, <1>6, <1>7 DEF Passed
<1>10. /\ Finished(t, 3)' /\ Finished(t, 3) /\ Finished(t, 5)' /\ ~Passed(t, 5) /\ ~Passed(t, 6)
      /\ ~Finished(t, 6)'
  BY <1>1, <1>6, <1>7 DEF Finished, Passed, At
<1>11. /\ Missing(job[t].errors) \subseteq Missing(next.errors)
       /\ Mentioned(job[t].errors) \subseteq Mentioned(next.errors)
       /\ Missing(next.errors) \subseteq Mentioned(next.errors)
       /\ \A p \in Pages : p < job[t].page \/ p \in Missing(next.errors)
  BY <1>3, <1>6, <1>5 DEF Missing, Mentioned
<1>12. /\ job'[t].chosen = job[t].chosen /\ run'.chosen = run.chosen
       /\ Missing(job[t].errors)' = Missing(next.errors)
       /\ Mentioned(job[t].errors)' = Mentioned(next.errors)
  BY <1>2, <1>6, <1>7 DEF Missing, Mentioned
<1>13. Kept => Imports(t)'
  <2>1. SUFFICES ASSUME Kept PROVE Imports(t)'
    OBVIOUS
  <2>2. Imports(t) /\ RunImports(job[t].errors) /\ job[t].chosen = run.chosen
    BY <1>1, <2>1, AtWork DEF Imports
  <2>3. RunImports(job[t].errors)'
    BY <1>2, <1>11, <1>12, <2>2 DEF RunImports, data
  <2>4. /\ Pages \subseteq job[t].known \cup Missing(next.errors)
        /\ job[t].known \subseteq issues
    BY <1>1, <1>11, <2>2 DEF Imports, At
  <2>5. \/ job[t].project = "known" /\ project = "jira"
        \/ Pages \subseteq Missing(next.errors)
    BY <1>10, <1>11, <2>2 DEF Imports
  <2>6. Pages \subseteq issues \cup Missing(next.errors) /\ job[t].project # "stale"
    BY <2>2, <2>4 DEF Imports
  <2>7. /\ job'[t].project = job[t].project /\ job'[t].known = job[t].known
        /\ issues' = issues /\ project' = project
        /\ ~At(t, "pages")' /\ ~At(t, "inline")' /\ ~Passed(t, 5)'
    BY <1>2, <1>6, <1>7, <1>9, <1>10 DEF data, At
  <2>8. QED
    BY <1>12, <2>2, <2>3, <2>4, <2>5, <2>6, <2>7 DEF Imports
<1>14. Heard => Comments(t)'
  <2>1. SUFFICES ASSUME Heard PROVE Comments(t)'
    OBVIOUS
  <2>2. Comments(t) /\ RunComments(job[t].errors) /\ Imports(t)
    BY <1>1, <2>1, AtWork DEF Comments
  <2>3. RunComments(job[t].errors)'
    BY <1>2, <1>11, <1>12, <2>2 DEF RunComments, data
  <2>4. /\ job[t].map # "none" /\ (job[t].work # {} \/ job[t].inlined)
        => Pages \subseteq comments \cup job[t].work \cup Mentioned(next.errors)
    <3>1. CASE job[t].map = "sends"
      BY <1>1, <1>11, <2>2, <3>1 DEF Comments
    <3>2. CASE job[t].map = "omits"
      BY <1>1, <3>2 DEF Shape
    <3>3. QED BY <1>1, <3>1, <3>2 DEF JobType
  <2>5. Pages \subseteq job[t].known \cup Missing(next.errors)
    BY <1>1, <1>11, <2>2 DEF Imports, At
  <2>6. QED
    BY <1>2, <1>6, <1>7, <1>10, <1>12, <2>2, <2>3, <2>4, <2>5 DEF Comments, data, At
<1>15. QED BY <1>1, <1>2, <1>6, <1>5, <1>8, <1>9, <1>13, <1>14, GoKeeps

LEMMA PageNotInsertedKeeps ==
  ASSUME Inv, NEW t \in Jobs, PageNotInserted(t)
  PROVE  Inv'
<1> DEFINE reports == {<<"issues", job[t].page>>}
<1>0. PICK errors \in Report(t, reports) :
        LET told == [job[t] EXCEPT !.pc = "inline", !.errors = errors]
        IN  Go(t, told) \/ Fails(t, told)
  BY DEF PageNotInserted
<1> DEFINE next == [job[t] EXCEPT !.pc = "inline", !.errors = errors]
<1>1. /\ TypeOK /\ job[t] \in JobType /\ Shape(t) /\ Working(t) /\ job[t].pc = "pages"
      /\ job[t].phase = 5 /\ ~At(t, "mark") /\ job[t].state = "active" /\ job[t].page \in Pages
  BY AtPageFacts DEF PageNotInserted
<1>2. SetJob(t, next) /\ UNCHANGED <<run, data, call, calls, lost>> /\ (Fault \/ faults' = faults)
  BY <1>0 DEF Fails, Go, bounds
<1>3. reports \in SUBSET Reports /\ job[t].page <= LastPage
  BY <1>1, PageFacts DEF Reports
<1>4. <<"issues", job[t].page>> \in reports
  OBVIOUS
<1> HIDE DEF reports
<1>5. /\ errors \in SUBSET Reports /\ job[t].errors \subseteq errors
       /\ reports \subseteq errors
  BY <1>1, <1>3, Reported
<1>6. /\ next \in JobType
      /\ next.state = job[t].state /\ next.attempts = job[t].attempts
      /\ next.chosen = job[t].chosen
      /\ next.phase = job[t].phase /\ next.project = job[t].project /\ next.full = job[t].full
      /\ next.known = job[t].known /\ next.map = job[t].map
      /\ next.pc = "inline" /\ next.done = job[t].done
      /\ next.errors = errors
      /\ next.inlined = job[t].inlined /\ next.page = job[t].page /\ next.work = job[t].work
  BY <1>1, <1>3, <1>5 DEF JobType
<1> HIDE DEF next
<1>7. job'[t] = next
  BY <1>1, <1>2, <1>6, JobNext
<1>8. Shape(t)'
  BY <1>1, <1>2, <1>3, <1>6, <1>7 DEF Shape, At, Name
<1>9. \A i \in 1..7 : Passed(t, i)' <=> Passed(t, i)
  BY <1>1, <1>6, <1>7 DEF Passed
<1>10. /\ Finished(t, 3)' /\ Finished(t, 3) /\ ~Finished(t, 5)' /\ ~Passed(t, 5)
      /\ ~Finished(t, 6)'
  BY <1>1, <1>6, <1>7 DEF Finished, Passed, At
<1>11. /\ Missing(job[t].errors) \subseteq Missing(next.errors)
       /\ Mentioned(job[t].errors) \subseteq Mentioned(next.errors)
       /\ job[t].page \in Missing(next.errors)
  BY <1>1, <1>4, <1>6, <1>5 DEF Missing, Mentioned
<1>12. /\ job'[t].chosen = job[t].chosen /\ run'.chosen = run.chosen
       /\ Missing(job[t].errors)' = Missing(next.errors)
       /\ Mentioned(job[t].errors)' = Mentioned(next.errors)
  BY <1>2, <1>6, <1>7 DEF Missing, Mentioned
<1>13. \A p \in Pages : p <= job[t].page => p < job[t].page \/ p = job[t].page
  BY <1>1, PageFacts
<1>14. Kept => Imports(t)'
  <2>1. SUFFICES ASSUME Kept PROVE Imports(t)'
    OBVIOUS
  <2>2. Imports(t) /\ RunImports(job[t].errors) /\ job[t].chosen = run.chosen
    BY <1>1, <2>1, AtWork DEF Imports
  <2>3. RunImports(job[t].errors)'
    BY <1>2, <1>11, <1>12, <2>2 DEF RunImports, data
  <2>4. \A p \in Pages : p <= job[t].page => p \in job[t].known \cup Missing(next.errors)
    BY <1>1, <1>11, <1>13, <2>2 DEF Imports, At
  <2>5. \/ job[t].project = "known" /\ project = "jira"
        \/ Pages \subseteq Missing(next.errors)
    BY <1>10, <1>11, <2>2 DEF Imports
  <2>6. QED
    BY <1>2, <1>6, <1>7, <1>9, <1>10, <1>12, <2>2, <2>3, <2>4, <2>5 DEF Imports, data, At
<1>15. Heard => Comments(t)'
  <2>1. SUFFICES ASSUME Heard PROVE Comments(t)'
    OBVIOUS
  <2>2. Comments(t) /\ RunComments(job[t].errors)
    BY <1>1, <2>1, AtWork DEF Comments
  <2>3. RunComments(job[t].errors)'
    BY <1>2, <1>11, <1>12, <2>2 DEF RunComments, data
  <2>4. job[t].map = "sends" => \A p \in Pages : p < job[t].page =>
           p \in comments \cup job[t].work \cup Mentioned(next.errors)
    BY <1>1, <1>11, <2>2 DEF Comments
  <2>5. QED
    BY <1>2, <1>6, <1>7, <1>10, <1>12, <2>2, <2>3, <2>4 DEF Comments, data, At
<1>16. QED BY <1>1, <1>2, <1>6, <1>5, <1>8, <1>9, <1>14, <1>15, GoKeeps

\* Comments recorded before the issues are of no issues: all pages had been reported.
LEMMA InsertKeeps ==
  ASSUME Inv, NEW t \in Jobs, InsertPage(t)
  PROVE  Inv'
<1> DEFINE keys == job[t].known \cup {job[t].page}
<1> DEFINE next == [job[t] EXCEPT !.pc = "inline", !.known = keys]
<1>1. /\ TypeOK /\ job[t] \in JobType /\ Shape(t) /\ Working(t) /\ job[t].pc = "pages"
      /\ job[t].phase = 5 /\ ~At(t, "mark") /\ job[t].state = "active" /\ job[t].page \in Pages
      /\ (Alone => Solo(t))
  BY AtPageFacts DEF InsertPage
<1>2. /\ SetJob(t, next) /\ issues' = issues \cup {job[t].page}
      /\ UNCHANGED <<run, project, comments, call, bounds, lost>>
  BY DEF InsertPage
<1>3. keys \in SUBSET Pages /\ job[t].page <= LastPage
  BY <1>1, PageFacts
<1>4. job[t].known \subseteq keys /\ job[t].page \in keys
  OBVIOUS
<1>5. job[t].known \subseteq issues => keys \subseteq issues'
  BY <1>2
<1> HIDE DEF keys
<1>6. /\ next \in JobType
      /\ next.state = job[t].state /\ next.attempts = job[t].attempts
      /\ next.chosen = job[t].chosen
      /\ next.phase = job[t].phase /\ next.project = job[t].project /\ next.full = job[t].full
      /\ next.known = keys /\ next.map = job[t].map
      /\ next.pc = "inline" /\ next.done = job[t].done /\ next.errors = job[t].errors
      /\ next.inlined = job[t].inlined /\ next.page = job[t].page /\ next.work = job[t].work
  BY <1>1, <1>3 DEF JobType
<1> HIDE DEF next
<1>7. job'[t] = next
  BY <1>1, <1>2, <1>6, JobNext
<1>8. Shape(t)'
  BY <1>1, <1>2, <1>3, <1>6, <1>7 DEF Shape, At, Name
<1>9. \A i \in 1..7 : Passed(t, i)' <=> Passed(t, i)
  BY <1>1, <1>6, <1>7 DEF Passed
<1>10. /\ Finished(t, 3)' /\ Finished(t, 3) /\ ~Finished(t, 5)' /\ ~Passed(t, 5)
       /\ ~Finished(t, 6)'
  BY <1>1, <1>6, <1>7 DEF Finished, Passed, At
<1>11. /\ job'[t].chosen = job[t].chosen /\ run' = run
       /\ Missing(job[t].errors)' = Missing(job[t].errors)
       /\ Mentioned(job[t].errors)' = Mentioned(job[t].errors)
       /\ Missing(job[t].errors) \subseteq Mentioned(job[t].errors)
  BY <1>2, <1>6, <1>7 DEF Missing, Mentioned
<1>12. \A p \in Pages : p <= job[t].page => p < job[t].page \/ p = job[t].page
  BY <1>1, PageFacts
<1>13. Alone => "issues" \notin run.done
  <2>1. Name(t) = "issues" /\ Name(t) \notin job[t].done
    BY <1>1, PhaseNames DEF Shape
  <2>2. QED BY <1>1, <1>10, <2>1, PhaseFacts DEF Solo
<1>14. Alone => /\ run'.log \subseteq next.errors
                /\ \A i \in 1..7 : Phase[i] \in run'.done => Phase[i] \in next.done \/ Passed(t, i)'
                /\ next.pc # "mark" => run'.status # "completed"
  BY <1>1, <1>2, <1>6, <1>9, PhaseFacts DEF Solo
<1>15. Kept => Imports(t)'
  <2>1. SUFFICES ASSUME Kept PROVE Imports(t)'
    OBVIOUS
  <2>2. Imports(t) /\ RunImports(job[t].errors) /\ job[t].chosen = run.chosen
    BY <1>1, <2>1, AtWork DEF Imports
  <2>3. RunImports(job[t].errors)'
    BY <1>2, <1>11, <2>2 DEF RunImports
  <2>4. \A p \in Pages : p <= job[t].page => p \in keys \cup Missing(job[t].errors)
    BY <1>1, <1>4, <1>12, <2>2 DEF Imports, At
  <2>5. keys \subseteq issues'
    BY <1>5, <2>2 DEF Imports
  <2>6. QED
    BY <1>2, <1>6, <1>7, <1>9, <1>10, <1>11, <2>2, <2>3, <2>4, <2>5 DEF Imports, At
<1>16. Heard => Comments(t)'
  <2>1. SUFFICES ASSUME Heard PROVE Comments(t)'
    OBVIOUS
  <2>2. Comments(t) /\ RunComments(job[t].errors) /\ "issues" \notin run.done
    BY <1>1, <1>13, <2>1, AtWork DEF Comments
  <2>3. RunComments(job[t].errors)'
    BY <1>1, <1>2, <1>11, <2>2 DEF RunComments
  <2>4. QED
    BY <1>1, <1>2, <1>6, <1>7, <1>10, <1>11, <2>2, <2>3 DEF Comments, At
<1>17. (Kept' <=> Kept) /\ (Heard' <=> Heard)
  BY <1>2 DEF Kept, Heard
<1>18. /\ run' \in RunType
       /\ project' \in {"none", "native", "jira"} /\ issues' \in SUBSET Pages
       /\ comments' \in SUBSET Pages /\ faults' = faults /\ UNCHANGED <<call, calls>>
       /\ lost \subseteq lost' /\ lost' \in SUBSET Losses
       /\ run.done \subseteq run'.done
  BY <1>1, <1>2 DEF TypeOK, bounds
<1>19. QED
  BY <1>1, <1>2, <1>6, <1>8, <1>14, <1>15, <1>16, <1>17, <1>18, WorkKeeps

\* The comments of a page are there, on the list or reported, and the log is written.
LEMMA FlushKeeps ==
  ASSUME Inv, NEW t \in Jobs, At(t, "inline"), NEW next \in JobType,
         next.state = job[t].state, next.attempts = job[t].attempts, next.full = job[t].full,
         next.chosen = job[t].chosen,
         next.phase = job[t].phase, next.project = job[t].project, next.done = job[t].done,
         next.known = job[t].known, next.map = job[t].map,
         next.pc = "pages", next.page = job[t].page + 1,
         job[t].work \subseteq next.work, job[t].errors \subseteq next.errors,
         next.map = "omits" => next.work = {} /\ ~next.inlined,
         SetJob(t, next), run' = [run EXCEPT !.log = next.errors],
         UNCHANGED <<project, issues, call, calls, lost>>, Fault \/ faults' = faults,
         comments' \in SUBSET Pages, comments \subseteq comments',
         Heard /\ next.map = "sends" =>
           job[t].page \in comments' \cup next.work \cup Mentioned(next.errors)
  PROVE  Inv'
<1>1. /\ TypeOK /\ job[t] \in JobType /\ Shape(t) /\ Working(t) /\ job[t].pc = "inline"
      /\ job[t].phase = 5 /\ ~At(t, "mark") /\ job[t].state = "active" /\ (Alone => Solo(t))
  BY AtWork DEF At, Working, Shape
<1>2. job'[t] = next
  BY <1>1, JobNext
<1>3. next.errors \in SUBSET Reports
  BY DEF JobType
<1>4. /\ run' \in RunType /\ run'.chosen = run.chosen
      /\ run'.log = next.errors /\ run'.done = run.done /\ run'.status = run.status
  BY <1>1, <1>3 DEF TypeOK, RunType
<1>5. Shape(t)'
  BY <1>1, <1>2, <1>4 DEF Shape, At, Name
<1>6. \A i \in 1..7 : Passed(t, i)' <=> Passed(t, i)
  BY <1>1, <1>2 DEF Passed
<1>7. /\ Finished(t, 3)' /\ Finished(t, 3) /\ ~Finished(t, 5)' /\ ~Passed(t, 5)
      /\ ~Finished(t, 6)'
  BY <1>1, <1>2 DEF Finished, Passed, At
<1>8. /\ Missing(job[t].errors) \subseteq Missing(next.errors)
      /\ Mentioned(job[t].errors) \subseteq Mentioned(next.errors)
  BY MoreMessages
<1>9. /\ job'[t].chosen = job[t].chosen /\ run'.chosen = run.chosen
      /\ Missing(job[t].errors)' = Missing(next.errors)
      /\ Mentioned(job[t].errors)' = Mentioned(next.errors)
  BY <1>2, <1>4 DEF Missing, Mentioned
<1>10. \A p \in Pages : p < next.page => p <= job[t].page
  BY <1>1, PageFacts
<1>11. \A p \in Pages : p <= job[t].page => p < job[t].page \/ p = job[t].page
  BY <1>1, PageFacts
<1>12. Alone => /\ run'.log \subseteq next.errors
                /\ \A i \in 1..7 : Phase[i] \in run'.done => Phase[i] \in next.done \/ Passed(t, i)'
                /\ next.pc # "mark" => run'.status # "completed"
  BY <1>1, <1>4, <1>6, PhaseFacts DEF Solo
<1>13. Kept => Imports(t)'
  <2>1. SUFFICES ASSUME Kept PROVE Imports(t)'
    OBVIOUS
  <2>2. Imports(t) /\ RunImports(job[t].errors) /\ job[t].chosen = run.chosen
    BY <1>1, <2>1, AtWork DEF Imports
  <2>3. RunImports(job[t].errors)'
    BY <1>4, <1>8, <1>9, <2>2 DEF RunImports
  <2>4. \A p \in Pages : p < next.page => p \in job[t].known \cup Missing(next.errors)
    BY <1>1, <1>8, <1>10, <2>2 DEF Imports, At
  <2>5. \/ job[t].project = "known" /\ project = "jira"
        \/ Pages \subseteq Missing(next.errors)
    BY <1>7, <1>8, <2>2 DEF Imports
  <2>6. job[t].project # "stale" /\ job[t].known \subseteq issues
    BY <2>2 DEF Imports
  <2>7. QED
    BY <1>2, <1>6, <1>7, <1>9, <2>2, <2>3, <2>4, <2>5, <2>6 DEF Imports, At
<1>14. Heard => Comments(t)'
  <2>1. SUFFICES ASSUME Heard PROVE Comments(t)'
    OBVIOUS
  <2>2. Comments(t) /\ RunComments(job[t].errors)
    BY <1>1, <2>1, AtWork DEF Comments
  <2>3. RunComments(job[t].errors)'
    BY <1>4, <1>8, <1>9, <2>2 DEF RunComments
  <2>4. next.map = "sends" => \A p \in Pages : p < next.page =>
           p \in comments' \cup next.work \cup Mentioned(next.errors)
    BY <1>1, <1>8, <1>10, <1>11, <2>1, <2>2 DEF Comments
  <2>5. QED
    BY <1>2, <1>7, <1>9, <2>3, <2>4 DEF Comments, At
<1>15. (Kept' <=> Kept) /\ (Heard' <=> Heard)
  BY DEF Kept, Heard
<1>16. /\ project' \in {"none", "native", "jira"} /\ issues' \in SUBSET Pages
       /\ lost \subseteq lost' /\ lost' \in SUBSET Losses
  BY <1>1 DEF TypeOK
<1>17. QED
  BY <1>1, <1>4, <1>5, <1>12, <1>13, <1>14, <1>15, <1>16, WorkKeeps

\* The job behind a page.
Flushed(t, inlined, work, errors) ==
  [job[t] EXCEPT !.inlined = inlined, !.work = work, !.errors = errors, !.pc = "pages",
                 !.page = @ + 1]

LEMMA FlushedFields ==
  ASSUME NEW t \in Jobs, job[t] \in JobType, job[t].page + 1 \in 1..LastPage + 1,
         NEW inlined \in BOOLEAN, NEW work \in SUBSET Pages, NEW errors \in SUBSET Reports
  PROVE  LET next == Flushed(t, inlined, work, errors) IN
         /\ next \in JobType
         /\ next.state = job[t].state /\ next.attempts = job[t].attempts
         /\ next.chosen = job[t].chosen
         /\ next.full = job[t].full /\ next.phase = job[t].phase
         /\ next.project = job[t].project /\ next.done = job[t].done
         /\ next.known = job[t].known /\ next.map = job[t].map
         /\ next.pc = "pages" /\ next.page = job[t].page + 1
         /\ next.work = work /\ next.errors = errors /\ next.inlined = inlined
<1> DEFINE further == job[t].page + 1
<1> DEFINE next == [job[t] EXCEPT !.inlined = inlined, !.work = work, !.errors = errors,
                                  !.pc = "pages", !.page = further]
<1>1. Flushed(t, inlined, work, errors) = next /\ further = job[t].page + 1
  BY DEF Flushed, JobType
<1>2. further \in 1..LastPage + 1
  OBVIOUS
<1> HIDE DEF further
<1>3. next \in JobType
  BY <1>2 DEF JobType
<1>4. /\ next.state = job[t].state /\ next.attempts = job[t].attempts
      /\ next.chosen = job[t].chosen
      /\ next.full = job[t].full /\ next.phase = job[t].phase
      /\ next.project = job[t].project /\ next.done = job[t].done
      /\ next.known = job[t].known /\ next.map = job[t].map
      /\ next.pc = "pages" /\ next.page = further
      /\ next.work = work /\ next.errors = errors /\ next.inlined = inlined
  BY DEF JobType
<1> HIDE DEF next
<1>5. QED BY <1>1, <1>3, <1>4

LEMMA InlineKeeps ==
  ASSUME Inv, NEW t \in Jobs, InlineComments(t) \/ InlineNotInserted(t) \/ NoInline(t)
  PROVE  Inv'
<1>1. /\ TypeOK /\ job[t] \in JobType /\ Shape(t) /\ Working(t) /\ job[t].pc = "inline"
      /\ At(t, "inline") /\ job[t].page \in Pages /\ job[t].page + 1 \in 1..LastPage + 1
  <2>1. At(t, "inline")
    BY DEF InlineComments, InlineNotInserted, NoInline
  <2>2. job[t] \in JobType /\ Shape(t)
    BY AtWork
  <2>3. job[t].page <= LastPage
    BY <2>1, <2>2 DEF Shape
  <2>4. QED BY <2>1, <2>2, <2>3, AtWork, PageFacts DEF At, Working, Pages
<1>2. job[t].work \in SUBSET Pages /\ job[t].errors \in SUBSET Reports /\ job[t].inlined \in BOOLEAN
  BY <1>1 DEF JobType
<1>3. CASE InlineComments(t)
  <2>1. PICK work \in {{}, {job[t].page}} :
          /\ comments' = IF work = {} THEN comments \cup {job[t].page} ELSE comments
          /\ Flush(t, Told(t, work))
    BY <1>3 DEF InlineComments
  <2> DEFINE came == TRUE
  <2> DEFINE list == job[t].work \cup work
  <2> DEFINE next == Flushed(t, came, list, job[t].errors)
  <2>2. [Told(t, work) EXCEPT !.pc = "pages", !.page = @ + 1] = next
    BY <1>1 DEF Told, Flushed, JobType
  <2>3. Told(t, work).errors = job[t].errors
    BY <1>1 DEF Told, JobType
  <2>4. came \in BOOLEAN /\ list \in SUBSET Pages /\ job[t].work \subseteq list /\ work \subseteq list
    BY <1>1, <1>2
  <2>5. job[t].page \in comments' \cup list
    BY <2>1
  <2> HIDE DEF came, list
  <2>6. /\ next \in JobType
        /\ next.state = job[t].state /\ next.attempts = job[t].attempts
        /\ next.chosen = job[t].chosen
        /\ next.full = job[t].full /\ next.phase = job[t].phase
        /\ next.project = job[t].project /\ next.done = job[t].done
        /\ next.known = job[t].known /\ next.map = job[t].map
        /\ next.pc = "pages" /\ next.page = job[t].page + 1
        /\ next.work = list /\ next.errors = job[t].errors
    BY <1>1, <1>2, <2>4, FlushedFields
  <2>7. SetJob(t, next) /\ run' = [run EXCEPT !.log = next.errors]
        /\ UNCHANGED <<project, issues, call, calls, lost>>
    BY <2>1, <2>2, <2>3, <2>6 DEF Flush
  <2> HIDE DEF next
  <2>8. job[t].map = "sends" /\ faults' = faults
    BY <1>3 DEF InlineComments, Sent
  <2>9. comments' \in SUBSET Pages /\ comments \subseteq comments'
    BY <1>1, <2>1 DEF TypeOK
  <2>10. QED BY <1>1, <2>4, <2>5, <2>6, <2>7, <2>8, <2>9, FlushKeeps
<1>4. CASE InlineNotInserted(t)
  <2> DEFINE reports == {<<"comments", job[t].page>>}
  <2>1. PICK work \in {{}, {job[t].page}}, messages \in Report(t, reports) :
          Flush(t, [Told(t, work) EXCEPT !.errors = messages])
    BY <1>4 DEF InlineNotInserted
  <2> DEFINE came == TRUE
  <2> DEFINE list == job[t].work \cup work
  <2> DEFINE told == [Told(t, work) EXCEPT !.errors = messages]
  <2> DEFINE next == Flushed(t, came, list, messages)
  <2>2. [told EXCEPT !.pc = "pages", !.page = @ + 1] = next
    BY <1>1 DEF Told, Flushed, JobType
  <2>3. told.errors = messages
    BY <1>1 DEF Told, JobType
  <2>4. came \in BOOLEAN /\ list \in SUBSET Pages /\ job[t].work \subseteq list
    BY <1>1, <1>2
  <2>5. /\ messages \in SUBSET Reports /\ job[t].errors \subseteq messages
        /\ job[t].page \in Mentioned(messages)
    <3>1. reports \in SUBSET Reports
      BY <1>1 DEF Reports
    <3>2. messages \in SUBSET Reports /\ job[t].errors \subseteq messages /\ reports \subseteq messages
      BY <1>1, <3>1, Reported
    <3>3. QED BY <1>1, <3>2 DEF Mentioned
  <2> HIDE DEF came, list
  <2>6. /\ next \in JobType
        /\ next.state = job[t].state /\ next.attempts = job[t].attempts
        /\ next.chosen = job[t].chosen
        /\ next.full = job[t].full /\ next.phase = job[t].phase
        /\ next.project = job[t].project /\ next.done = job[t].done
        /\ next.known = job[t].known /\ next.map = job[t].map
        /\ next.pc = "pages" /\ next.page = job[t].page + 1
        /\ next.work = list /\ next.errors = messages
    BY <1>1, <1>2, <2>4, <2>5, FlushedFields
  <2>7. SetJob(t, next) /\ run' = [run EXCEPT !.log = next.errors]
        /\ UNCHANGED <<project, issues, call, calls, lost>>
    BY <2>1, <2>2, <2>3, <2>6 DEF Flush
  <2> HIDE DEF next
  <2>8. job[t].map = "sends" /\ (Fault \/ faults' = faults)
    BY <1>4 DEF InlineNotInserted, Sent
  <2>9. comments' \in SUBSET Pages /\ comments \subseteq comments'
    BY <1>1, <1>4 DEF TypeOK, InlineNotInserted
  <2>10. QED BY <1>1, <2>4, <2>5, <2>6, <2>7, <2>8, <2>9, FlushKeeps
<1>5. CASE NoInline(t)
  <2> DEFINE next == Flushed(t, job[t].inlined, job[t].work, job[t].errors)
  <2>1. [job[t] EXCEPT !.pc = "pages", !.page = @ + 1] = next
    BY <1>1 DEF Flushed, JobType
  <2>2. /\ next \in JobType
        /\ next.state = job[t].state /\ next.attempts = job[t].attempts
        /\ next.chosen = job[t].chosen
        /\ next.full = job[t].full /\ next.phase = job[t].phase
        /\ next.project = job[t].project /\ next.done = job[t].done
        /\ next.known = job[t].known /\ next.map = job[t].map
        /\ next.pc = "pages" /\ next.page = job[t].page + 1 /\ next.inlined = job[t].inlined
        /\ next.work = job[t].work /\ next.errors = job[t].errors
    BY <1>1, <1>2, FlushedFields
  <2>3. SetJob(t, next) /\ run' = [run EXCEPT !.log = next.errors]
        /\ UNCHANGED <<project, issues, call, calls, lost>>
    BY <1>5, <2>1, <2>2 DEF NoInline, Flush
  <2> HIDE DEF next
  <2>4. job[t].map = "omits" => job[t].work = {} /\ ~job[t].inlined
    BY <1>1 DEF Shape
  <2>5. Heard /\ job[t].map = "sends" => job[t].page \in Mentioned(job[t].errors)
    <3>1. job[t].map = "sends" => job[t].page \notin job[t].known
      BY <1>5 DEF NoInline, Sent
    <3>2. job[t].page <= job[t].page
      BY <1>1, PageFacts
    <3>3. Heard => job[t].page \in job[t].known \cup Missing(job[t].errors)
      BY <1>1, <3>2, AtWork DEF Imports
    <3>4. QED BY <3>1, <3>3, MissingMentioned
  <2>6. comments' = comments /\ faults' = faults /\ comments \in SUBSET Pages
    BY <1>1, <1>5 DEF TypeOK, NoInline
  <2>7. QED BY <1>1, <2>2, <2>3, <2>4, <2>5, <2>6, FlushKeeps
<1>6. QED BY <1>3, <1>4, <1>5

\* A page is taken from the list: its comments are there or reported, or Jira was silent.
LEMMA FetchKeeps ==
  ASSUME Inv, NEW t \in Jobs, At(t, "fetch"), NEW p \in job[t].work, NEW errors \in SUBSET Reports,
         job[t].errors \subseteq errors,
         SetJob(t, [job[t] EXCEPT !.errors = errors, !.work = @ \ {p}]),
         UNCHANGED <<run, project, issues, call, calls>>, Fault \/ faults' = faults,
         comments' \in SUBSET Pages, comments \subseteq comments',
         lost' \in {lost, lost \cup {"silent"}},
         Heard' => p \in comments' \cup Mentioned(errors)
  PROVE  Inv'
<1> DEFINE list == job[t].work \ {p}
<1> DEFINE next == [job[t] EXCEPT !.errors = errors, !.work = list]
<1>1. /\ TypeOK /\ job[t] \in JobType /\ Shape(t) /\ Working(t) /\ job[t].pc = "fetch"
      /\ job[t].phase = 6 /\ (Alone => Solo(t))
  BY AtWork DEF At, Working, Shape
<1>2. SetJob(t, next) /\ list \in SUBSET Pages /\ job[t].work \subseteq list \cup {p}
  BY <1>1 DEF JobType
<1> HIDE DEF list
<1>3. /\ next \in JobType
      /\ next.state = job[t].state /\ next.attempts = job[t].attempts
      /\ next.chosen = job[t].chosen
      /\ next.phase = job[t].phase /\ next.project = job[t].project /\ next.full = job[t].full
      /\ next.known = job[t].known /\ next.map = job[t].map
      /\ next.pc = "fetch" /\ next.done = job[t].done /\ next.errors = errors
      /\ next.inlined = job[t].inlined /\ next.page = job[t].page /\ next.work = list
  BY <1>1, <1>2 DEF JobType
<1> HIDE DEF next
<1>4. job'[t] = next
  BY <1>1, <1>2, <1>3, JobNext
<1>5. Shape(t)'
  BY <1>1, <1>3, <1>4 DEF Shape, At, Name
<1>6. \A i \in 1..7 : (Passed(t, i)' <=> Passed(t, i)) /\ (Finished(t, i)' <=> Finished(t, i))
  BY <1>1, <1>3, <1>4 DEF Passed, Finished, At
<1>7. Finished(t, 5) /\ ~Passed(t, 6) /\ ~Finished(t, 6)
  BY <1>1 DEF Passed, Finished, At
<1>8. Missing(job[t].errors) \subseteq Missing(errors) /\ Mentioned(job[t].errors) \subseteq Mentioned(errors)
  BY MoreMessages
<1>9. /\ job'[t].chosen = job[t].chosen /\ run'.chosen = run.chosen
      /\ Missing(job[t].errors)' = Missing(errors) /\ Mentioned(job[t].errors)' = Mentioned(errors)
  BY <1>3, <1>4 DEF Missing, Mentioned
<1>10. Alone => /\ run'.log \subseteq next.errors
                /\ \A i \in 1..7 : Phase[i] \in run'.done => Phase[i] \in next.done \/ Passed(t, i)'
                /\ next.pc # "mark" => run'.status # "completed"
  BY <1>1, <1>3, <1>6, PhaseFacts DEF Solo, At
<1>11. Kept => Imports(t)'
  <2>1. SUFFICES ASSUME Kept PROVE Imports(t)'
    OBVIOUS
  <2>2. Imports(t) /\ RunImports(job[t].errors) /\ job[t].chosen = run.chosen
    BY <1>1, <2>1, AtWork DEF Imports
  <2>3. RunImports(job[t].errors)'
    BY <1>8, <1>9, <2>2 DEF RunImports
  <2>4. ~At(t, "pages")' /\ ~At(t, "inline")'
    BY <1>3, <1>4 DEF At
  <2>5. job'[t].project = job[t].project /\ job'[t].known = job[t].known
    BY <1>3, <1>4
  <2>6. QED
    BY <1>6, <1>8, <1>9, <2>2, <2>3, <2>4, <2>5 DEF Imports
<1>12. ASSUME Heard'
       PROVE  Comments(t)'
  <2>1. Heard
    BY <1>12 DEF Heard
  <2>2. Comments(t) /\ RunComments(job[t].errors)
    BY <1>1, <2>1, AtWork DEF Comments
  <2>3. RunComments(job[t].errors)'
    BY <1>8, <1>9, <2>2 DEF RunComments
  <2>4. Pages \subseteq comments \cup job[t].work \cup Mentioned(job[t].errors)
    BY <1>1, <2>2 DEF Comments, At
  <2>5. Pages \subseteq comments' \cup list \cup Mentioned(errors)
    BY <1>2, <1>8, <1>12, <2>4
  <2>6. Pages \subseteq job[t].known \cup Missing(errors) /\ job'[t].known = job[t].known
    BY <1>3, <1>4, <1>7, <1>8, <2>2 DEF Comments
  <2>7. QED
    BY <1>3, <1>4, <1>6, <1>7, <1>9, <2>3, <2>5, <2>6 DEF Comments, At
<1>13. Kept' <=> Kept
  BY DEF Kept
<1>14. /\ run' \in RunType
       /\ project' \in {"none", "native", "jira"} /\ issues' \in SUBSET Pages
       /\ lost \subseteq lost' /\ lost' \in SUBSET Losses
       /\ run.done \subseteq run'.done
  BY <1>1 DEF TypeOK, Losses
<1>15. QED
  BY <1>1, <1>2, <1>3, <1>5, <1>10, <1>11, <1>12, <1>13, <1>14, WorkKeeps

LEMMA FetchSteps ==
  ASSUME Inv, NEW t \in Jobs,
         FetchComments(t) \/ CommentsNotInserted(t) \/ CommentsNotRead(t)
  PROVE  Inv'
<1>1. /\ TypeOK /\ job[t] \in JobType /\ At(t, "fetch") /\ job[t].errors \in SUBSET Reports
      /\ comments \in SUBSET Pages /\ job[t].work \in SUBSET Pages
  BY AtWork, PageFacts DEF FetchComments, CommentsNotInserted, CommentsNotRead, TypeOK
<1>2. \A p \in job[t].work :
        [job[t] EXCEPT !.work = @ \ {p}] = [job[t] EXCEPT !.errors = job[t].errors, !.work = @ \ {p}]
  BY <1>1 DEF JobType
<1>3. CASE FetchComments(t)
  <2>1. PICK p \in job[t].work :
          comments' = comments \cup {p} /\ SetJob(t, [job[t] EXCEPT !.work = @ \ {p}])
    BY <1>3 DEF FetchComments
  <2>2. SetJob(t, [job[t] EXCEPT !.errors = job[t].errors, !.work = @ \ {p}])
    BY <1>2, <2>1
  <2>3. UNCHANGED <<run, project, issues, call, bounds, lost>>
    BY <1>3 DEF FetchComments
  <2>4. comments' \in SUBSET Pages /\ comments \subseteq comments' /\ p \in comments'
    BY <1>1, <2>1
  <2>5. QED BY <1>1, <2>2, <2>3, <2>4, FetchKeeps DEF bounds
<1>4. CASE CommentsNotInserted(t)
  <2>1. PICK p \in job[t].work : \E errors \in Report(t, {<<"comments", p>>}) :
          LET next == [job[t] EXCEPT !.work = @ \ {p}, !.errors = errors]
          IN  Fails(t, next) \/ Go(t, next)
    BY <1>4 DEF CommentsNotInserted
  <2> DEFINE reports == {<<"comments", p>>}
  <2>2. PICK errors \in Report(t, reports) :
          LET next == [job[t] EXCEPT !.work = @ \ {p}, !.errors = errors]
          IN  Fails(t, next) \/ Go(t, next)
    BY <2>1
  <2>3. /\ errors \in SUBSET Reports /\ job[t].errors \subseteq errors /\ p \in Mentioned(errors)
    <3>1. reports \in SUBSET Reports
      BY <1>1 DEF Reports
    <3>2. errors \in SUBSET Reports /\ job[t].errors \subseteq errors /\ reports \subseteq errors
      BY <1>1, <3>1, Reported
    <3>3. QED BY <1>1, <3>2 DEF Mentioned
  <2> HIDE DEF reports
  <2>4. /\ SetJob(t, [job[t] EXCEPT !.errors = errors, !.work = @ \ {p}])
        /\ UNCHANGED <<run, data, call, calls, lost>> /\ (Fault \/ faults' = faults)
    BY <1>1, <2>2 DEF Fails, Go, bounds, JobType
  <2>5. QED BY <1>1, <2>3, <2>4, FetchKeeps DEF data
<1>5. CASE CommentsNotRead(t)
  <2>1. PICK p \in job[t].work : SetJob(t, [job[t] EXCEPT !.work = @ \ {p}])
    BY <1>5 DEF CommentsNotRead
  <2>2. SetJob(t, [job[t] EXCEPT !.errors = job[t].errors, !.work = @ \ {p}])
    BY <1>2, <2>1
  <2>3. /\ UNCHANGED <<run, data, call, calls>> /\ Fault /\ lost' = lost \cup {"silent"}
    BY <1>5 DEF CommentsNotRead
  <2>4. ~Heard'
    BY <2>3 DEF Heard
  <2>5. QED BY <1>1, <2>2, <2>3, <2>4, FetchKeeps DEF data
<1>6. QED BY <1>3, <1>4, <1>5

LEMMA CommentsDoneKeeps ==
  ASSUME Inv, NEW t \in Jobs, CommentsDone(t)
  PROVE  Inv'
<1> DEFINE next == [job[t] EXCEPT !.pc = "finish"]
<1>1. /\ TypeOK /\ job[t] \in JobType /\ Shape(t) /\ Working(t) /\ job[t].pc = "fetch"
      /\ job[t].phase = 6 /\ ~At(t, "mark") /\ job[t].work = {}
  BY AtWork DEF CommentsDone, At, Working, Shape
<1>2. SetJob(t, next) /\ UNCHANGED <<run, data, call, bounds, lost>>
  BY DEF CommentsDone, GoTo, Go
<1>3. /\ next \in JobType
      /\ next.state = job[t].state /\ next.attempts = job[t].attempts
      /\ next.chosen = job[t].chosen
      /\ next.phase = job[t].phase /\ next.project = job[t].project /\ next.full = job[t].full
      /\ next.known = job[t].known /\ next.map = job[t].map
      /\ next.pc = "finish" /\ next.done = job[t].done /\ next.errors = job[t].errors
      /\ next.inlined = job[t].inlined /\ next.page = job[t].page /\ next.work = {}
  BY <1>1 DEF JobType
<1> HIDE DEF next
<1>4. job'[t] = next
  BY <1>1, <1>2, <1>3, JobNext
<1>5. Shape(t)'
  BY <1>1, <1>2, <1>3, <1>4 DEF Shape, At, Name
<1>6. \A i \in 1..7 : Passed(t, i)' <=> Passed(t, i)
  BY <1>1, <1>3, <1>4 DEF Passed
<1>7. Finished(t, 3) /\ Finished(t, 5)
  BY <1>1 DEF Passed, Finished, At
<1>8. /\ job'[t].chosen = job[t].chosen /\ run'.chosen = run.chosen
      /\ Missing(job[t].errors)' = Missing(job[t].errors)
      /\ Mentioned(job[t].errors)' = Mentioned(job[t].errors)
  BY <1>2, <1>3, <1>4 DEF Missing, Mentioned
<1>9. issues \subseteq Pages
  BY <1>1 DEF TypeOK
<1>10. Kept => Imports(t)'
  <2>1. SUFFICES ASSUME Kept PROVE Imports(t)'
    OBVIOUS
  <2>2. Imports(t) /\ RunImports(job[t].errors) /\ job[t].chosen = run.chosen
    BY <1>1, <2>1, AtWork DEF Imports
  <2>3. RunImports(job[t].errors)'
    BY <1>2, <1>8, <2>2 DEF RunImports, data
  <2>4. /\ ~At(t, "pages")' /\ ~At(t, "inline")'
        /\ job'[t].project = job[t].project /\ job'[t].known = job[t].known
        /\ run' = run /\ issues' = issues /\ project' = project
    BY <1>2, <1>3, <1>4 DEF At, data
  <2>5. QED BY <1>6, <1>7, <1>8, <2>2, <2>3, <2>4 DEF Imports
<1>11. Heard => Comments(t)'
  <2>1. SUFFICES ASSUME Heard PROVE Comments(t)'
    OBVIOUS
  <2>2. Comments(t) /\ RunComments(job[t].errors)
    BY <1>1, <2>1, AtWork DEF Comments
  <2>3. RunComments(job[t].errors)'
    BY <1>2, <1>8, <2>2 DEF RunComments, data
  <2>4. Pages \subseteq comments \cup Mentioned(job[t].errors)
    BY <1>1, <2>2 DEF Comments, At
  <2>5. QED
    BY <1>2, <1>3, <1>4, <1>6, <1>7, <1>8, <1>9, <2>2, <2>3, <2>4 DEF Comments, At, data
<1>12. QED BY <1>1, <1>2, <1>3, <1>5, <1>6, <1>10, <1>11, GoKeeps DEF bounds

\* A phase records itself: what the record promises is what the job has established.
LEMMA FinishKeeps ==
  ASSUME Inv, NEW t \in Jobs, FinishPhase(t)
  PROVE  Inv'
<1> DEFINE next == [job[t] EXCEPT !.pc = "check"]
<1>1. /\ TypeOK /\ job[t] \in JobType /\ Shape(t) /\ Working(t) /\ job[t].pc = "finish"
      /\ job[t].phase \in 1..7 /\ ~At(t, "mark") /\ (Alone => Solo(t))
  BY AtWork DEF FinishPhase, At, Working
<1>2. SetJob(t, next) /\ UNCHANGED <<data, call, bounds, lost>>
  BY DEF FinishPhase
<1>3. /\ next \in JobType
      /\ next.state = job[t].state /\ next.attempts = job[t].attempts
      /\ next.chosen = job[t].chosen
      /\ next.phase = job[t].phase /\ next.project = job[t].project /\ next.full = job[t].full
      /\ next.known = job[t].known /\ next.map = job[t].map
      /\ next.pc = "check" /\ next.done = job[t].done /\ next.errors = job[t].errors
      /\ next.inlined = job[t].inlined /\ next.page = job[t].page /\ next.work = job[t].work
  BY <1>1 DEF JobType
<1> HIDE DEF next
<1>4. job'[t] = next
  BY <1>1, <1>2, <1>3, JobNext
<1>5. job[t].errors \in SUBSET Reports /\ Name(t) \in Phases
  BY <1>1, PhaseNames DEF JobType
<1>6. /\ run' \in RunType /\ run'.chosen = run.chosen
      /\ run'.log \in {run.log, job[t].errors} /\ run'.status = run.status
      /\ run.done \subseteq run'.done /\ run'.done \subseteq run.done \cup {Name(t)}
      /\ Name(t) # "sync" => Name(t) \in run'.done
  BY <1>1, <1>5 DEF FinishPhase, TypeOK, RunType
<1>7. /\ Name(t) = "sync" <=> job[t].phase = 2
      /\ Name(t) = "projects" <=> job[t].phase = 3
      /\ Name(t) = "issues" <=> job[t].phase = 5
      /\ Name(t) = "comments" <=> job[t].phase = 6
  BY <1>1, PhaseNames
<1>8. Shape(t)'
  BY <1>1, <1>3, <1>4, <1>6 DEF Shape, At
<1>9. /\ \A i \in 1..7 : Passed(t, i)' <=> Passed(t, i) \/ job[t].phase = i
      /\ \A i \in 1..7 : Finished(t, i)' <=> Finished(t, i)
      /\ \A i \in 1..7 : job[t].phase = i => Finished(t, i)
      /\ \A i \in 1..7 : Passed(t, i) => Finished(t, i)
  BY <1>1, <1>3, <1>4 DEF Passed, Finished, At
<1>10. \A i \in 1..7 : Phase[i] = Name(t) => i = job[t].phase
  BY <1>1, PhaseFacts DEF Name
<1>11. Alone => /\ run'.log \subseteq next.errors
                /\ \A i \in 1..7 : Phase[i] \in run'.done => Phase[i] \in next.done \/ Passed(t, i)'
                /\ next.pc # "mark" => run'.status # "completed"
  BY <1>1, <1>3, <1>6, <1>9, <1>10, PhaseFacts DEF Solo
<1>12. /\ job'[t].chosen = job[t].chosen /\ run'.chosen = run.chosen
       /\ Missing(job[t].errors)' = Missing(job[t].errors)
       /\ Mentioned(job[t].errors)' = Mentioned(job[t].errors)
  BY <1>3, <1>4, <1>6 DEF Missing, Mentioned
<1>13. Kept => Imports(t)'
  <2>1. SUFFICES ASSUME Kept PROVE Imports(t)'
    OBVIOUS
  <2>2. Imports(t) /\ RunImports(job[t].errors) /\ job[t].chosen = run.chosen
    BY <1>1, <2>1, AtWork DEF Imports
  <2>3. /\ job[t].phase = 3 => project = "jira" \/ Pages \subseteq Missing(job[t].errors)
        /\ job[t].phase = 5 => Pages \subseteq issues \cup Missing(job[t].errors)
    BY <1>9, <2>2 DEF Imports
  <2>4. RunImports(job[t].errors)'
    BY <1>2, <1>6, <1>7, <1>12, <2>2, <2>3 DEF RunImports, data
  <2>5. /\ ~At(t, "pages")' /\ ~At(t, "inline")'
        /\ job'[t].project = job[t].project /\ job'[t].known = job[t].known
        /\ issues' = issues /\ project' = project
    BY <1>2, <1>3, <1>4 DEF At, data
  <2>6. Passed(t, 5)' => "issues" \in run'.done \/ Pages \subseteq Missing(job[t].errors)
    BY <1>6, <1>7, <1>9, <2>2 DEF Imports
  <2>7. QED
    BY <1>9, <1>12, <2>2, <2>4, <2>5, <2>6 DEF Imports
<1>14. Heard => Comments(t)'
  <2>1. SUFFICES ASSUME Heard PROVE Comments(t)'
    OBVIOUS
  <2>2. Comments(t) /\ RunComments(job[t].errors) /\ Imports(t)
    BY <1>1, <2>1, AtWork DEF Comments
  <2>3. job[t].phase = 6 => Passed(t, 5)
    BY DEF Passed
  <2>4. job[t].phase = 6 => /\ "issues" \in run.done \/ Pages \subseteq Missing(job[t].errors)
                            /\ issues \subseteq comments \cup Mentioned(job[t].errors)
    BY <1>9, <2>2, <2>3 DEF Comments, Imports
  <2>5. RunComments(job[t].errors)'
    BY <1>2, <1>6, <1>7, <1>12, <2>2, <2>4 DEF RunComments, data
  <2>6. /\ ~At(t, "fetch")' /\ job'[t].pc \notin {"pages", "inline"}
        /\ job'[t].map = job[t].map /\ job'[t].work = job[t].work
        /\ job'[t].inlined = job[t].inlined
        /\ issues' = issues /\ comments' = comments /\ job'[t].known = job[t].known
    BY <1>2, <1>3, <1>4 DEF At, data
  <2>7. QED
    BY <1>9, <1>12, <2>2, <2>5, <2>6 DEF Comments
<1>15. (Kept' <=> Kept) /\ (Heard' <=> Heard)
  BY <1>2 DEF Kept, Heard
<1>16. /\ project' \in {"none", "native", "jira"} /\ issues' \in SUBSET Pages
       /\ comments' \in SUBSET Pages /\ faults' = faults /\ UNCHANGED <<call, calls>>
       /\ lost \subseteq lost' /\ lost' \in SUBSET Losses
  BY <1>1, <1>2 DEF TypeOK, data, bounds
<1>17. QED
  BY <1>1, <1>2, <1>3, <1>6, <1>8, <1>11, <1>13, <1>14, <1>15, <1>16, WorkKeeps

\* A phase begins again, ...
LEMMA TryAgainKeeps ==
  ASSUME Inv, NEW t \in Jobs,
         job[t].pc \in {"phase", "create", "pages", "inline", "fetch", "finish"},
         job[t].tries < PhaseTries,
         ReportsAndGoes(t, {}, [job[t] EXCEPT !.pc = "phase", !.tries = @ + 1])
  PROVE  Inv'
<1> DEFINE tries == job[t].tries + 1
<1>0. PICK errors \in Report(t, {}) :
        Fails(t, [[job[t] EXCEPT !.pc = "phase", !.tries = @ + 1] EXCEPT !.errors = errors])
  BY DEF ReportsAndGoes
<1> DEFINE next == [job[t] EXCEPT !.pc = "phase", !.tries = tries, !.errors = errors]
<1>1. /\ TypeOK /\ job[t] \in JobType /\ Shape(t) /\ Working(t) /\ ~At(t, "mark")
      /\ job[t].phase \in 1..7 /\ job[t].tries \in 1..PhaseTries
  BY AtWork DEF At, Working, JobType
<1>2. tries \in 1..PhaseTries
  BY <1>1, ConstantsAssumption
<1>3. SetJob(t, next) /\ UNCHANGED <<run, data, call, calls, lost>> /\ Fault
  BY <1>0, <1>1 DEF Fails, JobType
<1> HIDE DEF tries
<1>4. errors \in SUBSET Reports /\ job[t].errors \subseteq errors
  BY <1>1, Reported
<1>5. /\ next \in JobType
      /\ next.state = job[t].state /\ next.attempts = job[t].attempts
      /\ next.chosen = job[t].chosen
      /\ next.phase = job[t].phase /\ next.project = job[t].project /\ next.full = job[t].full
      /\ next.known = job[t].known /\ next.map = job[t].map
      /\ next.pc = "phase" /\ next.done = job[t].done /\ next.errors = errors
      /\ next.inlined = job[t].inlined /\ next.page = job[t].page /\ next.work = job[t].work
  BY <1>1, <1>2, <1>4 DEF JobType
<1> HIDE DEF next
<1>6. job'[t] = next
  BY <1>1, <1>3, <1>5, JobNext
<1>7. Shape(t)'
  BY <1>1, <1>3, <1>5, <1>6 DEF Shape, At
<1>8. /\ \A i \in 1..7 : Passed(t, i)' <=> Passed(t, i)
      /\ \A i \in 1..7 : Finished(t, i)' => Finished(t, i)
  BY <1>1, <1>5, <1>6 DEF Passed, Finished, At
<1>9. /\ job'[t].chosen = job[t].chosen /\ run'.chosen = run.chosen
      /\ Missing(job[t].errors)' = Missing(errors)
      /\ Mentioned(job[t].errors)' = Mentioned(errors)
      /\ Missing(job[t].errors) \subseteq Missing(errors)
      /\ Mentioned(job[t].errors) \subseteq Mentioned(errors)
  BY <1>3, <1>4, <1>5, <1>6, MoreMessages DEF Missing, Mentioned
<1>10. /\ ~At(t, "pages")' /\ ~At(t, "inline")' /\ ~At(t, "fetch")'
      /\ job'[t].pc \notin {"pages", "inline"}
      /\ job'[t].project = job[t].project /\ job'[t].known = job[t].known
      /\ job'[t].map = job[t].map /\ job'[t].work = job[t].work
      /\ job'[t].inlined = job[t].inlined
      /\ run' = run /\ issues' = issues /\ comments' = comments /\ project' = project
  BY <1>3, <1>5, <1>6 DEF At, data
<1>11. Kept => Imports(t)'
  <2>1. SUFFICES ASSUME Kept PROVE Imports(t)'
    OBVIOUS
  <2>2. Imports(t) /\ RunImports(job[t].errors) /\ job[t].chosen = run.chosen
    BY <1>1, <2>1, AtWork DEF Imports
  <2>3. RunImports(job[t].errors)'
    BY <1>9, <1>10, <2>2 DEF RunImports
  <2>4. QED BY <1>8, <1>9, <1>10, <2>2, <2>3 DEF Imports
<1>12. Heard => Comments(t)'
  <2>1. SUFFICES ASSUME Heard PROVE Comments(t)'
    OBVIOUS
  <2>2. Comments(t) /\ RunComments(job[t].errors)
    BY <1>1, <2>1, AtWork DEF Comments
  <2>3. RunComments(job[t].errors)'
    BY <1>9, <1>10, <2>2 DEF RunComments
  <2>4. QED BY <1>8, <1>9, <1>10, <2>2, <2>3 DEF Comments
<1>13. QED BY <1>1, <1>3, <1>4, <1>5, <1>7, <1>8, <1>11, <1>12, GoKeeps

\* ... or is given up, and what it did not import is reported.
LEMMA GiveUpKeeps ==
  ASSUME Inv, NEW t \in Jobs,
         job[t].pc \in {"phase", "create", "pages", "inline", "fetch", "finish"},
         ReportsAndGoes(t, GivenUp(Name(t)), [job[t] EXCEPT !.pc = "check"])
  PROVE  Inv'
<1> DEFINE reports == GivenUp(Name(t))
<1>0. PICK errors \in Report(t, reports) :
        Fails(t, [[job[t] EXCEPT !.pc = "check"] EXCEPT !.errors = errors])
  BY DEF ReportsAndGoes
<1> DEFINE next == [job[t] EXCEPT !.pc = "check", !.errors = errors]
<1>1. /\ TypeOK /\ job[t] \in JobType /\ Shape(t) /\ Working(t) /\ ~At(t, "mark")
      /\ job[t].phase \in 1..7 /\ job[t].errors \in SUBSET Reports
  BY AtWork, PageFacts DEF At, Working
<1>2. /\ reports \in SUBSET Reports
      /\ job[t].phase \in {3, 5} => reports = {"issues"} \X Pages
      /\ job[t].phase = 6 => reports = {"comments"} \X Pages
  <2>1. Name(t) \in {"projects", "issues"} => GivenUp(Name(t)) = {"issues"} \X Pages
    BY DEF GivenUp
  <2>2. Name(t) = "comments" => GivenUp(Name(t)) = {"comments"} \X Pages
    BY DEF GivenUp
  <2>3. Name(t) \notin {"projects", "issues", "comments"} => GivenUp(Name(t)) = {}
    BY DEF GivenUp
  <2>4. /\ job[t].phase \in {3, 5} => Name(t) \in {"projects", "issues"}
        /\ job[t].phase = 6 => Name(t) = "comments"
    BY <1>1, PhaseNames
  <2>5. {"issues"} \X Pages \subseteq Reports /\ {"comments"} \X Pages \subseteq Reports
    BY DEF Reports
  <2>6. QED BY <2>1, <2>2, <2>3, <2>4, <2>5
<1> HIDE DEF reports
<1>3. /\ errors \in SUBSET Reports /\ job[t].errors \subseteq errors
      /\ job[t].phase \in {3, 5} => {"issues"} \X Pages \subseteq errors
      /\ job[t].phase = 6 => {"comments"} \X Pages \subseteq errors
  BY <1>1, <1>2, Reported
<1>4. SetJob(t, next) /\ UNCHANGED <<run, data, call, calls, lost>> /\ Fault
  BY <1>0, <1>1 DEF Fails, JobType
<1>5. /\ next \in JobType
      /\ next.state = job[t].state /\ next.attempts = job[t].attempts
      /\ next.chosen = job[t].chosen
      /\ next.phase = job[t].phase /\ next.project = job[t].project /\ next.full = job[t].full
      /\ next.known = job[t].known /\ next.map = job[t].map
      /\ next.pc = "check" /\ next.done = job[t].done /\ next.errors = errors
      /\ next.inlined = job[t].inlined /\ next.page = job[t].page /\ next.work = job[t].work
  BY <1>1, <1>3 DEF JobType
<1> HIDE DEF next
<1>6. job'[t] = next
  BY <1>1, <1>4, <1>5, JobNext
<1>7. Shape(t)'
  BY <1>1, <1>4, <1>5, <1>6 DEF Shape, At
<1>8. /\ \A i \in 1..7 : Passed(t, i)' <=> Passed(t, i) \/ job[t].phase = i
      /\ \A i \in 1..7 : Finished(t, i)' => Finished(t, i) \/ job[t].phase = i
      /\ job[t].phase = 5 => Finished(t, 3)
      /\ job[t].phase = 6 => Finished(t, 5) /\ Passed(t, 5) /\ Finished(t, 3)
      /\ \A i \in 1..7 : Passed(t, i) => Passed(t, i)'
  BY <1>1, <1>5, <1>6 DEF Passed, Finished, At
<1>9. /\ Missing(job[t].errors) \subseteq Missing(errors)
      /\ Mentioned(job[t].errors) \subseteq Mentioned(errors)
      /\ Missing(errors) \subseteq Mentioned(errors)
  BY <1>3, MoreMessages, MissingMentioned
<1>10. /\ job'[t].chosen = job[t].chosen /\ run'.chosen = run.chosen
       /\ Missing(job[t].errors)' = Missing(errors)
       /\ Mentioned(job[t].errors)' = Mentioned(errors)
  BY <1>4, <1>5, <1>6 DEF Missing, Mentioned
<1>11. /\ job[t].phase \in {3, 5} => Pages \subseteq Missing(errors)
       /\ job[t].phase = 6 => Pages \subseteq Mentioned(errors)
  <2>1. job[t].phase \in {3, 5} => Pages \subseteq Missing(errors)
    BY <1>3, AllReported
  <2>2. \A p \in Pages : <<"comments", p>> \in {"comments"} \X Pages
    OBVIOUS
  <2>3. job[t].phase = 6 => Pages \subseteq Mentioned(errors)
    BY <1>3, <2>2 DEF Mentioned
  <2>4. QED BY <2>1, <2>3
<1>12. /\ ~At(t, "pages")' /\ ~At(t, "inline")' /\ ~At(t, "fetch")'
       /\ job'[t].pc \notin {"pages", "inline"}
       /\ job'[t].project = job[t].project /\ job'[t].known = job[t].known
       /\ job'[t].map = job[t].map /\ job'[t].work = job[t].work
       /\ job'[t].inlined = job[t].inlined
       /\ run' = run /\ issues' = issues /\ comments' = comments /\ project' = project
  BY <1>4, <1>5, <1>6 DEF At, data
<1>13. issues \subseteq Pages
  BY <1>1 DEF TypeOK
<1>14. Kept => Imports(t)'
  <2>1. SUFFICES ASSUME Kept PROVE Imports(t)'
    OBVIOUS
  <2>2. Imports(t) /\ RunImports(job[t].errors) /\ job[t].chosen = run.chosen
    BY <1>1, <2>1, AtWork DEF Imports
  <2>3. RunImports(job[t].errors)'
    BY <1>9, <1>10, <1>12, <2>2 DEF RunImports
  <2>4. Finished(t, 3)' => \/ job[t].project = "known" /\ project = "jira"
                           \/ Pages \subseteq Missing(errors)
    BY <1>8, <1>9, <1>11, <2>2 DEF Imports
  <2>5. Finished(t, 5)' => Pages \subseteq issues \cup Missing(errors)
    BY <1>8, <1>9, <1>11, <2>2 DEF Imports
  <2>6. Passed(t, 5)' => "issues" \in run.done \/ Pages \subseteq Missing(errors)
    BY <1>8, <1>9, <1>11, <2>2 DEF Imports
  <2>7. job[t].project # "stale" /\ job[t].known \subseteq issues
    BY <2>2 DEF Imports
  <2>8. QED BY <1>10, <1>12, <2>2, <2>3, <2>4, <2>5, <2>6, <2>7 DEF Imports
<1>15. Heard => Comments(t)'
  <2>1. SUFFICES ASSUME Heard PROVE Comments(t)'
    OBVIOUS
  <2>2. Comments(t) /\ RunComments(job[t].errors)
    BY <1>1, <2>1, AtWork DEF Comments
  <2>3. RunComments(job[t].errors)'
    BY <1>9, <1>10, <1>12, <2>2 DEF RunComments
  <2>4. /\ Finished(t, 5)' /\ ~Passed(t, 6)' /\ job[t].map # "none"
        /\ job[t].work # {} \/ job[t].inlined
        => Pages \subseteq comments \cup job[t].work \cup Mentioned(errors)
    BY <1>8, <1>9, <1>11, <2>2 DEF Comments
  <2>5. Finished(t, 6)' => issues \subseteq comments \cup Mentioned(errors)
    BY <1>8, <1>9, <1>11, <1>13, <2>2 DEF Comments
  <2>6. Finished(t, 5)' /\ ~Passed(t, 6)' => Pages \subseteq job[t].known \cup Missing(errors)
    BY <1>8, <1>9, <1>11, <2>2 DEF Comments
  <2>7. QED BY <1>10, <1>12, <2>3, <2>4, <2>5, <2>6 DEF Comments
<1>16. QED
  BY <1>1, <1>3, <1>4, <1>5, <1>7, <1>8, <1>14, <1>15, GoKeeps

LEMMA PhaseFailsKeeps ==
  ASSUME Inv, NEW t \in Jobs, PhaseFails(t)
  PROVE  Inv'
<1>1. CASE job[t].tries < PhaseTries
  BY <1>1, TryAgainKeeps DEF PhaseFails
<1>2. CASE ~(job[t].tries < PhaseTries)
  BY <1>2, GiveUpKeeps DEF PhaseFails
<1>3. QED BY <1>1, <1>2

\* After the last phase.
LEMMA ToCloseKeeps ==
  ASSUME Inv, NEW t \in Jobs, At(t, "check"), job[t].full => job[t].phase = 7,
         GoTo(t, "close")
  PROVE  Inv'
<1> DEFINE next == [job[t] EXCEPT !.pc = "close"]
<1>1. /\ TypeOK /\ job[t] \in JobType /\ Shape(t) /\ Working(t) /\ ~At(t, "mark")
      /\ job[t].phase \in 1..7 /\ job[t].pc = "check"
  BY AtWork DEF At, Working
<1>2. SetJob(t, next) /\ UNCHANGED <<run, data, call, bounds, lost>>
  BY DEF GoTo, Go
<1>3. /\ next \in JobType
      /\ next.state = job[t].state /\ next.attempts = job[t].attempts
      /\ next.chosen = job[t].chosen
      /\ next.phase = job[t].phase /\ next.project = job[t].project /\ next.full = job[t].full
      /\ next.known = job[t].known /\ next.map = job[t].map
      /\ next.pc = "close" /\ next.done = job[t].done /\ next.errors = job[t].errors
      /\ next.inlined = job[t].inlined /\ next.page = job[t].page /\ next.work = job[t].work
  BY <1>1 DEF JobType
<1> HIDE DEF next
<1>4. job'[t] = next
  BY <1>1, <1>2, <1>3, JobNext
<1>5. Shape(t)'
  BY <1>1, <1>2, <1>3, <1>4 DEF Shape, At
<1>6. /\ \A i \in 1..7 : Passed(t, i)' <=> Passed(t, i)
      /\ \A i \in 1..7 : Finished(t, i)' <=> Finished(t, i)
  BY <1>1, <1>3, <1>4 DEF Passed, Finished, At
<1>7. /\ job'[t].chosen = job[t].chosen /\ run'.chosen = run.chosen
      /\ Missing(job[t].errors)' = Missing(job[t].errors)
      /\ Mentioned(job[t].errors)' = Mentioned(job[t].errors)
  BY <1>2, <1>3, <1>4 DEF Missing, Mentioned
<1>8. /\ ~At(t, "pages")' /\ ~At(t, "inline")' /\ ~At(t, "fetch")'
      /\ job'[t].pc \notin {"pages", "inline"}
      /\ job'[t].project = job[t].project /\ job'[t].known = job[t].known
      /\ job'[t].map = job[t].map /\ job'[t].work = job[t].work
      /\ job'[t].inlined = job[t].inlined
      /\ run' = run /\ issues' = issues /\ comments' = comments /\ project' = project
  BY <1>2, <1>3, <1>4 DEF At, data
<1>9. Kept => Imports(t)'
  <2>1. SUFFICES ASSUME Kept PROVE Imports(t)'
    OBVIOUS
  <2>2. Imports(t) /\ RunImports(job[t].errors) /\ job[t].chosen = run.chosen
    BY <1>1, <2>1, AtWork DEF Imports
  <2>3. RunImports(job[t].errors)'
    BY <1>7, <1>8, <2>2 DEF RunImports
  <2>4. QED BY <1>6, <1>7, <1>8, <2>2, <2>3 DEF Imports
<1>10. Heard => Comments(t)'
  <2>1. SUFFICES ASSUME Heard PROVE Comments(t)'
    OBVIOUS
  <2>2. Comments(t) /\ RunComments(job[t].errors)
    BY <1>1, <2>1, AtWork DEF Comments
  <2>3. RunComments(job[t].errors)'
    BY <1>7, <1>8, <2>2 DEF RunComments
  <2>4. QED BY <1>6, <1>7, <1>8, <2>2, <2>3 DEF Comments
<1>11. QED BY <1>1, <1>2, <1>3, <1>5, <1>6, <1>9, <1>10, GoKeeps DEF bounds

\* The next phase: what phase 5 does not need any more goes.
LEMMA NextPhaseKeeps ==
  ASSUME Inv, NEW t \in Jobs, At(t, "check"), Name(t) # "attachments",
         Go(t, [job[t] EXCEPT !.tries = 1, !.phase = @ + 1, !.pc = "phase",
                              !.map = IF Name(t) = "comments" THEN "none" ELSE @,
                              !.known = IF Name(t) = "comments" THEN {} ELSE @,
                              !.inlined = @ /\ Name(t) # "comments"])
  PROVE  Inv'
<1> DEFINE phase == job[t].phase + 1
<1> DEFINE map == IF Name(t) = "comments" THEN "none" ELSE job[t].map
<1> DEFINE keys == IF Name(t) = "comments" THEN {} ELSE job[t].known
<1> DEFINE inlined == job[t].inlined /\ Name(t) # "comments"
<1> DEFINE next == [job[t] EXCEPT !.tries = 1, !.phase = phase, !.pc = "phase", !.map = map,
                                  !.known = keys, !.inlined = inlined]
<1>1. /\ TypeOK /\ job[t] \in JobType /\ Shape(t) /\ Working(t) /\ ~At(t, "mark")
      /\ job[t].phase \in 1..7 /\ job[t].pc = "check"
  BY AtWork DEF At, Working
<1>2. job[t].phase # 7 /\ (Name(t) = "comments" <=> job[t].phase = 6)
  BY <1>1, PhaseNames
<1>3. /\ phase \in DOMAIN Phase /\ phase = job[t].phase + 1 /\ 1 \in 1..PhaseTries
      /\ map \in {"none", "sends", "omits"} /\ keys \in SUBSET Pages /\ inlined \in BOOLEAN
  BY <1>1, <1>2, PhaseFacts, ConstantsAssumption DEF JobType
<1>4. /\ job[t].phase # 6 => map = job[t].map /\ keys = job[t].known /\ inlined = job[t].inlined
      /\ keys \subseteq job[t].known
  BY <1>1, <1>2 DEF JobType
<1>5. SetJob(t, next) /\ UNCHANGED <<run, data, call, bounds, lost>>
  BY <1>1 DEF Go, SetJob, JobType
<1> HIDE DEF phase, map, keys, inlined
<1>6. next \in JobType
  BY <1>1, <1>3 DEF JobType
<1>7. /\ next.state = job[t].state /\ next.attempts = job[t].attempts
      /\ next.chosen = job[t].chosen
      /\ next.phase = phase /\ next.project = job[t].project /\ next.full = job[t].full
      /\ next.known = keys /\ next.map = map
      /\ next.pc = "phase" /\ next.done = job[t].done /\ next.errors = job[t].errors
      /\ next.inlined = inlined /\ next.page = job[t].page /\ next.work = job[t].work
  BY <1>1 DEF JobType
<1> HIDE DEF next
<1>8. job'[t] = next
  BY <1>1, <1>5, <1>6, JobNext
<1>9. Shape(t)'
  <2>1. /\ phase < 3 => job[t].project = "unknown"
        /\ phase <= 5 => map = "none" /\ keys = {}
    BY <1>1, <1>3, <1>4 DEF Shape
  <2>2. phase \in 1..7 /\ phase # 1
    BY <1>1, <1>2, <1>3
  <2>3. QED BY <1>1, <1>5, <1>7, <1>8, <2>1, <2>2 DEF Shape, At
<1>10. /\ \A i \in 1..7 : Passed(t, i)' <=> Passed(t, i)
       /\ \A i \in 1..7 : Finished(t, i)' <=> Finished(t, i)
       /\ job[t].phase = 6 => Passed(t, 6)
  BY <1>1, <1>3, <1>7, <1>8 DEF Passed, Finished, At
<1>11. /\ job'[t].chosen = job[t].chosen /\ run'.chosen = run.chosen
       /\ Missing(job[t].errors)' = Missing(job[t].errors)
       /\ Mentioned(job[t].errors)' = Mentioned(job[t].errors)
  BY <1>5, <1>7, <1>8 DEF Missing, Mentioned
<1>12. /\ ~At(t, "pages")' /\ ~At(t, "inline")' /\ ~At(t, "fetch")'
       /\ job'[t].pc \notin {"pages", "inline"}
       /\ job'[t].project = job[t].project /\ job'[t].known = keys
       /\ job'[t].map = map /\ job'[t].work = job[t].work /\ job'[t].inlined = inlined
       /\ run' = run /\ issues' = issues /\ comments' = comments /\ project' = project
  BY <1>5, <1>7, <1>8 DEF At, data
<1>13. Kept => Imports(t)'
  <2>1. SUFFICES ASSUME Kept PROVE Imports(t)'
    OBVIOUS
  <2>2. Imports(t) /\ RunImports(job[t].errors) /\ job[t].chosen = run.chosen
    BY <1>1, <2>1, AtWork DEF Imports
  <2>3. RunImports(job[t].errors)'
    BY <1>11, <1>12, <2>2 DEF RunImports
  <2>4. keys \subseteq issues
    BY <1>4, <2>2 DEF Imports
  <2>5. QED BY <1>10, <1>11, <1>12, <2>2, <2>3, <2>4 DEF Imports
<1>14. Heard => Comments(t)'
  <2>1. SUFFICES ASSUME Heard PROVE Comments(t)'
    OBVIOUS
  <2>2. Comments(t) /\ RunComments(job[t].errors)
    BY <1>1, <2>1, AtWork DEF Comments
  <2>3. RunComments(job[t].errors)'
    BY <1>11, <1>12, <2>2 DEF RunComments
  <2>4. /\ Finished(t, 5) /\ ~Passed(t, 6) /\ map # "none"
        /\ job[t].work # {} \/ inlined
        => Pages \subseteq comments \cup job[t].work \cup Mentioned(job[t].errors)
    BY <1>4, <1>10, <2>2 DEF Comments
  <2>5. Finished(t, 5) /\ ~Passed(t, 6) => Pages \subseteq keys \cup Missing(job[t].errors)
    BY <1>4, <1>10, <2>2 DEF Comments
  <2>6. QED BY <1>10, <1>11, <1>12, <2>2, <2>3, <2>4, <2>5 DEF Comments
<1>15. QED
  BY <1>1, <1>5, <1>6, <1>7, <1>9, <1>10, <1>13, <1>14, GoKeeps DEF bounds

LEMMA CheckKeeps ==
  ASSUME Inv, NEW t \in Jobs, Check(t)
  PROVE  Inv'
<1>1. TypeOK /\ At(t, "check") /\ ~At(t, "idle") /\ (Name(t) = "attachments" <=> job[t].phase = 7)
  BY AtWork, PhaseNames DEF Check, At
<1>2. CASE Name(t) = "attachments"
  <2>1. GoTo(t, "close")
    BY <1>2 DEF Check
  <2>2. QED BY <1>1, <1>2, <2>1, ToCloseKeeps
<1>3. CASE Name(t) # "attachments" /\ run.status = "cancelled"
  <2>1. Leave(t) /\ run' = run
    BY <1>3 DEF Check
  <2>2. run' \in RunType
    BY <1>1, <2>1 DEF TypeOK
  <2>3. QED BY <1>1, <2>1, <2>2, LeaveKeeps
<1>4. CASE Name(t) # "attachments" /\ run.status # "cancelled" /\ Name(t) = "sync" /\ ~job[t].full
  <2>1. GoTo(t, "close")
    BY <1>4 DEF Check
  <2>2. QED BY <1>1, <1>4, <2>1, ToCloseKeeps
<1>5. CASE /\ Name(t) # "attachments" /\ run.status # "cancelled"
           /\ ~(Name(t) = "sync" /\ ~job[t].full)
  BY <1>1, <1>5, NextPhaseKeeps DEF Check
<1>6. QED BY <1>2, <1>3, <1>4, <1>5

LEMMA StepKeeps ==
  Inv /\ [Next]_vars => Inv'
<1> SUFFICES ASSUME Inv, [Next]_vars PROVE Inv'
  OBVIOUS
<1>1. ASSUME NEW t \in Jobs, WorkerStep(t)
      PROVE  Inv'
  <2>1. CASE Pick(t) \/ LoadRun(t) \/ MarkRun(t) \/ Wipe(t) \/ SkipPhase(t)
             \/ IssuesNotReread(t) \/ EnterPhase(t) \/ LogFills(t)
    BY <2>1, PickKeeps, LoadKeeps, MarkKeeps, WipeKeeps, SkipKeeps, NotRereadKeeps, EnterKeeps,
       LogFillsKeeps
  <2>2. CASE CreateProject(t) \/ NoProject(t) \/ PagesDone(t) \/ PageNotRead(t) \/ InsertPage(t)
             \/ PageNotInserted(t)
    BY <2>2, CreateKeeps, NoProjectKeeps, PagesDoneKeeps, PageNotReadKeeps, InsertKeeps,
       PageNotInsertedKeeps
  <2>3. CASE InlineComments(t) \/ InlineNotInserted(t) \/ NoInline(t)
    BY <2>3, InlineKeeps
  <2>4. CASE FetchComments(t) \/ CommentsNotInserted(t) \/ CommentsNotRead(t) \/ CommentsDone(t)
    BY <2>4, FetchSteps, CommentsDoneKeeps
  <2>5. CASE FinishPhase(t) \/ PhaseFails(t) \/ Check(t)
    BY <2>5, FinishKeeps, PhaseFailsKeeps, CheckKeeps
  <2>6. CASE CloseMembers(t) \/ Close(t) \/ JobFails(t)
    BY <2>6, CloseMembersKeeps, CloseKeeps, ThrowKeeps
  <2>7. QED BY <1>1, <2>1, <2>2, <2>3, <2>4, <2>5, <2>6 DEF WorkerStep
<1>2. CASE UNCHANGED vars
  <2>1. TypeOK' /\ \A u \in Jobs : job'[u] = job[u]
    BY <1>2 DEF Inv, TypeOK, vars, data, bounds
  <2>2. Alone' => \A u, v \in Jobs :
          job'[u].state = "active" /\ job'[v].state = "active" => u = v
    BY <1>2 DEF vars, Alone, Inv, Solo
  <2>3. QED BY <1>2, <2>1, <2>2, RestKeeps DEF vars, data
<1>3. QED BY <1>1, <1>2, CallKeeps, CrashKeeps, EvictKeeps DEF Next

LEMMA InvHolds ==
  Spec => []Inv
BY InitHolds, StepKeeps, PTL DEF Spec

-----------------------------------------------------------------------------
(* What the properties follow from                                         *)

\* Only two steps complete a run that is not completed.
LEMMA Completing ==
  ASSUME TypeOK, [Next]_vars, run.status # "completed", run'.status = "completed"
  PROVE  \E u \in Jobs : CloseMembers(u) \/ Close(u)
<1>1. /\ \A s \in RunStatuses : [run EXCEPT !.status = s].status = s
      /\ \A x : [run EXCEPT !.log = x].status = run.status
      /\ \A x, y : [run EXCEPT !.done = x, !.log = y].status = run.status
      /\ {"pending", "processing", "failed", "cancelled"} \subseteq RunStatuses
      /\ \A x : [run EXCEPT !.status = "pending", !.chosen = x].status = "pending"
      /\ \A x : [run EXCEPT !.status = "failed", !.log = x].status = "failed"
  BY DEF TypeOK, RunType, RunStatuses
<1>2. CASE UNCHANGED vars
  BY <1>2 DEF vars
<1>3. ASSUME NEW c \in Clients, CallStep(c)
      PROVE  FALSE
  <2>1. ASSUME NEW status \in {"pending", "cancelled"}, NEW next, SetStatus(c, status, next)
        PROVE  FALSE
    BY <1>1, <2>1 DEF SetStatus
  <2>2. ~(StartWrite(c) \/ RetryWrite(c) \/ CancelWrite(c))
    BY <1>1, <2>1 DEF StartWrite, RetryWrite, CancelWrite
  <2>3. run' = run
    BY <1>3, <2>2 DEF CallStep, StartLoad, RetryLoad, CancelLoad, ResetLoad, Request, StartAdd,
       RetryAdd, Queue, CancelRemove, ResetDelete, CallFails
  <2>4. QED BY <2>3
<1>4. ASSUME NEW t \in Jobs, WorkerStep(t) \/ Crash(t), ~CloseMembers(t), ~Close(t)
      PROVE  FALSE
  <2>1. CASE Crash(t) \/ Pick(t) \/ Wipe(t) \/ CreateProject(t) \/ InsertPage(t)
             \/ FetchComments(t) \/ CommentsNotRead(t) \/ IssuesNotReread(t)
    BY <2>1 DEF Crash, Pick, Wipe, CreateProject, InsertPage, FetchComments, CommentsNotRead,
       IssuesNotReread
  <2>2. CASE LoadRun(t) \/ Check(t)
    BY <2>2 DEF LoadRun, Check, Go, GoTo
  <2>3. CASE MarkRun(t) \/ EnterPhase(t)
    BY <1>1, <2>3 DEF MarkRun, EnterPhase
  <2>4. CASE SkipPhase(t) \/ PagesDone(t) \/ CommentsDone(t)
    BY <2>4 DEF SkipPhase, PagesDone, CommentsDone, Go, GoTo
  <2>5. CASE NoProject(t) \/ PageNotRead(t) \/ PageNotInserted(t) \/ CommentsNotInserted(t)
             \/ PhaseFails(t) \/ LogFills(t)
    BY <2>5 DEF NoProject, PageNotRead, PageNotInserted, CommentsNotInserted, PhaseFails, LogFills,
       ReportsAndGoes, Go, Fails
  <2>6. CASE InlineComments(t) \/ InlineNotInserted(t) \/ NoInline(t)
    <3>1. \E log : run' = [run EXCEPT !.log = log]
      BY <2>6 DEF InlineComments, InlineNotInserted, NoInline, Flush
    <3>2. QED BY <1>1, <3>1
  <2>7. CASE FinishPhase(t)
    BY <1>1, <2>7 DEF FinishPhase
  <2>8. CASE JobFails(t)
    BY <1>1, <2>8 DEF JobFails, Throw
  <2>9. QED
    BY <1>4, <2>1, <2>2, <2>3, <2>4, <2>5, <2>6, <2>7, <2>8 DEF WorkerStep
<1>5. CASE Evict
  BY <1>5 DEF Evict
<1>6. QED BY <1>2, <1>3, <1>4, <1>5 DEF Next

\* The job that completes the run is the one that closes it.
LEMMA Closing ==
  ASSUME Inv, [Next]_vars, NEW t \in Jobs, Closes(t), "overlap" \notin lost'
  PROVE  /\ Close(t) /\ Finished(t, 5) /\ Finished(t, 6) /\ job[t].errors = run'.log
         /\ run'.chosen = run.chosen
         /\ issues' = issues /\ comments' = comments /\ lost' = lost
<1>1. TypeOK /\ Shape(t)
  BY AtWork
<1>2. Alone
  <2>1. lost \subseteq lost'
    <3>1. CASE UNCHANGED vars
      BY <3>1 DEF vars
    <3>2. ASSUME NEW c \in Clients, CallStep(c) PROVE lost \subseteq lost'
      BY <3>2 DEF CallStep, StartLoad, RetryLoad, CancelLoad, ResetLoad, Request, StartWrite,
         RetryWrite, CancelWrite, SetStatus, StartAdd, RetryAdd, Queue, CancelRemove,
         ResetDelete, DeleteData, CallFails
    <3>3. ASSUME NEW u \in Jobs, WorkerStep(u) \/ Crash(u) PROVE lost \subseteq lost'
      <4>1. Throw(u) \/ Leave(u) => lost \subseteq lost'
        BY DEF Throw, Leave
      <4>2. CASE Crash(u) \/ Pick(u) \/ Wipe(u) \/ CreateProject(u) \/ InsertPage(u)
                 \/ FetchComments(u) \/ CommentsNotRead(u) \/ FinishPhase(u) \/ IssuesNotReread(u)
        BY <4>2 DEF Crash, Pick, Wipe, DeleteData, CreateProject, InsertPage, FetchComments,
           CommentsNotRead, FinishPhase, IssuesNotReread
      <4>3. CASE LoadRun(u) \/ Check(u) \/ CloseMembers(u) \/ Close(u) \/ JobFails(u)
        BY <4>1, <4>3 DEF LoadRun, Check, CloseMembers, Close, JobFails, Go, GoTo
      <4>4. CASE MarkRun(u) \/ EnterPhase(u) \/ SkipPhase(u) \/ PagesDone(u) \/ CommentsDone(u)
        BY <4>4 DEF MarkRun, EnterPhase, SkipPhase, PagesDone, CommentsDone, Go, GoTo
      <4>5. CASE NoProject(u) \/ PageNotRead(u) \/ PageNotInserted(u) \/ CommentsNotInserted(u)
                 \/ PhaseFails(u) \/ LogFills(u)
        BY <4>5 DEF NoProject, PageNotRead, PageNotInserted, CommentsNotInserted, PhaseFails,
           LogFills, ReportsAndGoes, Go, Fails
      <4>6. CASE InlineComments(u) \/ InlineNotInserted(u) \/ NoInline(u)
        BY <4>6 DEF InlineComments, InlineNotInserted, NoInline, Flush
      <4>7. QED BY <3>3, <4>2, <4>3, <4>4, <4>5, <4>6 DEF WorkerStep
    <3>4. CASE Evict
      BY <3>4 DEF Evict
    <3>5. QED BY <3>1, <3>2, <3>3, <3>4 DEF Next
  <2>2. QED BY <2>1 DEF Alone
<1>3. Solo(t) /\ At(t, "close") /\ job[t].full /\ run'.status = "completed"
  BY <1>2, AtWork DEF Closes
<1>4. run.status # "completed" /\ job[t].state = "active"
  BY <1>1, <1>3 DEF Solo, Working, Shape, At
<1>5. PICK u \in Jobs : CloseMembers(u) \/ Close(u)
  BY <1>1, <1>3, <1>4, Completing
<1>6. job[u].state = "active"
  BY <1>5, AtWork DEF CloseMembers, Close, Shape, At
<1>7. u = t
  BY <1>3, <1>4, <1>6 DEF Solo
<1>8. Close(t)
  BY <1>3, <1>5, <1>7 DEF CloseMembers
<1>9. Finished(t, 5) /\ Finished(t, 6)
  BY <1>1, <1>3 DEF Shape, Finished, Passed
<1>10. job[t].errors = run'.log /\ run'.chosen = run.chosen
  BY <1>1, <1>8 DEF Close, TypeOK, RunType
<1>11. QED BY <1>8, <1>9, <1>10 DEF Close, data

-----------------------------------------------------------------------------
(* The theorems                                                            *)

\* Every variable keeps its type, and no counter its bound, whatever the calls, faults and
\* jobs: pages, attempts, tries and the phase of a job never pass their ends.
THEOREM RunTypes ==
  Spec => []TypeOK
<1>1. Inv => TypeOK
  BY DEF Inv
<1>2. QED BY <1>1, InvHolds, PTL

\* A recorded phase 4 is not run again by the one job that works on the run.
\* (jira-migration.processor.ts:3241)
THEOREM ResumedPhaseSkipped ==
  Spec => ResumeSkips
<1>1. ASSUME Inv, [Next]_vars, NEW p \in Pages, p \in issues' \ issues, "overlap" \notin lost
      PROVE  "issues" \notin run.done
  <2>1. PICK t \in Jobs : InsertPage(t)
    <3>1. CASE UNCHANGED vars
      BY <1>1, <3>1 DEF vars, data
    <3>2. ASSUME NEW c \in Clients, CallStep(c) PROVE FALSE
      BY <1>1, <3>2 DEF CallStep, StartLoad, RetryLoad, CancelLoad, ResetLoad, Request, StartWrite,
         RetryWrite, CancelWrite, SetStatus, StartAdd, RetryAdd, Queue, CancelRemove,
         ResetDelete, DeleteData, CallFails, data
    <3>3. ASSUME NEW u \in Jobs, WorkerStep(u) \/ Crash(u), ~InsertPage(u) PROVE FALSE
      <4>1. CASE Crash(u) \/ Pick(u) \/ Wipe(u) \/ CreateProject(u)
                 \/ FetchComments(u) \/ CommentsNotRead(u) \/ FinishPhase(u) \/ IssuesNotReread(u)
        BY <1>1, <4>1 DEF Crash, Pick, Wipe, DeleteData, CreateProject, FetchComments,
           CommentsNotRead, FinishPhase, IssuesNotReread, data
      <4>2. CASE LoadRun(u) \/ Check(u) \/ CloseMembers(u) \/ Close(u) \/ JobFails(u)
        BY <1>1, <4>2 DEF LoadRun, Check, CloseMembers, Close, JobFails, Leave, Throw, Go, GoTo,
           data
      <4>3. CASE MarkRun(u) \/ EnterPhase(u) \/ SkipPhase(u) \/ PagesDone(u) \/ CommentsDone(u)
        BY <1>1, <4>3 DEF MarkRun, EnterPhase, SkipPhase, PagesDone, CommentsDone, Go, GoTo, data
      <4>4. CASE NoProject(u) \/ PageNotRead(u) \/ PageNotInserted(u) \/ CommentsNotInserted(u)
                 \/ PhaseFails(u) \/ LogFills(u)
        BY <1>1, <4>4 DEF NoProject, PageNotRead, PageNotInserted, CommentsNotInserted,
           PhaseFails, LogFills, ReportsAndGoes, Go, Fails, data
      <4>5. CASE InlineComments(u) \/ InlineNotInserted(u) \/ NoInline(u)
        BY <1>1, <4>5 DEF InlineComments, InlineNotInserted, NoInline, Flush
      <4>6. QED BY <3>3, <4>1, <4>2, <4>3, <4>4, <4>5 DEF WorkerStep
    <3>4. CASE Evict
      BY <1>1, <3>4 DEF Evict, data
    <3>5. QED BY <1>1, <3>1, <3>2, <3>3, <3>4 DEF Next
  <2>2. /\ TypeOK /\ Shape(t) /\ job[t].pc = "pages" /\ job[t].phase = 5 /\ Working(t) /\ Solo(t)
    BY <1>1, <2>1, AtPageFacts DEF InsertPage, Alone
  <2>3. ~Passed(t, 5)
    BY <2>2 DEF Passed
  <2>4. "issues" \notin job[t].done
    BY <2>2, PhaseNames DEF Shape
  <2>5. QED BY <2>2, <2>3, <2>4, PhaseFacts DEF Solo
<1>2. Inv /\ [Next]_vars =>
        \A p \in Pages : p \in issues' \ issues /\ "overlap" \notin lost => "issues" \notin run.done
  BY <1>1
<1>3. QED BY <1>2, InvHolds, PTL DEF Spec, ResumeSkips

\* A run that completes has every page of issues of a project it was started for, or has
\* reported it, through failed attempts, skipped phases and the job's own retries, as long as
\* the log has not filled up: what a job has loaded of the selection is what the run has when
\* it closes, and no record of a phase is older than the selection.
\* (jira-migration.processor.ts:591)
THEOREM ImportTold ==
  Spec => ImportComplete
<1> DEFINE Accounts(t) ==
      Closes(t) /\ "project" \in run'.chosen /\ Full \notin run'.log
        /\ lost' \cap {"import", "overlap", "reselected"} = {}
<1> DEFINE Promise == Pages \subseteq issues' \cup {p \in Pages : <<"issues", p>> \in run'.log}
<1>1. ASSUME Inv, [Next]_vars, NEW t \in Jobs, Accounts(t)
      PROVE  Promise
  <2>1. /\ Finished(t, 5) /\ job[t].errors = run'.log /\ run'.chosen = run.chosen
        /\ issues' = issues /\ lost' = lost
    BY <1>1, Closing
  <2>2. Imports(t)
    BY <1>1, <2>1, AtWork DEF Kept
  <2>3. Pages \subseteq issues \cup Missing(job[t].errors)
    BY <2>1, <2>2 DEF Imports
  <2>4. QED BY <1>1, <2>1, <2>3 DEF Missing
<1>2. Inv /\ [Next]_vars =>
        \A t \in Jobs :
          /\ Closes(t) /\ "project" \in run'.chosen /\ Full \notin run'.log
          /\ lost' \cap {"import", "overlap", "reselected"} = {}
          => Pages \subseteq issues' \cup {p \in Pages : <<"issues", p>> \in run'.log}
  BY <1>1
<1> HIDE DEF Accounts, Promise
<1>3. QED BY <1>2, InvHolds, PTL DEF Spec, ImportComplete

\* ... and, if comments were asked for, those of every page that is there, or a message about
\* them, whether they came with the issues, were left for phase 5 or were listed again after a
\* restart; unless the log has filled up, Jira has been silent or the recorded issues could
\* not be read again.  (jira-migration.processor.ts:2284)
THEOREM CommentsTold ==
  Spec => CommentsComplete
<1> DEFINE Spoken(log) == {p \in Pages : ({"issues", "comments"} \X {p}) \cap log # {}}
<1> DEFINE Accounts(t) ==
      Closes(t) /\ {"project", "comments"} \subseteq run'.chosen /\ Full \notin run'.log
        /\ lost' \cap {"import", "overlap", "reselected", "silent"} = {}
<1>1. ASSUME Inv, [Next]_vars, NEW t \in Jobs, Accounts(t)
      PROVE  issues' \subseteq comments' \cup Spoken(run'.log)
  <2>1. /\ Finished(t, 6) /\ job[t].errors = run'.log /\ run'.chosen = run.chosen
        /\ issues' = issues /\ lost' = lost /\ comments' = comments
    BY <1>1, Closing
  <2>2. Comments(t)
    BY <1>1, <2>1, AtWork DEF Heard
  <2>3. issues \subseteq comments \cup Mentioned(job[t].errors)
    BY <2>1, <2>2 DEF Comments
  <2>4. Mentioned(run'.log) \subseteq Spoken(run'.log)
    BY <1>1, <2>1 DEF Mentioned, Missing
  <2>5. QED BY <2>1, <2>3, <2>4
<1>2. Inv /\ [Next]_vars =>
        \A t \in Jobs :
          /\ Closes(t) /\ {"project", "comments"} \subseteq run'.chosen /\ Full \notin run'.log
          /\ lost' \cap {"import", "overlap", "reselected", "silent"} = {}
          => issues' \subseteq comments' \cup {p \in Pages : ({"issues", "comments"} \X {p})
                                                               \cap run'.log # {}}
  BY <1>1
<1> HIDE DEF Accounts, Spoken
<1>3. QED BY <1>2, InvHolds, PTL DEF Spec, CommentsComplete
=============================================================================
