-------------------------- MODULE ProjectKeysProofs --------------------------
(***************************************************************************)
(* Proofs about ProjectKeys for every value of its constants: the type     *)
(* invariant, that the keys a project ever had and the keys of its issues  *)
(* resolve to it, and that no two issues have the same key.                *)
(***************************************************************************)
EXTENDS ProjectKeys, FiniteSetTheorems, TLAPS

\* A call past its reads works on a project under a key that project had.
OpSound(o) ==
  /\ o.pc \notin {"idle", "insertProject", "importProject", "migrateProject"} =>
       o.project \in Projects /\ o.key \in had[o.project]
  /\ o.pc \in {"insertProject", "rename", "importProject", "migrateProject"} =>
       o.newKey \in Keys

OpInv == \A c \in Clients : OpSound(op[c])

HadCurrent == \A p \in Projects : key[p] # NoKey => key[p] \in had[p]

TypeInv == TypeOK /\ OpInv /\ HadCurrent

\* The steps of a call, by what they change: only the call, ...
LookStep(c) ==
  \/ \E k \in Keys : CreateProjectCheck(c, k) \/ RenameCheck(c, k) \/ ImportLookup(c, k)
  \/ \E p \in Projects :
       SettingsLoad(c, p) \/ IssueLoad(c, p) \/ ImportInto(c, p) \/ MigrateFind(c, p)
  \/ \E p \in Projects, moved \in SUBSET Issues : MoveLoad(c, p, moved)
  \/ NumberRead(c)
  \/ Leave(c)

\* ... a counter, ...
CounterStep(c) ==
  NumberWrite(c) \/ MoveReserve(c) \/ ImportReserve(c) \/ MigrateCounter(c)

\* ... a project's key, ...
KeyStep(c) ==
  \/ \E p \in Projects : CreateProjectInsert(c, p) \/ ImportProject(c, p)
  \/ RenameCommit(c) \/ SettingsSave(c)

\* ... or issues.
WriteStep(c) ==
  \/ IssueInsert(c) \/ ImportInsert(c) \/ MoveIssues(c)
  \/ \E page \in SUBSET (1..MaxNumber) : MigrateIssues(c, page)

LEMMA StepCases ==
  ASSUME NEW c \in Clients,
         ProjectStep(c) \/ IssueStep(c) \/ ImportStep(c) \/ MigrateStep(c) \/ Leave(c)
  PROVE  \/ LookStep(c) \/ CounterStep(c) \/ KeyStep(c) \/ WriteStep(c)
         \/ \E k \in Keys : MigrateProject(c, k)
BY DEF ProjectStep, IssueStep, ImportStep, MigrateStep, LookStep, CounterStep, KeyStep,
       WriteStep

-----------------------------------------------------------------------------
(* Types                                                                   *)

LEMMA TypeInit == Init => TypeInv
<1> SUFFICES ASSUME Init PROVE TypeInv
  OBVIOUS
<1>1. had \in [Projects -> SUBSET Keys]
  BY DEF Init
<1>2. issue \in [Issues -> IssueType] /\ op \in [Clients -> OpType]
  BY DEF Init, IssueType, NoIssue, OpType, NoOp, OpPc
<1>3. TypeOK
  <2>1. /\ key \in [Projects -> Keys \union {NoKey}]
        /\ alias \in [Keys -> Projects \union {NoProject}]
        /\ next \in [Projects -> Nat] /\ raced \in BOOLEAN
    BY DEF Init
  <2>2. calls \in 0..MaxCalls
    BY ConstantsAssumption DEF Init
  <2>3. QED BY <1>1, <1>2, <2>1, <2>2 DEF TypeOK
<1>4. OpInv /\ HadCurrent
  BY DEF Init, OpInv, OpSound, HadCurrent, NoOp
<1>5. QED BY <1>3, <1>4 DEF TypeInv

\* A call moves on, while the keys projects had are kept.
LEMMA OpMoves ==
  ASSUME TypeInv, NEW c \in Clients, NEW o \in OpType,
         op' = [op EXCEPT ![c] = o],
         \A p \in Projects : had[p] \subseteq had'[p],
         OpSound(o)'
  PROVE  op' \in [Clients -> OpType] /\ OpInv'
<1>1. op \in [Clients -> OpType]
  BY DEF TypeInv, TypeOK
<1>2. ASSUME NEW d \in Clients PROVE OpSound(op[d])'
  <2>1. OpSound(op[d]) /\ op[d].project \in Projects \union {NoProject}
    BY <1>1 DEF TypeInv, OpInv, OpType
  <2>2. CASE d = c
    BY <1>1, <2>2 DEF OpSound
  <2>3. CASE d # c
    BY <1>1, <2>1, <2>3 DEF OpSound
  <2>4. QED BY <2>2, <2>3
<1>3. QED BY <1>1, <1>2 DEF OpInv

\* A call begins.
LEMMA TypeBegin ==
  ASSUME TypeInv, NEW c \in Clients, NEW o \in OpType, OpSound(o),
         calls < MaxCalls, calls' = calls + 1, op' = [op EXCEPT ![c] = o],
         UNCHANGED <<projectVars, next, issue>>
  PROVE  TypeInv'
<1>1. op' \in [Clients -> OpType] /\ OpInv'
  BY OpMoves DEF OpSound, projectVars
<1>2. calls' \in 0..MaxCalls
  BY ConstantsAssumption DEF TypeInv, TypeOK
<1>3. QED BY <1>1, <1>2 DEF TypeInv, TypeOK, HadCurrent, projectVars

LEMMA TypeLook ==
  ASSUME TypeInv, NEW c \in Clients, LookStep(c)
  PROVE  TypeInv'
<1>0. op[c] \in OpType /\ OpSound(op[c]) /\ op \in [Clients -> OpType]
  BY DEF TypeInv, TypeOK, OpInv
<1>1. ASSUME NEW k \in Keys, CreateProjectCheck(c, k) \/ ImportLookup(c, k)
      PROVE  TypeInv'
  <2>1. PICK pc \in {"insertProject", "importProject"} : Begin(c, pc, NoProject, NoKey, k)
    BY <1>1 DEF CreateProjectCheck, ImportLookup
  <2> DEFINE o == [NoOp EXCEPT !.pc = pc, !.project = NoProject, !.key = NoKey,
                               !.newKey = k]
  <2>2. o \in OpType /\ OpSound(o)
    BY DEF NoOp, OpType, OpPc, OpSound
  <2>3. QED
    BY <1>1, <2>1, <2>2, TypeBegin DEF Begin, CreateProjectCheck, ImportLookup
<1>2. ASSUME NEW p \in Projects, IssueLoad(c, p) \/ ImportInto(c, p)
      PROVE  TypeInv'
  <2>1. PICK pc \in {"issue", "import"} : Begin(c, pc, p, key[p], NoKey)
    BY <1>2 DEF IssueLoad, ImportInto
  <2> DEFINE o == [NoOp EXCEPT !.pc = pc, !.project = p, !.key = key[p],
                               !.newKey = NoKey]
  <2>2. key[p] \in Keys /\ key[p] \in had[p]
    BY <1>2 DEF IssueLoad, ImportInto, TypeInv, TypeOK, HadCurrent
  <2>3. o \in OpType /\ OpSound(o)
    BY <2>2 DEF NoOp, OpType, OpPc, OpSound
  <2>4. QED
    BY <1>2, <2>1, <2>3, TypeBegin DEF Begin, IssueLoad, ImportInto
<1>3. ASSUME NEW p \in Projects, SettingsLoad(c, p)
      PROVE  TypeInv'
  <2> DEFINE o == [NoOp EXCEPT !.pc = "settings", !.project = p, !.key = key[p],
                               !.number = next[p]]
  <2>1. key[p] \in Keys /\ key[p] \in had[p] /\ next[p] \in Nat
    BY <1>3 DEF SettingsLoad, TypeInv, TypeOK, HadCurrent
  <2>2. o \in OpType /\ OpSound(o)
    BY <2>1 DEF NoOp, OpType, OpPc, OpSound
  <2>3. QED BY <1>3, <2>2, TypeBegin DEF SettingsLoad
<1>4. ASSUME NEW p \in Projects, NEW moved \in SUBSET Issues, MoveLoad(c, p, moved)
      PROVE  TypeInv'
  <2> DEFINE o == [NoOp EXCEPT !.pc = "move", !.project = p, !.key = key[p],
                               !.moved = moved]
  <2>1. key[p] \in Keys /\ key[p] \in had[p]
    BY <1>4 DEF MoveLoad, TypeInv, TypeOK, HadCurrent
  <2>2. o \in OpType /\ OpSound(o)
    BY <2>1 DEF NoOp, OpType, OpPc, OpSound
  <2>3. QED BY <1>4, <2>2, TypeBegin DEF MoveLoad
<1>5. ASSUME NEW k \in Keys, RenameCheck(c, k)
      PROVE  TypeInv'
  <2> DEFINE o == [op[c] EXCEPT !.pc = "rename", !.newKey = k]
  <2>1. o \in OpType /\ OpSound(o)
    BY <1>0, <1>5 DEF RenameCheck, At, OpType, OpPc, OpSound
  <2>2. op' = [op EXCEPT ![c] = o] /\ UNCHANGED <<projectVars, next, issue, calls>>
    BY <1>0, <1>5 DEF RenameCheck, At, OpType
  <2>3. op' \in [Clients -> OpType] /\ OpInv'
    BY <2>1, <2>2, OpMoves DEF OpSound, projectVars
  <2>4. QED BY <2>2, <2>3 DEF TypeInv, TypeOK, HadCurrent, projectVars
<1>6. ASSUME NumberRead(c)
      PROVE  TypeInv'
  <2> DEFINE o == [op[c] EXCEPT !.pc = "number", !.number = next[op[c].project]]
  <2>1. o \in OpType /\ OpSound(o)
    BY <1>0, <1>6 DEF NumberRead, At, OpType, OpPc, OpSound, TypeInv, TypeOK
  <2>2. op' = [op EXCEPT ![c] = o] /\ UNCHANGED <<projectVars, next, issue, calls>>
    BY <1>0, <1>6 DEF NumberRead, At, OpType
  <2>3. op' \in [Clients -> OpType] /\ OpInv'
    BY <2>1, <2>2, OpMoves DEF OpSound, projectVars
  <2>4. QED BY <2>2, <2>3 DEF TypeInv, TypeOK, HadCurrent, projectVars
<1>7. ASSUME Leave(c)
      PROVE  TypeInv'
  <2>1. NoOp \in OpType /\ OpSound(NoOp)
    BY DEF NoOp, OpType, OpPc, OpSound
  <2>2. op' \in [Clients -> OpType] /\ OpInv'
    BY <1>7, <2>1, OpMoves DEF Leave, Return, OpSound, projectVars
  <2>3. QED BY <1>7, <2>2 DEF Leave, TypeInv, TypeOK, HadCurrent, projectVars
<1>8. ASSUME NEW p \in Projects, MigrateFind(c, p)
      PROVE  TypeInv'
  <2> DEFINE o == [NoOp EXCEPT !.pc = "migrate", !.project = p, !.key = op[c].newKey]
  <2>1. op[c].newKey \in Keys /\ op[c].newKey \in had[p]
    BY <1>0, <1>8, ConstantsAssumption
       DEF MigrateFind, At, OpSound, TypeInv, HadCurrent
  <2>2. o \in OpType /\ OpSound(o)
    BY <2>1 DEF NoOp, OpType, OpPc, OpSound
  <2>3. op' = [op EXCEPT ![c] = o] /\ UNCHANGED <<projectVars, next, issue, calls>>
    BY <1>8 DEF MigrateFind, At
  <2>4. op' \in [Clients -> OpType] /\ OpInv'
    BY <2>2, <2>3, OpMoves DEF OpSound, projectVars
  <2>5. QED BY <2>3, <2>4 DEF TypeInv, TypeOK, HadCurrent, projectVars
<1>9. QED BY <1>1, <1>2, <1>3, <1>4, <1>5, <1>6, <1>7, <1>8 DEF LookStep

\* The numbers of issues are natural.
LEMMA KnownNumbersType ==
  ASSUME TypeInv
  PROVE  KnownNumbers \subseteq Nat
BY DEF TypeInv, TypeOK, IssueType, KnownNumbers

LEMMA TypeCounter ==
  ASSUME TypeInv, NEW c \in Clients, CounterStep(c)
  PROVE  TypeInv'
<1>0. /\ op[c] \in OpType /\ OpSound(op[c]) /\ op \in [Clients -> OpType]
      /\ next \in [Projects -> Nat]
  BY DEF TypeInv, TypeOK, OpInv
<1>1. UNCHANGED <<projectVars, issue, calls>>
  BY DEF CounterStep, NumberWrite, MoveReserve, ImportReserve, MigrateCounter, At
<1>2. op[c].project \in Projects /\ op[c].number \in Nat
  BY <1>0 DEF CounterStep, NumberWrite, MoveReserve, ImportReserve, MigrateCounter, At,
              OpSound, OpType
<1>3. CASE NumberWrite(c)
  <2> DEFINE o == [op[c] EXCEPT !.pc = "insertIssue"]
  <2>1. o \in OpType /\ OpSound(o) /\ op' = [op EXCEPT ![c] = o]
    BY <1>0, <1>3 DEF NumberWrite, GoTo, At, OpType, OpPc, OpSound
  <2>2. op' \in [Clients -> OpType] /\ OpInv'
    BY <1>1, <2>1, OpMoves DEF OpSound, projectVars
  <2>3. next' \in [Projects -> Nat]
    BY <1>0, <1>2, <1>3 DEF NumberWrite
  <2>4. QED BY <1>1, <2>2, <2>3 DEF TypeInv, TypeOK, HadCurrent, projectVars
<1>4. ASSUME NEW count \in Nat, NEW pc \in {"moveIssues", "insertImported"},
             op[c].pc \in {"move", "import"}, Reserve(c, count, pc)
      PROVE  TypeInv'
  <2> DEFINE o == [op[c] EXCEPT !.pc = pc, !.number = next[op[c].project]]
  <2>1. o \in OpType /\ OpSound(o) /\ op' = [op EXCEPT ![c] = o]
    BY <1>0, <1>2, <1>4 DEF Reserve, OpType, OpPc, OpSound
  <2>2. op' \in [Clients -> OpType] /\ OpInv'
    BY <1>1, <2>1, OpMoves DEF OpSound, projectVars
  <2>3. next' \in [Projects -> Nat]
    BY <1>0, <1>2, <1>4 DEF Reserve
  <2>4. QED BY <1>1, <2>2, <2>3 DEF TypeInv, TypeOK, HadCurrent, projectVars
<1>5. Cardinality(op[c].moved) \in Nat
  BY <1>0, ConstantsAssumption, FS_Subset, FS_CardinalityType DEF OpType
<1>6. CASE MigrateCounter(c)
  <2>1. NoOp \in OpType /\ OpSound(NoOp)
    BY DEF NoOp, OpType, OpPc, OpSound
  <2>2. op' \in [Clients -> OpType] /\ OpInv'
    BY <1>1, <1>6, <2>1, OpMoves DEF MigrateCounter, Return, OpSound, projectVars
  <2>3. next' \in [Projects -> Nat]
    <3>1. PICK top \in KnownNumbers :
            next' = [next EXCEPT ![op[c].project] = top + 1]
      BY <1>6 DEF MigrateCounter
    <3>2. top \in Nat
      BY KnownNumbersType
    <3>3. QED BY <1>0, <1>2, <3>1, <3>2
  <2>4. QED BY <1>1, <2>2, <2>3 DEF TypeInv, TypeOK, HadCurrent, projectVars
<1>7. QED BY <1>3, <1>4, <1>5, <1>6 DEF CounterStep, MoveReserve, ImportReserve, At

LEMMA TypeKey ==
  ASSUME TypeInv, NEW c \in Clients, KeyStep(c)
  PROVE  /\ TypeInv'
         /\ \A p \in Projects : had[p] \subseteq had'[p]
<1>0. /\ op[c] \in OpType /\ OpSound(op[c]) /\ op \in [Clients -> OpType]
      /\ key \in [Projects -> Keys \union {NoKey}] /\ had \in [Projects -> SUBSET Keys]
      /\ raced \in BOOLEAN /\ next \in [Projects -> Nat] /\ issue \in [Issues -> IssueType]
      /\ alias \in [Keys -> Projects \union {NoProject}]
  BY DEF TypeInv, TypeOK, OpInv
<1>1. PICK p \in Projects, k \in Keys, valid \in BOOLEAN : SetKey(p, k, valid)
  BY <1>0 DEF KeyStep, CreateProjectInsert, ImportProject, RenameCommit, SettingsSave, At,
              OpSound, Available
<1>2. /\ key' \in [Projects -> Keys \union {NoKey}] /\ had' \in [Projects -> SUBSET Keys]
      /\ raced' \in BOOLEAN
  BY <1>0, <1>1 DEF SetKey
<1>3. HadCurrent' /\ \A q \in Projects : had[q] \subseteq had'[q]
  BY <1>0, <1>1 DEF SetKey, HadCurrent, TypeInv
<1>4. PICK o \in OpType : op' = [op EXCEPT ![c] = o] /\ OpSound(o)'
  <2>1. CASE op' = [op EXCEPT ![c] = NoOp]
    <3>1. NoOp \in OpType /\ NoOp.pc = "idle"
      BY DEF NoOp, OpType, OpPc
    <3>2. OpSound(NoOp)'
      BY <3>1 DEF OpSound, NoOp
    <3>3. QED BY <2>1, <3>1, <3>2
  <2>2. ASSUME NEW q \in Projects, ImportProject(c, q)
        PROVE  \E o \in OpType : op' = [op EXCEPT ![c] = o] /\ OpSound(o)'
    <3> DEFINE o == [NoOp EXCEPT !.pc = "import", !.project = q, !.key = op[c].newKey]
    <3>1. op[c].newKey \in Keys /\ op[c].newKey \in had'[q]
      BY <1>0, <2>2 DEF ImportProject, At, SetKey, OpSound
    <3>2. o \in OpType /\ o.pc = "import" /\ o.project = q /\ o.key = op[c].newKey
      BY <3>1 DEF NoOp, OpType, OpPc
    <3>3. /\ o.project \in Projects /\ o.key \in had'[o.project]
          /\ o.pc \notin {"insertProject", "rename", "importProject", "migrateProject"}
      BY <3>1, <3>2
    <3> QED BY <2>2, <3>2, <3>3 DEF ImportProject, OpSound
  <2>3. QED
    BY <2>1, <2>2 DEF KeyStep, CreateProjectInsert, RenameCommit, SettingsSave, Return
<1>5. op' \in [Clients -> OpType] /\ OpInv'
  BY <1>3, <1>4, OpMoves
<1>6. /\ next' \in [Projects -> Nat] /\ issue' \in [Issues -> IssueType]
      /\ alias' \in [Keys -> Projects \union {NoProject}] /\ UNCHANGED calls
  <2>1. ASSUME NEW q \in Projects, CreateProjectInsert(c, q) \/ ImportProject(c, q)
        PROVE  UNCHANGED <<next, issue, alias, calls>>
    BY <2>1 DEF CreateProjectInsert, ImportProject, At
  <2>2. CASE SettingsSave(c)
    BY <1>0, <2>2 DEF SettingsSave, At, OpType
  <2>3. CASE RenameCommit(c)
    <3>1. op[c].project \in Projects /\ op[c].newKey \in Keys /\ UNCHANGED <<next, calls>>
      BY <1>0, <2>3 DEF RenameCommit, At, OpSound
    <3>2. issue' \in [Issues -> IssueType]
      BY <1>0, <2>3, <3>1 DEF RenameCommit, Numbered, IssueType
    <3>3. alias' \in [Keys -> Projects \union {NoProject}]
      BY <1>0, <2>3, <3>1 DEF RenameCommit
    <3>4. QED BY <1>0, <3>1, <3>2, <3>3
  <2>4. QED BY <1>0, <2>1, <2>2, <2>3 DEF KeyStep
<1>7. QED BY <1>2, <1>3, <1>5, <1>6 DEF TypeInv, TypeOK

\* The first statement of a migration: a project may be created.
LEMMA TypeMigrate ==
  ASSUME TypeInv, NEW c \in Clients, NEW k \in Keys, MigrateProject(c, k)
  PROVE  TypeInv'
<1> DEFINE o == [NoOp EXCEPT !.pc = "migrateProject", !.project = NoProject,
                             !.key = NoKey, !.newKey = k]
<1>1. o \in OpType /\ o.pc = "migrateProject" /\ o.newKey = k
  BY DEF NoOp, OpType, OpPc
<1>2. /\ calls < MaxCalls /\ calls' = calls + 1 /\ op' = [op EXCEPT ![c] = o]
      /\ UNCHANGED <<next, issue>>
  BY DEF MigrateProject, Begin
<1> HIDE DEF o
<1>3. OpSound(o) /\ OpSound(o)'
  BY <1>1 DEF OpSound
<1>4. CASE UNCHANGED projectVars
  BY <1>1, <1>2, <1>3, <1>4, TypeBegin
<1>5. ASSUME NEW p \in Projects, NEW valid \in BOOLEAN, SetKey(p, k, valid), alias' = alias
      PROVE  TypeInv'
  <2>0. /\ key \in [Projects -> Keys \union {NoKey}] /\ had \in [Projects -> SUBSET Keys]
        /\ raced \in BOOLEAN
    BY DEF TypeInv, TypeOK
  <2>1. /\ key' \in [Projects -> Keys \union {NoKey}] /\ had' \in [Projects -> SUBSET Keys]
        /\ raced' \in BOOLEAN
    BY <1>5, <2>0 DEF SetKey
  <2>2. HadCurrent' /\ \A q \in Projects : had[q] \subseteq had'[q]
    BY <1>5, <2>0 DEF SetKey, HadCurrent, TypeInv
  <2>3. op' \in [Clients -> OpType] /\ OpInv'
    BY <1>1, <1>2, <1>3, <2>2, OpMoves
  <2>4. calls' \in 0..MaxCalls
    BY <1>2, ConstantsAssumption DEF TypeInv, TypeOK
  <2>5. QED BY <1>2, <1>5, <2>1, <2>2, <2>3, <2>4 DEF TypeInv, TypeOK
<1>6. Available(k, NoProject) \in BOOLEAN
  BY DEF Available
<1>7. QED BY <1>4, <1>5, <1>6 DEF MigrateProject

LEMMA JiraNumberType ==
  ASSUME NEW page \in SUBSET (1..MaxNumber), NEW p \in Projects, NEW top \in Nat,
         NEW n \in page
  PROVE  JiraNumber(p, page, top, n) \in Nat
<1>1. IsFiniteSet(1..MaxNumber)
  BY ConstantsAssumption, FS_Interval
<1>2. Cardinality({m \in page : m <= n}) \in Nat
  BY <1>1, FS_Subset, FS_CardinalityType
<1>3. QED BY <1>2, ConstantsAssumption DEF JiraNumber

LEMMA TypeWrite ==
  ASSUME TypeInv, NEW c \in Clients, WriteStep(c)
  PROVE  TypeInv'
<1>0. /\ op[c] \in OpType /\ OpSound(op[c]) /\ op \in [Clients -> OpType]
      /\ issue \in [Issues -> IssueType]
  BY DEF TypeInv, TypeOK, OpInv
<1>1. UNCHANGED <<projectVars, next, calls>>
  BY DEF WriteStep, IssueInsert, ImportInsert, MoveIssues, MigrateIssues, At
<1>2. /\ op[c].project \in Projects /\ op[c].key \in Keys \union {NoKey}
      /\ op[c].number \in Nat
  BY <1>0 DEF WriteStep, IssueInsert, ImportInsert, MoveIssues, MigrateIssues, At, OpSound,
              OpType
<1>3. issue' \in [Issues -> IssueType]
  <2>1. CASE InsertIssue(c) \/ UNCHANGED issue
    BY <1>0, <1>2, <2>1 DEF InsertIssue, Numbered, IssueType
  <2>2. CASE MoveIssues(c)
    <3>1. Cardinality(op[c].moved) \in Nat
      BY <1>0, ConstantsAssumption, FS_Subset, FS_CardinalityType DEF OpType
    <3>2. \A n \in op[c].number .. (op[c].number + Cardinality(op[c].moved) - 1) : n \in Nat
      BY <1>2, <3>1
    <3>3. QED BY <1>0, <1>2, <2>2, <3>2 DEF MoveIssues, Numbered, IssueType
  <2>3. ASSUME NEW page \in SUBSET (1..MaxNumber), MigrateIssues(c, page)
        PROVE  issue' \in [Issues -> IssueType]
    <3>0. PICK top \in KnownNumbers, fresh \in SUBSET Issues :
            \E n \in [fresh -> page] :
              issue' = [i \in Issues |->
                IF i \in fresh
                THEN [project |-> op[c].project, prefix |-> op[c].key, keyNumber |-> n[i],
                      number |-> JiraNumber(op[c].project, page, top, n[i])]
                ELSE issue[i]]
      BY <2>3 DEF MigrateIssues
    <3>1. PICK n \in [fresh -> page] :
            issue' = [i \in Issues |->
              IF i \in fresh
              THEN [project |-> op[c].project, prefix |-> op[c].key, keyNumber |-> n[i],
                    number |-> JiraNumber(op[c].project, page, top, n[i])]
              ELSE issue[i]]
      BY <3>0
    <3>2. \A i \in fresh :
            n[i] \in Nat /\ JiraNumber(op[c].project, page, top, n[i]) \in Nat
      <4>1. top \in Nat
        BY KnownNumbersType
      <4>2. ASSUME NEW i \in fresh
            PROVE  n[i] \in page /\ n[i] \in Nat
        <5>1. n[i] \in page
          BY <4>2
        <5>2. page \subseteq Nat
          BY ConstantsAssumption
        <5>3. QED BY <5>1, <5>2
      <4>3. QED BY <1>2, <4>1, <4>2, JiraNumberType
    <3>3. QED BY <1>0, <1>2, <3>1, <3>2 DEF IssueType
  <2>4. QED BY <2>1, <2>2, <2>3 DEF WriteStep, IssueInsert, ImportInsert
<1>4. PICK o \in OpType : op' = [op EXCEPT ![c] = o] /\ OpSound(o)
  <2>1. NoOp \in OpType /\ OpSound(NoOp)
    BY DEF NoOp, OpType, OpPc, OpSound
  <2>2. CASE ImportInsert(c)
    <3> DEFINE o == [op[c] EXCEPT !.pc = "import"]
    <3>1. o \in OpType /\ OpSound(o) /\ op' = [op EXCEPT ![c] = o]
      BY <1>0, <2>2 DEF ImportInsert, GoTo, At, OpType, OpPc, OpSound
    <3>2. QED BY <3>1
  <2>3. op' = op => op' = [op EXCEPT ![c] = op[c]]
    BY <1>0
  <2>4. QED
    BY <1>0, <2>1, <2>2, <2>3 DEF WriteStep, IssueInsert, MoveIssues, MigrateIssues, Return
<1>5. op' \in [Clients -> OpType] /\ OpInv'
  BY <1>1, <1>4, OpMoves DEF OpSound, projectVars
<1>6. QED BY <1>1, <1>3, <1>5 DEF TypeInv, TypeOK, HadCurrent, projectVars

LEMMA TypeStep == TypeInv /\ [Next]_vars => TypeInv'
<1> SUFFICES ASSUME TypeInv, [Next]_vars PROVE TypeInv'
  OBVIOUS
<1>1. CASE UNCHANGED vars
  BY <1>1 DEF vars, TypeInv, TypeOK, OpInv, OpSound, HadCurrent
<1>2. ASSUME NEW c \in Clients,
             ProjectStep(c) \/ IssueStep(c) \/ ImportStep(c) \/ MigrateStep(c) \/ Leave(c)
      PROVE  TypeInv'
  BY <1>2, StepCases, TypeLook, TypeCounter, TypeKey, TypeWrite, TypeMigrate
<1>3. QED BY <1>1, <1>2 DEF Next

\* The variables keep their types, whatever calls interleave.
THEOREM TypeCorrect == Spec => []TypeOK
<1>1. TypeInv => TypeOK
  BY DEF TypeInv
<1>2. QED BY TypeInit, TypeStep, <1>1, PTL DEF Spec

-----------------------------------------------------------------------------
(* Keys                                                                    *)

KeysDistinct == \A p, q \in Projects : key[p] = key[q] => p = q \/ key[p] = NoKey

Prefixed ==
  \A i \in Issues :
    issue[i].project \in Projects => issue[i].prefix \in had[issue[i].project]

NumbersDistinct ==
  \A i, j \in Issues :
    /\ issue[i].project \in Projects /\ issue[i].project = issue[j].project
    /\ issue[i].number = issue[j].number
    => i = j

\* A key a project had is its current key or its alias, and a key that is an alias
\* is no other project's current key.
Owned ==
  /\ \A p \in Projects : \A k \in had[p] : key[p] = k \/ alias[k] = p
  /\ \A p, q \in Projects : \A k \in Keys : alias[k] = p /\ key[q] = k => p = q

KeyInv == KeysDistinct /\ Prefixed /\ NumbersDistinct /\ (~raced => Owned)

LEMMA KeyInit == Init => KeyInv
<1> SUFFICES ASSUME Init PROVE KeyInv
  OBVIOUS
<1>1. KeysDistinct
  BY DEF Init, KeysDistinct
<1>2. \A i \in Issues : issue[i].project = NoProject
  BY DEF Init, NoIssue
<1>3. Prefixed /\ NumbersDistinct
  BY <1>2, ConstantsAssumption DEF Prefixed, NumbersDistinct
<1>4. Owned
  BY ConstantsAssumption DEF Init, Owned
<1>5. QED BY <1>1, <1>3, <1>4 DEF KeyInv

\* The steps that write no key and no issue.
LEMMA KeyQuiet ==
  ASSUME KeyInv, UNCHANGED <<projectVars, issue>>
  PROVE  KeyInv'
BY DEF KeyInv, KeysDistinct, Prefixed, NumbersDistinct, Owned, projectVars

\* A project that did not exist takes a key.
LEMMA KeyCreate ==
  ASSUME TypeInv, KeyInv, NEW p \in Projects, NEW k \in Keys,
         key[p] = NoKey, KeyFree(k, p), SetKey(p, k, Available(k, NoProject)),
         UNCHANGED <<alias, issue>>
  PROVE  KeyInv'
<1>0. /\ key \in [Projects -> Keys \union {NoKey}] /\ had \in [Projects -> SUBSET Keys]
      /\ alias \in [Keys -> Projects \union {NoProject}]
  BY DEF TypeInv, TypeOK
<1>1. KeysDistinct'
  BY <1>0, ConstantsAssumption DEF KeyInv, KeysDistinct, SetKey, KeyFree
<1>2. \A q \in Projects : had[q] \subseteq had'[q]
  BY <1>0 DEF SetKey
<1>3. Prefixed' /\ NumbersDistinct'
  BY <1>2 DEF KeyInv, Prefixed, NumbersDistinct
<1>4. ASSUME ~raced'
      PROVE  Owned'
  <2>1. Owned /\ alias[k] = NoProject
    BY <1>4 DEF KeyInv, SetKey, Available
  <2>2. ASSUME NEW q \in Projects, NEW j \in had'[q]
        PROVE  key'[q] = j \/ alias'[j] = q
    BY <1>0, <2>1, <2>2, ConstantsAssumption DEF Owned, SetKey
  <2>3. ASSUME NEW q \in Projects, NEW r \in Projects, NEW j \in Keys,
               alias'[j] = q, key'[r] = j
        PROVE  q = r
    BY <1>0, <2>1, <2>3, ConstantsAssumption DEF Owned, SetKey
  <2>4. QED BY <2>2, <2>3 DEF Owned
<1>5. QED BY <1>1, <1>3, <1>4 DEF KeyInv

\* A rename that nothing overtook leaves the old key as an alias and takes a key
\* that is free.
LEMMA KeyRename ==
  ASSUME TypeInv, KeyInv, NEW c \in Clients, RenameCommit(c)
  PROVE  KeyInv'
<1> DEFINE p == op[c].project
           k == op[c].newKey
           old == op[c].key
<1>0. /\ key \in [Projects -> Keys \union {NoKey}] /\ had \in [Projects -> SUBSET Keys]
      /\ alias \in [Keys -> Projects \union {NoProject}]
      /\ issue \in [Issues -> IssueType]
  BY DEF TypeInv, TypeOK
<1>1. p \in Projects /\ k \in Keys /\ old \in had[p] /\ old \in Keys
  BY <1>0 DEF RenameCommit, At, TypeInv, OpInv, OpSound
<1>2. /\ KeyFree(k, p)
      /\ SetKey(p, k, key[p] = old /\ Available(k, p))
      /\ alias' = IF alias[old] = NoProject THEN [alias EXCEPT ![old] = p] ELSE alias
      /\ issue' = [i \in Issues |-> IF issue[i].project = p
                                    THEN Numbered(p, k, issue[i].number) ELSE issue[i]]
  BY DEF RenameCommit
<1>3. KeysDistinct'
  BY <1>0, <1>1, <1>2, ConstantsAssumption DEF KeyInv, KeysDistinct, SetKey, KeyFree
<1>4. \A q \in Projects : had[q] \subseteq had'[q]
  BY <1>0, <1>2 DEF SetKey
<1>5. ASSUME NEW i \in Issues
      PROVE  /\ issue'[i].project = issue[i].project /\ issue'[i].number = issue[i].number
             /\ issue'[i].prefix = IF issue[i].project = p THEN k ELSE issue[i].prefix
  BY <1>0, <1>2 DEF Numbered, IssueType
<1>6. k \in had'[p]
  BY <1>0, <1>1, <1>2 DEF SetKey
<1>7. Prefixed' /\ NumbersDistinct'
  BY <1>4, <1>5, <1>6 DEF KeyInv, Prefixed, NumbersDistinct
<1>8. ASSUME ~raced'
      PROVE  Owned'
  <2>1. Owned /\ KeysDistinct /\ key[p] = old /\ alias[k] \in {NoProject, p}
    BY <1>2, <1>8 DEF KeyInv, SetKey, Available
  <2>2. alias'[old] = p
    BY <1>0, <1>1, <1>2, <2>1 DEF Owned
  <2>3. \A j \in Keys : j # old => alias'[j] = alias[j]
    BY <1>0, <1>1, <1>2
  <2>4. /\ \A q \in Projects : q # p => key'[q] = key[q] /\ had'[q] = had[q]
        /\ key'[p] = k /\ had'[p] = had[p] \union {k}
    BY <1>0, <1>1, <1>2 DEF SetKey
  <2>5. ASSUME NEW q \in Projects, NEW j \in had'[q]
        PROVE  key'[q] = j \/ alias'[j] = q
    <3>1. j \in Keys
      BY <1>0, <1>1, <2>4
    <3>2. CASE q = p
      BY <2>1, <2>2, <2>3, <2>4, <3>1, <3>2 DEF Owned
    <3>3. CASE q # p
      <4>1. key[q] = j \/ alias[j] = q
        BY <2>1, <2>4, <3>3 DEF Owned
      <4>2. j # old
        BY <1>1, <2>1, <3>3, <4>1, ConstantsAssumption DEF Owned, KeysDistinct
      <4>3. QED BY <2>3, <2>4, <3>1, <3>3, <4>1, <4>2
    <3>4. QED BY <3>2, <3>3
  <2>6. ASSUME NEW q \in Projects, NEW r \in Projects, NEW j \in Keys,
               alias'[j] = q, key'[r] = j
        PROVE  q = r
    <3>1. CASE j = old
      BY <1>1, <2>1, <2>2, <2>4, <2>6, <3>1, ConstantsAssumption DEF KeysDistinct
    <3>2. CASE j # old
      BY <2>1, <2>3, <2>4, <2>6, <3>2, ConstantsAssumption DEF Owned
    <3>3. QED BY <3>1, <3>2
  <2>7. QED BY <2>5, <2>6 DEF Owned
<1>9. QED BY <1>3, <1>7, <1>8 DEF KeyInv

LEMMA KeySave ==
  ASSUME TypeInv, KeyInv, NEW c \in Clients, SettingsSave(c)
  PROVE  KeyInv'
<1> DEFINE p == op[c].project
           k == op[c].key
<1>0. /\ key \in [Projects -> Keys \union {NoKey}] /\ had \in [Projects -> SUBSET Keys]
  BY DEF TypeInv, TypeOK
<1>1. p \in Projects /\ k \in had[p] /\ k \in Keys
  BY <1>0 DEF SettingsSave, At, TypeInv, OpInv, OpSound
<1>2. KeyFree(k, p) /\ SetKey(p, k, key[p] = k) /\ UNCHANGED <<alias, issue>>
  BY DEF SettingsSave
<1>3. KeysDistinct'
  BY <1>0, <1>1, <1>2, ConstantsAssumption DEF KeyInv, KeysDistinct, SetKey, KeyFree
<1>4. had' = had
  BY <1>0, <1>1, <1>2 DEF SetKey
<1>5. Prefixed' /\ NumbersDistinct'
  BY <1>2, <1>4 DEF KeyInv, Prefixed, NumbersDistinct
<1>6. ASSUME ~raced'
      PROVE  Owned'
  <2>1. Owned /\ key' = key
    BY <1>0, <1>1, <1>2, <1>6 DEF KeyInv, SetKey
  <2>2. QED BY <1>2, <1>4, <2>1 DEF Owned
<1>7. QED BY <1>3, <1>5, <1>6 DEF KeyInv

\* An issue is inserted, or a block of issues moves, under a key its project had
\* and numbers that are free.
LEMMA KeyWrite ==
  ASSUME TypeInv, KeyInv, NEW c \in Clients, WriteStep(c)
  PROVE  KeyInv'
<1> DEFINE p == op[c].project
<1>0. issue \in [Issues -> IssueType] /\ UNCHANGED projectVars
  BY DEF TypeInv, TypeOK, WriteStep, IssueInsert, ImportInsert, MoveIssues, MigrateIssues
<1>1. p \in Projects /\ op[c].key \in had[p]
  BY DEF WriteStep, IssueInsert, ImportInsert, MoveIssues, MigrateIssues, At, TypeInv, OpInv,
         OpSound
<1>2. KeysDistinct' /\ (~raced' => Owned')
  BY <1>0 DEF KeyInv, KeysDistinct, Owned, projectVars
<1>3. Prefixed' /\ NumbersDistinct'
  <2>1. CASE UNCHANGED issue
    BY <1>0, <2>1 DEF KeyInv, Prefixed, NumbersDistinct, projectVars
  <2>2. CASE InsertIssue(c)
    <3>1. PICK i \in Issues :
            issue' = [issue EXCEPT ![i] = Numbered(p, op[c].key, op[c].number)]
      BY <2>2 DEF InsertIssue
    <3>2. /\ issue'[i].project = p /\ issue'[i].prefix = op[c].key
          /\ issue'[i].number = op[c].number
          /\ \A j \in Issues : j # i => issue'[j] = issue[j]
      BY <1>0, <3>1 DEF Numbered
    <3>3. \A j \in Issues : issue[j].project = p => issue[j].number # op[c].number
      BY <2>2 DEF InsertIssue, NumberFree
    <3>4. Prefixed'
      BY <1>0, <1>1, <3>2 DEF KeyInv, Prefixed, projectVars
    <3>5. NumbersDistinct'
      BY <3>2, <3>3 DEF KeyInv, NumbersDistinct
    <3>6. QED BY <3>4, <3>5
  <2>3. CASE MoveIssues(c)
    <3> DEFINE moved == op[c].moved
               block == op[c].number .. (op[c].number + Cardinality(moved) - 1)
    <3>1. \A i \in Issues \ moved : issue[i].project = p => issue[i].number \notin block
      BY <2>3 DEF MoveIssues
    <3>2. PICK number \in [moved -> block] :
            /\ \A i, j \in moved : number[i] = number[j] => i = j
            /\ issue' = [i \in Issues |->
                 IF i \in moved THEN Numbered(p, op[c].key, number[i]) ELSE issue[i]]
      BY <2>3 DEF MoveIssues
    <3>3. /\ \A i \in moved :
               issue'[i].project = p /\ issue'[i].prefix = op[c].key
                 /\ issue'[i].number = number[i] /\ number[i] \in block
          /\ \A i \in Issues : i \notin moved => issue'[i] = issue[i]
          /\ \A i, j \in moved : number[i] = number[j] => i = j
          /\ moved \subseteq Issues
      BY <3>2 DEF TypeInv, TypeOK, OpType, Numbered
    <3> HIDE DEF moved, block
    <3>4. Prefixed'
      BY <1>0, <1>1, <3>3 DEF KeyInv, Prefixed, projectVars
    <3>5. NumbersDistinct'
      BY <3>1, <3>3 DEF KeyInv, NumbersDistinct
    <3>6. QED BY <3>4, <3>5
  <2>4. ASSUME NEW page \in SUBSET (1..MaxNumber), MigrateIssues(c, page)
        PROVE  Prefixed' /\ NumbersDistinct'
    <3>0. PICK top \in KnownNumbers, fresh \in SUBSET Issues :
            \E n \in [fresh -> page] :
              /\ \A i, j \in fresh :
                   JiraNumber(p, page, top, n[i]) = JiraNumber(p, page, top, n[j]) => i = j
              /\ \A i \in fresh : NumberFree(p, JiraNumber(p, page, top, n[i]))
              /\ issue' = [i \in Issues |->
                   IF i \in fresh
                   THEN [project |-> p, prefix |-> op[c].key, keyNumber |-> n[i],
                         number |-> JiraNumber(p, page, top, n[i])]
                   ELSE issue[i]]
      BY <2>4 DEF MigrateIssues
    <3>1. PICK n \in [fresh -> page] :
            /\ \A i, j \in fresh :
                 JiraNumber(p, page, top, n[i]) = JiraNumber(p, page, top, n[j]) => i = j
            /\ \A i \in fresh : NumberFree(p, JiraNumber(p, page, top, n[i]))
            /\ issue' = [i \in Issues |->
                 IF i \in fresh
                 THEN [project |-> p, prefix |-> op[c].key, keyNumber |-> n[i],
                       number |-> JiraNumber(p, page, top, n[i])]
                 ELSE issue[i]]
      BY <3>0
    <3> DEFINE number(i) == JiraNumber(p, page, top, n[i])
    <3>2. /\ \A i \in fresh :
               issue'[i].project = p /\ issue'[i].prefix = op[c].key
                 /\ issue'[i].number = number(i)
          /\ \A i \in Issues : i \notin fresh => issue'[i] = issue[i]
      BY <3>1
    <3>3. \A i \in fresh, j \in Issues : issue[j].project = p => issue[j].number # number(i)
      BY <3>1 DEF NumberFree
    <3>4. \A i, j \in fresh : number(i) = number(j) => i = j
      BY <3>1
    <3> HIDE DEF number
    <3>5. Prefixed'
      BY <1>0, <1>1, <3>2 DEF KeyInv, Prefixed, projectVars
    <3>6. NumbersDistinct'
      BY <3>2, <3>3, <3>4 DEF KeyInv, NumbersDistinct
    <3>7. QED BY <3>5, <3>6
  <2>5. QED BY <2>1, <2>2, <2>3, <2>4 DEF WriteStep, IssueInsert, ImportInsert
<1>4. QED BY <1>2, <1>3 DEF KeyInv

LEMMA KeyStepKept ==
  ASSUME TypeInv, KeyInv, [Next]_vars
  PROVE  KeyInv'
<1>1. CASE UNCHANGED vars
  BY <1>1, KeyQuiet DEF vars, projectVars
<1>2. ASSUME NEW c \in Clients,
             ProjectStep(c) \/ IssueStep(c) \/ ImportStep(c) \/ MigrateStep(c) \/ Leave(c)
      PROVE  KeyInv'
  <2>1. CASE LookStep(c) \/ CounterStep(c)
    BY <2>1, KeyQuiet
       DEF LookStep, CreateProjectCheck, RenameCheck, ImportLookup, SettingsLoad, IssueLoad,
           ImportInto, MigrateFind, MoveLoad, NumberRead, Leave, CounterStep, NumberWrite,
           MoveReserve, ImportReserve, MigrateCounter
  <2>2. ASSUME NEW p \in Projects, CreateProjectInsert(c, p) \/ ImportProject(c, p)
        PROVE  KeyInv'
    <3>1. op[c].newKey \in Keys
      BY <2>2 DEF CreateProjectInsert, ImportProject, At, TypeInv, OpInv, OpSound
    <3>2. QED BY <2>2, <3>1, KeyCreate DEF CreateProjectInsert, ImportProject
  <2>3. CASE RenameCommit(c) \/ SettingsSave(c) \/ WriteStep(c)
    BY <2>3, KeyRename, KeySave, KeyWrite
  <2>4. ASSUME NEW k \in Keys, MigrateProject(c, k)
        PROVE  KeyInv'
    BY <2>4, KeyQuiet, KeyCreate DEF MigrateProject
  <2>5. QED BY <1>2, <2>1, <2>2, <2>3, <2>4, StepCases DEF KeyStep
<1>3. QED BY <1>1, <1>2 DEF Next

LEMMA OwnedResolves ==
  ASSUME Owned, NEW p \in Projects, NEW k \in had[p], had[p] \subseteq Keys
  PROVE  ResolvesTo(k, p)
BY DEF Owned, ResolvesTo

\* While no project took a key its call could no longer have chosen, every key a
\* project ever had and every issue key leads to that project.
THEOREM KeysAlwaysResolve == Spec => []KeysResolve
<1>1. Init => TypeInv /\ KeyInv
  BY TypeInit, KeyInit
<1>2. (TypeInv /\ KeyInv) /\ [Next]_vars => (TypeInv /\ KeyInv)'
  BY TypeStep, KeyStepKept
<1>3. TypeInv /\ KeyInv => KeysResolve
  <2> SUFFICES ASSUME TypeInv, KeyInv, ~raced
               PROVE  /\ \A p \in Projects : \A k \in had[p] : ResolvesTo(k, p)
                      /\ \A i \in Issues : issue[i].project # NoProject =>
                           ResolvesTo(issue[i].prefix, issue[i].project)
    BY DEF KeysResolve
  <2>1. \A p \in Projects : \A k \in had[p] : ResolvesTo(k, p)
    BY OwnedResolves DEF KeyInv, TypeInv, TypeOK
  <2>2. \A i \in Issues : issue[i].project # NoProject =>
          issue[i].project \in Projects /\ issue[i].prefix \in had[issue[i].project]
    BY DEF KeyInv, Prefixed, TypeInv, TypeOK, IssueType
  <2>3. QED BY <2>1, <2>2
<1>4. QED BY <1>1, <1>2, <1>3, PTL DEF Spec

\* Under the same condition no two issues of the organization share a key, but for those
\* the migration gave another number than the one in their key.
THEOREM IssueKeysAlwaysUnique == Spec => []IssueKeysUnique
<1>1. Init => TypeInv /\ KeyInv
  BY TypeInit, KeyInit
<1>2. (TypeInv /\ KeyInv) /\ [Next]_vars => (TypeInv /\ KeyInv)'
  BY TypeStep, KeyStepKept
<1>3. TypeInv /\ KeyInv => IssueKeysUnique
  <2> SUFFICES ASSUME TypeInv, KeyInv, ~raced, NEW i \in Issues, NEW j \in Issues,
                      issue[i].project # NoProject, issue[j].project # NoProject,
                      issue[i].prefix = issue[j].prefix,
                      issue[i].keyNumber = issue[j].keyNumber,
                      ~Renumbered(i), ~Renumbered(j)
               PROVE  i = j
    BY DEF IssueKeysUnique
  <2> DEFINE p == issue[i].project
             q == issue[j].project
             k == issue[i].prefix
  <2>1. p \in Projects /\ q \in Projects /\ k \in had[p] /\ k \in had[q]
    BY DEF KeyInv, Prefixed, TypeInv, TypeOK, IssueType
  <2>2. k \in Keys
    BY <2>1 DEF TypeInv, TypeOK
  <2>3. p = q
    <3>1. (key[p] = k \/ alias[k] = p) /\ (key[q] = k \/ alias[k] = q)
      BY <2>1 DEF KeyInv, Owned
    <3>2. Owned /\ KeysDistinct
      BY DEF KeyInv
    <3> HIDE DEF p, q, k
    <3>3. CASE key[p] = k
      <4>1. alias[k] = q => q = p
        BY <2>1, <2>2, <3>2, <3>3 DEF Owned
      <4>2. key[q] = k => p = q
        BY <2>1, <2>2, <3>2, <3>3, ConstantsAssumption DEF KeysDistinct
      <4>3. QED BY <3>1, <4>1, <4>2
    <3>4. CASE alias[k] = p
      BY <2>1, <2>2, <3>1, <3>2, <3>4 DEF Owned
    <3>5. QED BY <3>1, <3>3, <3>4
  <2>4. issue[i].number = issue[j].number
    BY DEF Renumbered
  <2>5. QED BY <2>1, <2>3, <2>4 DEF KeyInv, NumbersDistinct
<1>4. QED BY <1>1, <1>2, <1>3, PTL DEF Spec
=============================================================================
