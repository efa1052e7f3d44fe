----------------------------- MODULE ProjectKeys -----------------------------
(***************************************************************************)
(* Project keys, the aliases that keep old keys working, and the numbers   *)
(* and keys of issues, in one organization:                                *)
(*   - ProjectsService: create, update (a rename or a plain settings       *)
(*     change), resolveProjectId, getNextIssueNumber;                      *)
(*   - IssuesService: create and bulkMove;                                 *)
(*   - the import worker and the Jira migration, which create projects and *)
(*     number issues too.                                                  *)
(* Every call is a chain of awaited statements; a step is one statement,   *)
(* or one transaction where the code opens one.                            *)
(* issues.key is a text, the prefix and the number in it.  The number in   *)
(* the key of an issue from Jira may be another one than its own.          *)
(***************************************************************************)
EXTENDS Integers, FiniteSets

CONSTANTS
  Clients,    \* calls in flight
  Projects,   \* project ids
  Keys,       \* project keys
  Issues,     \* issue ids
  NoProject,
  NoKey,
  MaxCalls,   \* bound: calls ever made
  MaxNumber   \* bound: issue numbers handed out by atomic reservations

ASSUME ConstantsAssumption ==
  /\ NoProject \notin Projects /\ NoKey \notin Keys
  /\ MaxCalls \in Nat /\ MaxNumber \in Nat
  /\ IsFiniteSet(Issues)

VARIABLES
  key,    \* projects.key, NoKey while the project does not exist
  alias,  \* project_key_aliases: old_key to project_id
  next,   \* projects.next_issue_number
  issue,  \* issues
  op,     \* calls in flight
  calls,  \* calls made so far
  had,    \* history: keys a project ever had
  raced   \* history: a key was written that its call could no longer have chosen

vars == <<key, alias, next, issue, op, calls, had, raced>>
projectVars == <<key, alias, had, raced>>

OpPc == {"idle", "insertProject", "settings", "rename", "issue", "number", "insertIssue",
         "move", "moveIssues", "importProject", "import", "insertImported",
         "migrateProject", "migrate"}

IssueType == [project: Projects \union {NoProject}, prefix: Keys \union {NoKey},
              keyNumber: Nat, number: Nat]
NoIssue == [project |-> NoProject, prefix |-> NoKey, keyNumber |-> 0, number |-> 0]

\* key is the project key the call read, newKey the one it asked for.
OpType == [pc: OpPc, project: Projects \union {NoProject}, key: Keys \union {NoKey},
           newKey: Keys \union {NoKey}, number: Nat, moved: SUBSET Issues]
NoOp == [pc |-> "idle", project |-> NoProject, key |-> NoKey, newKey |-> NoKey,
         number |-> 0, moved |-> {}]

TypeOK ==
  /\ key \in [Projects -> Keys \union {NoKey}]
  /\ alias \in [Keys -> Projects \union {NoProject}]
  /\ next \in [Projects -> Nat]
  /\ issue \in [Issues -> IssueType]
  /\ op \in [Clients -> OpType]
  /\ calls \in 0..MaxCalls
  /\ had \in [Projects -> SUBSET Keys]
  /\ raced \in BOOLEAN

\* Any projects with distinct keys, created one after the other.
Init ==
  /\ key \in [Projects -> Keys \union {NoKey}]
  /\ \A p, q \in Projects : key[p] = key[q] => p = q \/ key[p] = NoKey
  /\ alias = [k \in Keys |-> NoProject]
  /\ next = [p \in Projects |-> 1]
  /\ issue = [i \in Issues |-> NoIssue]
  /\ op = [c \in Clients |-> NoOp]
  /\ calls = 0
  /\ had = [p \in Projects |-> {key[p]} \ {NoKey}]
  /\ raced = FALSE

-----------------------------------------------------------------------------
\* resolveProjectId: current keys first, then aliases.
ResolvesTo(k, p) ==
  \/ key[p] = k
  \/ alias[k] = p /\ \A q \in Projects : key[q] # k

\* Mutant: aliases are not looked up.
AvailableIgnoringAliases(k, exclude) == \A q \in Projects : key[q] = k => q = exclude

\* assertProjectKeyAvailable: two reads, the projects and then the aliases.  An
\* alias is never deleted, so a key that is free at both reads is free at the first.
Available(k, exclude) ==
  /\ \A q \in Projects : key[q] = k => q = exclude
  /\ alias[k] \in {NoProject, exclude}

\* UQ_projects_org_key.
KeyFree(k, p) == \A q \in Projects \ {p} : key[q] # k

\* Mutant: no unique constraint.
AnyNumber(p, n) == TRUE

\* UQ_issues_project_number.
NumberFree(p, n) == \A i \in Issues : issue[i].project = p => issue[i].number # n

\* A project takes a key; valid tells whether the call's reads still hold.
SetKey(p, k, valid) ==
  /\ key' = [key EXCEPT ![p] = k]
  /\ had' = [had EXCEPT ![p] = @ \union {k}]
  /\ raced' = (raced \/ ~valid)

\* An issue whose key is made of the project's key and its own number.
Numbered(p, k, n) == [project |-> p, prefix |-> k, keyNumber |-> n, number |-> n]

Begin(c, pc, p, k, newKey) ==
  /\ op[c].pc = "idle" /\ calls < MaxCalls
  /\ calls' = calls + 1
  /\ op' = [op EXCEPT ![c] = [NoOp EXCEPT !.pc = pc, !.project = p, !.key = k,
                                          !.newKey = newKey]]

At(c, pc) == op[c].pc = pc /\ UNCHANGED calls
GoTo(c, pc) == op' = [op EXCEPT ![c].pc = pc]
Return(c) == op' = [op EXCEPT ![c] = NoOp]

-----------------------------------------------------------------------------
(* ProjectsService                                                         *)

\* create: the key is checked, the project inserted later.
CreateProjectCheck(c, k) ==
  /\ Available(k, NoProject)
  /\ Begin(c, "insertProject", NoProject, NoKey, k)
  /\ UNCHANGED <<projectVars, next, issue>>

CreateProjectInsert(c, p) ==
  /\ At(c, "insertProject")
  /\ key[p] = NoKey /\ KeyFree(op[c].newKey, p)
  /\ SetKey(p, op[c].newKey, Available(op[c].newKey, NoProject))
  /\ Return(c)
  /\ UNCHANGED <<alias, next, issue>>

\* update: the entity is loaded; a rename and a plain save start here.
SettingsLoad(c, p) ==
  /\ key[p] # NoKey
  /\ op[c].pc = "idle" /\ calls < MaxCalls
  /\ calls' = calls + 1
  /\ op' = [op EXCEPT ![c] = [NoOp EXCEPT !.pc = "settings", !.project = p,
                                          !.key = key[p], !.number = next[p]]]
  /\ UNCHANGED <<projectVars, next, issue>>

RenameCheck(c, k) ==
  /\ At(c, "settings")
  /\ k # op[c].key /\ Available(k, op[c].project)
  /\ op' = [op EXCEPT ![c].pc = "rename", ![c].newKey = k]
  /\ UNCHANGED <<projectVars, next, issue>>

\* The rename transaction: FOR UPDATE, the alias of the key read before the
\* transaction (ON CONFLICT DO NOTHING), the project's key, the keys of its issues.
RenameCommit(c) ==
  /\ At(c, "rename")
  /\ LET p == op[c].project
         k == op[c].newKey
     IN /\ KeyFree(k, p)
        /\ SetKey(p, k, key[p] = op[c].key /\ Available(k, p))
        /\ alias' = IF alias[op[c].key] = NoProject THEN [alias EXCEPT ![op[c].key] = p]
                    ELSE alias
        /\ issue' = [i \in Issues |-> IF issue[i].project = p
                                      THEN Numbered(p, k, issue[i].number)
                                      ELSE issue[i]]
  /\ Return(c)
  /\ UNCHANGED next

\* Mutant: the key of the request is assigned although it holds none.
SettingsSaveNewKey(c) ==
  /\ At(c, "settings")
  /\ LET p == op[c].project
     IN /\ KeyFree(op[c].newKey, p)
        /\ SetKey(p, op[c].newKey, key[p] = op[c].key)
        /\ next' = [next EXCEPT ![p] = op[c].number]
  /\ Return(c)
  /\ UNCHANGED <<alias, issue>>

\* update without a new key: save() writes the loaded entity back, its key and its
\* next_issue_number included.
SettingsSave(c) ==
  /\ At(c, "settings")
  /\ LET p == op[c].project
     IN /\ KeyFree(op[c].key, p)
        /\ SetKey(p, op[c].key, key[p] = op[c].key)
        /\ next' = [next EXCEPT ![p] = op[c].number]
  /\ Return(c)
  /\ UNCHANGED <<alias, issue>>

-----------------------------------------------------------------------------
(* IssuesService                                                           *)

\* A new row in issues, if the unique constraint lets it in.
InsertIssue(c) ==
  LET p == op[c].project
  IN /\ NumberFree(p, op[c].number)
     /\ \E i \in Issues :
          /\ issue[i].project = NoProject
          /\ issue' = [issue EXCEPT ![i] = Numbered(p, op[c].key, op[c].number)]

\* create: the project, its key included, is read first...
IssueLoad(c, p) ==
  /\ key[p] # NoKey
  /\ Begin(c, "issue", p, key[p], NoKey)
  /\ UNCHANGED <<projectVars, next, issue>>

\* ...then getNextIssueNumber reads the counter and writes it back...
NumberRead(c) ==
  /\ At(c, "issue")
  /\ op' = [op EXCEPT ![c].pc = "number", ![c].number = next[op[c].project]]
  /\ UNCHANGED <<projectVars, next, issue>>

NumberWrite(c) ==
  /\ At(c, "number")
  /\ next' = [next EXCEPT ![op[c].project] = op[c].number + 1]
  /\ GoTo(c, "insertIssue")
  /\ UNCHANGED <<projectVars, issue>>

\* ...and the issue is saved under the key read at the beginning.
IssueInsert(c) ==
  /\ At(c, "insertIssue")
  /\ InsertIssue(c)
  /\ Return(c)
  /\ UNCHANGED <<projectVars, next>>

\* bulkMove: the target project and the issues that exist are read.
MoveLoad(c, p, moved) ==
  /\ key[p] # NoKey
  /\ moved # {} /\ \A i \in moved : issue[i].project # NoProject
  /\ op[c].pc = "idle" /\ calls < MaxCalls
  /\ calls' = calls + 1
  /\ op' = [op EXCEPT ![c] = [NoOp EXCEPT !.pc = "move", !.project = p,
                                          !.key = key[p], !.moved = moved]]
  /\ UNCHANGED <<projectVars, next, issue>>

\* A call's atomic reservation of count numbers.
Reserve(c, count, pc) ==
  LET p == op[c].project
  IN /\ next[p] + count <= MaxNumber + 1
     /\ next' = [next EXCEPT ![p] = @ + count]
     /\ op' = [op EXCEPT ![c].pc = pc, ![c].number = next[p]]

\* bulkMove reserves a block of numbers.  Whether the call goes on depends on the
\* shape of the driver's answer (rows is read from it), so it may also end here.
MoveReserve(c) ==
  /\ At(c, "move")
  /\ Reserve(c, Cardinality(op[c].moved), "moveIssues")
  /\ UNCHANGED <<projectVars, issue>>

\* One UPDATE moves the issues and gives each a number of the block.
MoveIssues(c) ==
  /\ At(c, "moveIssues")
  /\ LET p     == op[c].project
         moved == op[c].moved
         block == op[c].number .. (op[c].number + Cardinality(moved) - 1)
     IN /\ \A i \in Issues \ moved : issue[i].project = p => issue[i].number \notin block
        /\ \E number \in [moved -> block] :
             /\ \A i, j \in moved : number[i] = number[j] => i = j
             /\ issue' = [i \in Issues |->
                  IF i \in moved THEN Numbered(p, op[c].key, number[i]) ELSE issue[i]]
  /\ Return(c)
  /\ UNCHANGED <<projectVars, next>>

-----------------------------------------------------------------------------
(* The import worker                                                       *)

\* The target project, by id or by its current key.
ImportInto(c, p) ==
  /\ key[p] # NoKey
  /\ Begin(c, "import", p, key[p], NoKey)
  /\ UNCHANGED <<projectVars, next, issue>>

\* No project has the key of the Jira project: aliases are not looked up.
ImportLookup(c, k) ==
  /\ \A q \in Projects : key[q] # k
  /\ Begin(c, "importProject", NoProject, NoKey, k)
  /\ UNCHANGED <<projectVars, next, issue>>

ImportProject(c, p) ==
  /\ At(c, "importProject")
  /\ key[p] = NoKey /\ KeyFree(op[c].newKey, p)
  /\ SetKey(p, op[c].newKey, Available(op[c].newKey, NoProject))
  /\ op' = [op EXCEPT ![c] = [NoOp EXCEPT !.pc = "import", !.project = p,
                                          !.key = op[c].newKey]]
  /\ UNCHANGED <<alias, next, issue>>

\* For every issue of the import: the next number, atomically...
ImportReserve(c) ==
  /\ At(c, "import")
  /\ Reserve(c, 1, "insertImported")
  /\ UNCHANGED <<projectVars, issue>>

\* ...and the insert, under the key read when the import began.  An issue that was
\* imported before is updated in place and one that cannot be inserted is skipped;
\* the number is spent either way.
ImportInsert(c) ==
  /\ At(c, "insertImported")
  /\ InsertIssue(c) \/ UNCHANGED issue
  /\ GoTo(c, "import")
  /\ UNCHANGED <<projectVars, next>>

-----------------------------------------------------------------------------
(* The Jira migration                                                      *)

\* The project of the Jira project's key is inserted, unless one has that key or the insert
\* fails, which is only logged; aliases are not looked up...
MigrateProject(c, k) ==
  /\ Begin(c, "migrateProject", NoProject, NoKey, k)
  /\ \/ UNCHANGED projectVars
     \/ \E p \in Projects :
          /\ key[p] = NoKey /\ KeyFree(k, p)
          /\ SetKey(p, k, Available(k, NoProject))
          /\ UNCHANGED alias
  /\ UNCHANGED <<next, issue>>

\* ...and then looked up by its key; one that has gone is skipped.
MigrateFind(c, p) ==
  /\ At(c, "migrateProject")
  /\ key[p] = op[c].newKey
  /\ op' = [op EXCEPT ![c] = [NoOp EXCEPT !.pc = "migrate", !.project = p,
                                          !.key = op[c].newKey]]
  /\ UNCHANGED <<projectVars, next, issue>>

\* The highest number of a project's issues.
HighestNumber(p, n) ==
  /\ \A i \in Issues : issue[i].project = p => issue[i].number <= n
  /\ n = 0 \/ \E i \in Issues : issue[i].project = p /\ issue[i].number = n

KnownNumbers == {0} \union {issue[i].number : i \in Issues}

\* The number of issue n of a page: its Jira number if free, the highest and its rank in
\* the page otherwise.
JiraNumber(p, page, top, n) ==
  IF NumberFree(p, n) THEN n ELSE top + Cardinality({m \in page : m <= n})

\* A page of issues, in one statement, or a page of one when that failed.  Those that were
\* migrated before are updated in place; new ones keep the key they have in Jira.
MigrateIssues(c, page) ==
  LET p == op[c].project IN
  /\ At(c, "migrate")
  /\ \E top \in KnownNumbers, fresh \in SUBSET Issues :
       /\ HighestNumber(p, top)
       /\ \A i \in fresh : issue[i].project = NoProject
       /\ \E n \in [fresh -> page] :
            /\ \A i, j \in fresh :
                 JiraNumber(p, page, top, n[i]) = JiraNumber(p, page, top, n[j]) => i = j
            /\ \A i \in fresh : NumberFree(p, JiraNumber(p, page, top, n[i]))
            /\ issue' = [i \in Issues |->
                 IF i \in fresh
                 THEN [project |-> p, prefix |-> op[c].key, keyNumber |-> n[i],
                       number |-> JiraNumber(p, page, top, n[i])]
                 ELSE issue[i]]
  /\ UNCHANGED <<projectVars, next, op>>

\* After the last page the counter is set to what follows the highest number.
MigrateCounter(c) ==
  /\ At(c, "migrate")
  /\ \E top \in KnownNumbers :
       /\ HighestNumber(op[c].project, top)
       /\ next' = [next EXCEPT ![op[c].project] = top + 1]
  /\ Return(c)
  /\ UNCHANGED <<projectVars, issue>>

\* A statement fails, the process dies between two of them, or an import ends.
Leave(c) ==
  /\ op[c].pc # "idle"
  /\ Return(c)
  /\ UNCHANGED <<projectVars, next, issue, calls>>

-----------------------------------------------------------------------------
ProjectStep(c) ==
  \/ \E k \in Keys : CreateProjectCheck(c, k) \/ RenameCheck(c, k)
  \/ \E p \in Projects : CreateProjectInsert(c, p) \/ SettingsLoad(c, p)
  \/ RenameCommit(c) \/ SettingsSave(c)

IssueStep(c) ==
  \/ \E p \in Projects : IssueLoad(c, p)
  \/ NumberRead(c) \/ NumberWrite(c) \/ IssueInsert(c)
  \/ \E p \in Projects, moved \in SUBSET Issues : MoveLoad(c, p, moved)
  \/ MoveReserve(c) \/ MoveIssues(c)

ImportStep(c) ==
  \/ \E k \in Keys : ImportLookup(c, k)
  \/ \E p \in Projects : ImportInto(c, p) \/ ImportProject(c, p)
  \/ ImportReserve(c) \/ ImportInsert(c)

MigrateStep(c) ==
  \/ \E k \in Keys : MigrateProject(c, k)
  \/ \E p \in Projects : MigrateFind(c, p)
  \/ \E page \in (SUBSET (1..MaxNumber)) \ {{}} : MigrateIssues(c, page)
  \/ MigrateCounter(c)

Next ==
  \E c \in Clients :
    ProjectStep(c) \/ IssueStep(c) \/ ImportStep(c) \/ MigrateStep(c) \/ Leave(c)

Spec == Init /\ [][Next]_vars

-----------------------------------------------------------------------------
(* Properties                                                              *)

\* Old and new keys lead to the project, and so does the key of every issue, also
\* of one created, moved or imported under a key its call read before a rename
\* (ProjectsService.resolveProjectId) - as long as no project ever took a key its
\* call could no longer have chosen.
KeysResolve ==
  ~raced =>
    /\ \A p \in Projects : \A k \in had[p] : ResolvesTo(k, p)
    /\ \A i \in Issues : issue[i].project # NoProject =>
         ResolvesTo(issue[i].prefix, issue[i].project)

\* Its key carries another number than its own: in Jira it had a number that is taken here.
Renumbered(i) == issue[i].keyNumber # issue[i].number

\* No two issues of the organization have the same key, but for those the migration
\* renumbered, although issues.key has no unique constraint and keys are put together from
\* a prefix and a number read at different times.
IssueKeysUnique ==
  ~raced =>
    \A i, j \in Issues :
      /\ issue[i].project # NoProject /\ issue[j].project # NoProject
      /\ issue[i].prefix = issue[j].prefix /\ issue[i].keyNumber = issue[j].keyNumber
      => i = j \/ Renumbered(i) \/ Renumbered(j)

\* "Old keys resolve to the same project" (docs/project-key-change.md:18).
OldKeysResolve == \A p \in Projects : \A k \in had[p] : ResolvesTo(k, p)
=============================================================================
