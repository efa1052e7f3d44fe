-------------------------- MODULE OrgMembershipProofs --------------------------
(***************************************************************************)
(* Proofs about OrgMembership for every value of its constants: the type   *)
(* invariant, and what the calls guarantee about owners, passwords,        *)
(* removals and acceptances although each reads and writes in statements   *)
(* of its own.  All of it comes from what a call still knows of the rows   *)
(* that no other call has changed since it read them.                      *)
(***************************************************************************)
EXTENDS OrgMembership, FiniteSetTheorems, TLAPS

Fresh(d, what) == what \notin call[d].dirty
OtherOwners(d) == Owners \ {Target(d)}

\* Until another call changes the row of its target, a call knows the row, or what of it
\* its own writes have left, ...
KnowsRow(d) ==
  Fresh(d, "row") =>
    /\ call[d].pc \in {"revoke_remove", "revoke_count", "role_count", "role_save",
                       "role_user", "row_save", "email_save"}
         => user[Target(d)] = call[d].row
    /\ call[d].pc \in {"expired_save", "home_save", "clear_save"}
         => user[Target(d)] = call[d].again
    /\ At(d, "revoke_detach") => user[Target(d)].home = call[d].row.home
    /\ At(d, "revoke_delete") => ~user[Target(d)].password
    /\ At(d, "deact_others") /\ call[d].role = "none" => ~user[Target(d)].active

\* ... until one changes the memberships, what they are, ...
KnowsMembership(d) ==
  Fresh(d, "membership") =>
    /\ call[d].pc \in {"revoke_remove", "deact_count", "deact_remove", "saml_create",
                       "saml_member"}
         => member[Target(d)] = call[d].role
    /\ call[d].pc \in {"revoke_count", "revoke_delete", "revoke_detach", "deact_others",
                       "deact_disable"}
         => ~Joined(Target(d))
    /\ call[d].pc \in {"accept_activate", "accept_strip", "accept_home", "home_save",
                       "accept_member"}
         /\ InviteOrg(call[d].row) = "here"
         => member[Target(d)] = call[d].role
    /\ (\/ At(d, "repair")
        \/ call[d].pc \in {"accept_clear", "clear_save"} /\ InviteOrg(call[d].row) = "here")
         => /\ Joined(Target(d))
            /\ call[d].role # "none" => member[Target(d)] = call[d].role

\* ... and until one changes the owners, that one is left besides the target.
KnowsOwners(d) ==
  Fresh(d, "owners") =>
    /\ call[d].pc \in {"role_save", "role_user"} /\ call[d].new # "owner"
         => Target(d) \notin Owners \/ OtherOwners(d) # {}
    /\ At(d, "deact_remove") /\ call[d].row.role = "owner" => OtherOwners(d) # {}

\* What was true of the row when it was loaded stays true of it.
Loaded(d) ==
  /\ call[d].row.password => call[d].row.exists
  /\ call[d].pc \in {"role_count", "role_save", "role_user"} => call[d].row.exists
  /\ At(d, "role_user") => call[d].row.home = "here"
  /\ call[d].pc \in {"accept_activate", "accept_strip", "accept_home", "home_save"} =>
       InviteOrg(call[d].row) # "none"
  /\ call[d].pc \in {"expired_save", "home_save", "clear_save"} => call[d].again.exists

Knows(d) == KnowsRow(d) /\ KnowsMembership(d) /\ KnowsOwners(d) /\ Loaded(d)

\* An account that is gone has no password.
PasswordsExist == \A u \in Users : user[u].password => user[u].exists

\* The inductive invariant.
Inv == TypeOK /\ PasswordsExist /\ \A d \in Callers : Knows(d)

-----------------------------------------------------------------------------
(* How a step changes the calls                                            *)

LEMMA NoCallType == NoCall \in CallType /\ Absent \in UserType
BY ConstantsAssumption DEF NoCall, Absent, CallType, UserType, Stages, Roles

LEMMA DirtiedCalls ==
  ASSUME TypeOK, NEW c \in Callers, NEW next \in CallType, call' = Dirtied(c, next)
  PROVE  call' \in [Callers -> CallType] /\ call'[c] = next
<1>1. ASSUME NEW d \in Callers, NEW new \in SUBSET {"owners", "row", "membership"}
      PROVE  [call[d] EXCEPT !.dirty = @ \cup new] \in CallType
  BY DEF TypeOK, CallType
<1>2. \A d \in Callers : call[d] \in CallType
  BY DEF TypeOK
<1>3. ASSUME NEW d \in Callers PROVE Dirtied(c, next)[d] \in CallType
  <2> DEFINE owners == IF Owners' # Owners THEN {"owners"} ELSE {}
             row == IF user'[Target(d)] # user[Target(d)] THEN {"row"} ELSE {}
             rest == IF \/ member'[Target(d)] # member[Target(d)]
                        \/ elsewhere'[Target(d)] # elsewhere[Target(d)]
                     THEN {"membership"} ELSE {}
  <2>1. owners \cup row \cup rest \in SUBSET {"owners", "row", "membership"}
    OBVIOUS
  <2>2. [call[d] EXCEPT !.dirty = @ \cup owners \cup row \cup rest]
          = [call[d] EXCEPT !.dirty = @ \cup (owners \cup row \cup rest)]
    OBVIOUS
  <2>3. [call[d] EXCEPT !.dirty = @ \cup owners \cup row \cup rest] \in CallType
    <3> HIDE DEF owners, row, rest
    <3>1. QED BY <1>1, <2>1, <2>2
  <2>4. QED BY <1>2, <2>3, NoCallType DEF Dirtied
<1>4. QED BY <1>3 DEF Dirtied

\* A call that others step past carries everything but dirty along, and dirty tells what
\* they change; one without a call stays so.
LEMMA OtherCalls ==
  ASSUME TypeOK, NEW c \in Callers, NEW next, call' = Dirtied(c, next),
         NEW d \in Callers \ {c}
  PROVE  /\ Idle(d) => call'[d] = NoCall
         /\ ~Idle(d) =>
              /\ call'[d].pc = call[d].pc /\ call'[d].target = call[d].target
              /\ call'[d].row = call[d].row /\ call'[d].role = call[d].role
              /\ call'[d].new = call[d].new /\ call'[d].again = call[d].again
         /\ ~Idle(d) /\ call[d].pc \notin {"send", "import_member"} =>
              /\ call[d].dirty \subseteq call'[d].dirty
              /\ Owners' # Owners => "owners" \in call'[d].dirty
              /\ user'[Target(d)] # user[Target(d)] => "row" \in call'[d].dirty
              /\ member'[Target(d)] # member[Target(d)] => "membership" \in call'[d].dirty
<1> DEFINE new == (IF Owners' # Owners THEN {"owners"} ELSE {})
                    \cup (IF user'[Target(d)] # user[Target(d)] THEN {"row"} ELSE {})
                    \cup (IF \/ member'[Target(d)] # member[Target(d)]
                             \/ elsewhere'[Target(d)] # elsewhere[Target(d)]
                          THEN {"membership"} ELSE {})
           e == [call[d] EXCEPT !.dirty = @ \cup new]
<1>1. call'[d] = IF Idle(d) THEN NoCall
                 ELSE IF call[d].pc \in {"send", "import_member"} THEN call[d] ELSE e
  BY DEF Dirtied
<1>2. call[d] \in CallType
  BY DEF TypeOK
<1>3. /\ e.pc = call[d].pc /\ e.target = call[d].target /\ e.row = call[d].row
      /\ e.role = call[d].role /\ e.new = call[d].new /\ e.again = call[d].again
      /\ e.dirty = call[d].dirty \cup new
  <2> HIDE DEF new
  <2>1. QED BY <1>2 DEF CallType
<1>4. /\ Owners' # Owners => "owners" \in new
      /\ user'[Target(d)] # user[Target(d)] => "row" \in new
      /\ member'[Target(d)] # member[Target(d)] => "membership" \in new
  OBVIOUS
<1> HIDE DEF e, new
<1>5. QED BY <1>1, <1>3, <1>4

LEMMA NothingKnown ==
  ASSUME NEW d \in Callers, ~call'[d].row.password, call'[d].pc \in
           {"idle", "failed", "invite_insert", "invite_create", "invite_member", "send",
            "resend_pending", "merge", "import_member", "oauth_member"}
  PROVE  Knows(d)'
BY DEF Knows, KnowsRow, KnowsMembership, KnowsOwners, Loaded, At

LEMMA OthersKnow ==
  ASSUME Inv, NEW c \in Callers, NEW next \in CallType, call' = Dirtied(c, next),
         NEW d \in Callers \ {c}
  PROVE  Knows(d)'
<1>1. CASE Idle(d)
  <2>1. call'[d] = NoCall
    BY <1>1, OtherCalls DEF Inv
  <2>2. call'[d].pc = "idle" /\ ~call'[d].row.password
    BY <2>1 DEF NoCall, Absent
  <2>3. QED BY <2>2, NothingKnown
<1>2. CASE ~Idle(d)
  <2>1. /\ call'[d].pc = call[d].pc /\ call'[d].target = call[d].target
        /\ call'[d].row = call[d].row /\ call'[d].role = call[d].role
        /\ call'[d].new = call[d].new /\ call'[d].again = call[d].again
        /\ call[d].pc \notin {"send", "import_member"} =>
              /\ call[d].dirty \subseteq call'[d].dirty
              /\ Owners' # Owners => "owners" \in call'[d].dirty
              /\ user'[Target(d)] # user[Target(d)] => "row" \in call'[d].dirty
              /\ member'[Target(d)] # member[Target(d)] => "membership" \in call'[d].dirty
    BY <1>2, OtherCalls DEF Inv
  <2>2. KnowsRow(d) /\ KnowsMembership(d) /\ KnowsOwners(d) /\ Loaded(d)
    BY DEF Inv, Knows
  <2>3. KnowsRow(d)'
    BY <2>1, <2>2 DEF KnowsRow, Fresh, At, Target
  <2>4. KnowsMembership(d)'
    BY <2>1, <2>2 DEF KnowsMembership, Fresh, At, Target, Joined, InviteOrg
  <2>5. KnowsOwners(d)'
    BY <2>1, <2>2 DEF KnowsOwners, Fresh, At, Target, OtherOwners
  <2>6. Loaded(d)'
    BY <2>1, <2>2 DEF Loaded, At, InviteOrg
  <2>7. QED BY <2>3, <2>4, <2>5, <2>6 DEF Knows
<1>3. QED BY <1>1, <1>2

-----------------------------------------------------------------------------
(* What the tables are after a step                                        *)

TablesSound ==
  /\ user \in [Users -> UserType]
  /\ member \in [Users -> Roles \cup {"none"}]
  /\ elsewhere \in [Users -> BOOLEAN]
  /\ PasswordsExist

LEMMA UserWritten ==
  ASSUME Inv, NEW u \in Users, NEW row \in UserType, row.password => row.exists,
         SetUser(u, row), UNCHANGED <<member, elsewhere>>
  PROVE  /\ TablesSound'
         /\ user'[u] = row
         /\ \A v \in Users \ {u} : user'[v] = user[v]
BY DEF Inv, TypeOK, TablesSound, PasswordsExist, SetUser

LEMMA MemberWritten ==
  ASSUME Inv, NEW u \in Users, NEW role \in Roles \cup {"none"},
         SetMember(u, role), UNCHANGED <<user, elsewhere>>
  PROVE  /\ TablesSound'
         /\ member'[u] = role
         /\ \A v \in Users \ {u} : member'[v] = member[v]
BY DEF Inv, TypeOK, TablesSound, PasswordsExist, SetMember

LEMMA TablesKept ==
  ASSUME Inv, KeepTables
  PROVE  TablesSound'
BY DEF Inv, TypeOK, TablesSound, PasswordsExist, KeepTables

-----------------------------------------------------------------------------
(* The ways a step ends                                                    *)

LEMMA StepKeeps ==
  ASSUME Inv, NEW c \in Callers, NEW next \in CallType, call' = Dirtied(c, next),
         TablesSound', projects' \subseteq Users, calls' \in 0..MaxCalls, Knows(c)'
  PROVE  Inv'
<1>1. call' \in [Callers -> CallType]
  BY DirtiedCalls DEF Inv
<1>2. TypeOK' /\ PasswordsExist'
  BY <1>1 DEF TablesSound, TypeOK
<1>3. \A d \in Callers : Knows(d)'
  BY OthersKnow
<1>4. QED BY <1>2, <1>3 DEF Inv

LEMMA NeedingType ==
  ASSUME NEW pc \in Stages, NEW u \in Users
  PROVE  LET o == Needing(pc, u) IN
         /\ o \in CallType
         /\ o.pc = pc /\ o.target = u /\ o.row = Absent /\ ~o.row.password
         /\ o.role = "none" /\ o.dirty = {}
BY NoCallType, ConstantsAssumption DEF Needing, NoCall, Absent, CallType, Roles

LEMMA GoKeeps ==
  ASSUME Inv, NEW c \in Callers, NEW next \in CallType, Go(c, next), TablesSound', Knows(c)'
  PROVE  Inv'
BY StepKeeps DEF Go, Inv, TypeOK

\* A call that ends, sends an e-mail or fails.
LEMMA EndKeeps ==
  ASSUME Inv, NEW c \in Callers, Done(c) \/ Fail(c) \/ ToSend(c), TablesSound'
  PROVE  Inv'
<1>1. PICK next \in {NoCall, [NoCall EXCEPT !.pc = "failed"], Needing("send", Target(c))} :
        Go(c, next)
  BY DEF Done, Fail, ToSend
<1>2. Target(c) \in Users
  BY DEF Inv, TypeOK, CallType, Target
<1>3. /\ next \in CallType /\ ~next.row.password
      /\ next.pc \in {"idle", "failed", "send"}
  <2>1. CASE next = NoCall
    BY <2>1, NoCallType DEF NoCall, Absent
  <2>2. CASE next = [NoCall EXCEPT !.pc = "failed"]
    <3>1. next \in CallType
      BY <2>2, NoCallType DEF CallType, Stages
    <3>2. QED BY <2>2, <3>1 DEF NoCall, Absent
  <2>3. CASE next = Needing("send", Target(c))
    BY <1>2, <2>3, NeedingType DEF Stages
  <2>4. QED BY <2>1, <2>2, <2>3
<1>4. call'[c] = next
  BY <1>1, <1>3, DirtiedCalls DEF Go, Inv
<1>5. Knows(c)'
  BY <1>3, <1>4, NothingKnown
<1>6. QED BY <1>1, <1>3, <1>5, GoKeeps

\* A call that goes on.
LEMMA GoToFields ==
  ASSUME Inv, NEW c \in Callers, NEW pc \in Stages, GoTo(c, pc)
  PROVE  /\ [call[c] EXCEPT !.pc = pc] \in CallType
         /\ call'[c].pc = pc /\ call'[c].target = call[c].target
         /\ call'[c].row = call[c].row /\ call'[c].role = call[c].role
         /\ call'[c].new = call[c].new /\ call'[c].dirty = call[c].dirty
<1> DEFINE next == [call[c] EXCEPT !.pc = pc]
<1>1. /\ next \in CallType
      /\ next.pc = pc /\ next.target = call[c].target
      /\ next.row = call[c].row /\ next.role = call[c].role
      /\ next.new = call[c].new /\ next.dirty = call[c].dirty
  BY DEF Inv, TypeOK, CallType
<1>2. call' = Dirtied(c, next)
  BY DEF GoTo, Go
<1> HIDE DEF next
<1>3. call'[c] = next
  BY <1>1, <1>2, DirtiedCalls DEF Inv
<1>4. QED BY <1>1, <1>3 DEF next

LEMMA GoToKeeps ==
  ASSUME Inv, NEW c \in Callers, NEW pc \in Stages, GoTo(c, pc), TablesSound', Knows(c)'
  PROVE  Inv'
BY GoToFields, GoKeeps DEF GoTo

\* A call that begins.
LEMMA StartKeeps ==
  ASSUME Inv, NEW c \in Callers, NEW next \in CallType, Starts(c, next), TablesSound', Knows(c)'
  PROVE  Inv'
BY StepKeeps, ConstantsAssumption DEF Starts, Inv, TypeOK

LEMMA OnceKeeps ==
  ASSUME Inv, NEW c \in Callers, Once(c), TablesSound'
  PROVE  Inv'
<1>1. call'[c] = NoCall
  BY NoCallType, DirtiedCalls DEF Once, Starts, Inv
<1>2. Knows(c)'
  BY <1>1, NothingKnown DEF NoCall, Absent
<1>3. QED BY <1>2, StartKeeps, NoCallType DEF Once

LEMMA NeedingKeeps ==
  ASSUME Inv, NEW c \in Callers, NEW u \in Users,
         NEW pc \in {"send", "resend_pending", "import_member"},
         Starts(c, Needing(pc, u)), TablesSound'
  PROVE  Inv'
<1>1. Needing(pc, u) \in CallType
  BY NeedingType DEF Stages
<1>2. call'[c] = Needing(pc, u)
  BY <1>1, DirtiedCalls DEF Starts, Inv
<1>3. Knows(c)'
  BY <1>2, NeedingType, NothingKnown DEF Stages
<1>4. QED BY <1>1, <1>3, StartKeeps

\* What a call has just loaded.
LEMMA BeginType ==
  ASSUME Inv, NEW pc \in Stages, NEW u \in Users, NEW new \in Roles
  PROVE  LET o == [Needing(pc, u) EXCEPT !.row = user[u], !.role = member[u], !.new = new] IN
         /\ o \in CallType
         /\ o.pc = pc /\ o.target = u /\ o.row = user[u] /\ o.role = member[u]
         /\ o.new = new /\ o.dirty = {}
BY NoCallType DEF Needing, NoCall, Inv, TypeOK, CallType

LEMMA BeginFields ==
  ASSUME Inv, NEW c \in Callers, NEW pc \in Stages, NEW u \in Users, NEW new \in Roles,
         Begin(c, pc, u, new)
  PROVE  /\ call'[c].pc = pc /\ call'[c].target = u /\ call'[c].row = user[u]
         /\ call'[c].role = member[u] /\ call'[c].new = new /\ call'[c].dirty = {}
         /\ TablesSound' /\ KeepTables
<1> DEFINE next == [Needing(pc, u) EXCEPT !.row = user[u], !.role = member[u], !.new = new]
<1>1. /\ next \in CallType
      /\ next.pc = pc /\ next.target = u /\ next.row = user[u] /\ next.role = member[u]
      /\ next.new = new /\ next.dirty = {}
  BY BeginType
<1>2. call' = Dirtied(c, next) /\ KeepTables
  BY DEF Begin, Starts
<1> HIDE DEF next
<1>3. call'[c] = next
  BY <1>1, <1>2, DirtiedCalls DEF Inv
<1>4. TablesSound'
  BY <1>2, TablesKept
<1>5. QED BY <1>1, <1>2, <1>3, <1>4

LEMMA BeginKeeps ==
  ASSUME Inv, NEW c \in Callers, NEW pc \in Stages, NEW u \in Users, NEW new \in Roles,
         Begin(c, pc, u, new), Knows(c)'
  PROVE  Inv'
<1>1. TablesSound'
  BY BeginFields
<1>2. QED BY <1>1, BeginType, StartKeeps DEF Begin

-----------------------------------------------------------------------------
(* Invitations                                                             *)

LEMMA CallFieldTypes ==
  ASSUME Inv, NEW c \in Callers
  PROVE  /\ Target(c) \in Users /\ call[c].from \in Users /\ call[c].row \in UserType
         /\ call[c].role \in Roles \cup {"none"} /\ call[c].new \in Roles
         /\ call[c].pc \in Stages
         /\ \A u \in Users : user[u] \in UserType /\ member[u] \in Roles \cup {"none"}
BY DEF Inv, TypeOK, CallType, Target

\* A step that writes a row, well formed, or leaves the tables alone, and ends the call.
LEMMA RowEnds ==
  ASSUME Inv, NEW c \in Callers, NEW u \in Users, NEW row \in UserType,
         row.password => row.exists, SetUser(u, row) \/ UNCHANGED user,
         UNCHANGED <<member, elsewhere>>, Done(c) \/ Fail(c) \/ ToSend(c)
  PROVE  Inv'
<1>1. TablesSound'
  BY UserWritten, TablesKept DEF KeepTables
<1>2. QED BY <1>1, EndKeeps

LEMMA MemberEnds ==
  ASSUME Inv, NEW c \in Callers, NEW u \in Users, NEW role \in Roles \cup {"none"},
         SetMember(u, role) \/ UNCHANGED member,
         UNCHANGED <<user, elsewhere>>, Done(c) \/ Fail(c) \/ ToSend(c)
  PROVE  Inv'
<1>1. TablesSound'
  BY MemberWritten, TablesKept DEF KeepTables
<1>2. QED BY <1>1, EndKeeps

LEMMA InviteKeeps ==
  ASSUME Inv, NEW c \in Callers, InviteStep(c)
  PROVE  Inv'
<1> DEFINE u == Target(c)
<1>0. /\ u \in Users /\ call[c].new \in Roles /\ call[c].row \in UserType
      /\ user[u] \in UserType
  BY CallFieldTypes
<1>1. ASSUME NEW v \in Users, NEW inviter \in Users, NEW role \in {"owner", "user"},
             InviteKnown(c, v, inviter, role) \/ InviteNew(c, v, inviter, role)
      PROVE  Inv'
  <2>1. PICK pc \in {"invite_insert", "invite_create"} : Begin(c, pc, v, role)
    BY <1>1 DEF InviteKnown, InviteNew
  <2>2. pc \in Stages /\ role \in Roles
    BY DEF Stages, Roles
  <2>3. call'[c].pc = pc /\ call'[c].row = user[v]
    BY <2>1, <2>2, BeginFields
  <2>4. Knows(c)'
    BY <2>3 DEF Knows, KnowsRow, KnowsMembership, KnowsOwners, Loaded, At, Inv, PasswordsExist
  <2>5. QED BY <2>1, <2>2, <2>4, BeginKeeps
<1>2. CASE InviteInsert(c)
  BY <1>0, <1>2, MemberEnds DEF InviteInsert
<1>3. CASE InviteCreate(c)
  <2> DEFINE row == [Absent EXCEPT !.exists = TRUE, !.home = "here", !.role = call[c].new,
                                   !.invite = "pending"]
  <2>1. row \in UserType /\ ~row.password
    BY <1>0, NoCallType DEF Absent, UserType
  <2>2. TablesSound'
    BY <1>0, <1>3, <2>1, UserWritten DEF InviteCreate
  <2>3. GoTo(c, "invite_member") /\ "invite_member" \in Stages
    BY <1>3 DEF InviteCreate, Stages
  <2>4. Knows(c)'
    BY <2>3, GoToFields
       DEF Knows, KnowsRow, KnowsMembership, KnowsOwners, Loaded, At, Inv
  <2>5. QED BY <2>2, <2>3, <2>4, GoToKeeps
<1>4. CASE InviteMember(c)
  BY <1>0, <1>4, MemberEnds DEF InviteMember
<1>5. CASE Send(c)
  <2>1. Linked(user[u], "here") \in UserType
    BY <1>0 DEF Linked, UserType
  <2>2. Linked(user[u], "here").password => Linked(user[u], "here").exists
    BY <1>0 DEF Linked, UserType, Inv, PasswordsExist
  <2>3. QED BY <1>0, <1>5, <2>1, <2>2, RowEnds DEF Send
<1>6. ASSUME NEW v \in Users, ResendLoad(c, v) \/ BulkInvite(c, v)
      PROVE  Inv'
  BY <1>6, NeedingKeeps, TablesKept DEF ResendLoad, BulkInvite
<1>7. CASE ResendPending(c)
  <2> DEFINE row == [user[u] EXCEPT !.invite = "pending"]
  <2>1. row \in UserType /\ (row.password => row.exists)
    BY <1>0 DEF UserType, Inv, PasswordsExist
  <2>2. QED BY <1>0, <1>7, <2>1, RowEnds DEF ResendPending
<1>8. QED BY <1>1, <1>2, <1>3, <1>4, <1>5, <1>6, <1>7 DEF InviteStep, Admins

-----------------------------------------------------------------------------
(* Removals                                                                *)

LEMMA RevokeKeeps ==
  ASSUME Inv, NEW c \in Callers,
         \/ \E u \in Users : RevokeLoad(c, u)
         \/ RevokeRemove(c) \/ RevokeCount(c) \/ RevokeDelete(c) \/ RevokeDetach(c)
  PROVE  Inv'
<1> DEFINE u == Target(c)
<1>0. /\ u \in Users /\ call[c].role \in Roles \cup {"none"} /\ user[u] \in UserType
      /\ Knows(c)
  BY CallFieldTypes DEF Inv
<1>1. ASSUME NEW v \in Users, RevokeLoad(c, v) PROVE Inv'
  <2>1. Begin(c, "revoke_remove", v, "user") /\ "revoke_remove" \in Stages /\ "user" \in Roles
    BY <1>1 DEF RevokeLoad, Stages, Roles
  <2>2. /\ call'[c].pc = "revoke_remove" /\ call'[c].target = v /\ call'[c].row = user[v]
        /\ call'[c].role = member[v] /\ KeepTables
    BY <2>1, BeginFields
  <2>3. Knows(c)'
    BY <2>2 DEF KeepTables, Knows, KnowsRow, KnowsMembership, KnowsOwners, Loaded, At, Target,
                Inv, PasswordsExist
  <2>4. QED BY <2>1, <2>3, BeginKeeps
<1>2. CASE RevokeRemove(c)
  <2>1. GoTo(c, "revoke_count") /\ "revoke_count" \in Stages /\ UNCHANGED user
    BY <1>2 DEF RevokeRemove, Stages
  <2>2. TablesSound' /\ (call[c].role # "none" => member'[u] = "none")
        /\ (call[c].role = "none" => UNCHANGED member)
    BY <1>0, <1>2, MemberWritten, TablesKept DEF RevokeRemove, KeepTables
  <2>3. Knows(c)'
    BY <1>0, <1>2, <2>1, <2>2, GoToFields
       DEF RevokeRemove, Knows, KnowsRow, KnowsMembership, KnowsOwners, Loaded, At, Target,
           Fresh, Joined
  <2>4. QED BY <2>1, <2>2, <2>3, GoToKeeps
<1>3. CASE RevokeCount(c)
  <2>1. TablesSound' /\ KeepTables
    BY <1>3, TablesKept DEF RevokeCount
  <2>2. PICK pc \in {"revoke_delete", "revoke_detach"} :
          GoTo(c, pc) /\ (pc = "revoke_delete" => ~call[c].row.password)
    BY <1>3 DEF RevokeCount
  <2>3. pc \in Stages
    BY DEF Stages
  <2>4. Knows(c)'
    BY <1>0, <1>3, <2>1, <2>2, <2>3, GoToFields
       DEF RevokeCount, Knows, KnowsRow, KnowsMembership, KnowsOwners, Loaded, At, Target,
           Fresh, Joined, KeepTables
  <2>5. QED BY <2>1, <2>2, <2>3, <2>4, GoToKeeps
<1>4. CASE RevokeDelete(c)
  <2>1. TablesSound'
    <3>1. CASE u \in projects
      BY <1>4, <3>1, TablesKept DEF RevokeDelete
    <3>2. CASE u \notin projects
      <4>1. /\ user' = [user EXCEPT ![u] = Absent] /\ member' = [member EXCEPT ![u] = "none"]
            /\ elsewhere' = [elsewhere EXCEPT ![u] = FALSE]
        BY <1>4, <3>2 DEF RevokeDelete, SetUser, SetMember
      <4>2. Absent \in UserType /\ ~Absent.password
        BY NoCallType DEF Absent
      <4>3. QED BY <1>0, <4>1, <4>2 DEF TablesSound, Inv, TypeOK, PasswordsExist
    <3>3. QED BY <3>1, <3>2
  <2>2. QED BY <1>4, <2>1, EndKeeps DEF RevokeDelete
<1>5. CASE RevokeDetach(c)
  <2> DEFINE row == [user[u] EXCEPT !.home = "none"]
  <2>1. row \in UserType /\ (row.password => row.exists)
    BY <1>0 DEF UserType, Inv, PasswordsExist
  <2>2. QED BY <1>0, <1>5, <2>1, RowEnds DEF RevokeDetach
<1>6. QED BY <1>1, <1>2, <1>3, <1>4, <1>5

\* More than one of a set: one besides any given.
LEMMA OneMore ==
  ASSUME NEW S, NEW u, ~(Cardinality(S) <= 1)
  PROVE  S \ {u} # {}
<1>1. SUFFICES ASSUME S \ {u} = {} PROVE FALSE
  OBVIOUS
<1>2. CASE u \in S
  <2>1. S = {u}
    BY <1>1, <1>2
  <2>2. Cardinality({u}) = 1
    BY FS_Singleton
  <2>3. QED BY <2>1, <2>2
<1>3. CASE u \notin S
  <2>1. S = {}
    BY <1>1, <1>3
  <2>2. QED BY <2>1, FS_EmptySet
<1>4. QED BY <1>2, <1>3

LEMMA DeactKeeps ==
  ASSUME Inv, NEW c \in Callers,
         \/ \E u \in Users, actor \in Admins : DeactLoad(c, u, actor)
         \/ DeactCount(c) \/ DeactRemove(c) \/ DeactOthers(c) \/ DeactDisable(c)
         \/ \E u \in Users : DeactivateUser(c, u)
  PROVE  Inv'
<1> DEFINE u == Target(c)
<1>0. /\ u \in Users /\ call[c].role \in Roles \cup {"none"} /\ user[u] \in UserType
      /\ Knows(c)
  BY CallFieldTypes DEF Inv
<1>1. ASSUME NEW v \in Users, NEW actor, DeactLoad(c, v, actor) PROVE Inv'
  <2>1. PICK pc \in {"deact_count", "deact_remove"} :
          /\ Begin(c, pc, v, "user")
          /\ pc = "deact_remove" => user[v].role # "owner"
    BY <1>1 DEF DeactLoad
  <2>2. pc \in Stages /\ "user" \in Roles
    BY DEF Stages, Roles
  <2>3. /\ call'[c].pc = pc /\ call'[c].target = v /\ call'[c].row = user[v]
        /\ call'[c].role = member[v] /\ KeepTables
    BY <2>1, <2>2, BeginFields
  <2>4. Knows(c)'
    BY <2>1, <2>3
       DEF KeepTables, Knows, KnowsRow, KnowsMembership, KnowsOwners, Loaded, At, Target,
           Inv, PasswordsExist
  <2>5. QED BY <2>1, <2>2, <2>4, BeginKeeps
<1>2. CASE DeactCount(c)
  <2>1. CASE Fail(c)
    BY <1>2, <2>1, TablesKept, EndKeeps DEF DeactCount
  <2>2. CASE ~(Cardinality(MemberOwners) <= 1) /\ GoTo(c, "deact_remove")
    <3>1. TablesSound' /\ KeepTables /\ "deact_remove" \in Stages
      BY <1>2, TablesKept DEF DeactCount, Stages
    <3>2. OtherOwners(c)' # {}
      <4>1. MemberOwners \ {u} # {}
        BY <2>2, OneMore
      <4>2. call'[c].target = u
        BY <2>2, <3>1, GoToFields DEF Target
      <4>3. Owners' = Owners
        BY <3>1 DEF Owners, MemberOwners, LegacyOwners, Joined, KeepTables
      <4>4. QED BY <4>1, <4>2, <4>3 DEF OtherOwners, Owners, Target
    <3>3. Knows(c)'
      BY <1>0, <1>2, <2>2, <3>1, <3>2, GoToFields
         DEF DeactCount, Knows, KnowsRow, KnowsMembership, KnowsOwners, Loaded, At, Target,
             Fresh, KeepTables
    <3>4. QED BY <2>2, <3>1, <3>3, GoToKeeps
  <2>3. QED BY <1>2, <2>1, <2>2 DEF DeactCount
<1>3. CASE DeactRemove(c)
  <2> DEFINE row == [user[u] EXCEPT !.active = FALSE]
  <2>1. row \in UserType /\ (row.password => row.exists) /\ ~row.active
    BY <1>0 DEF UserType, Inv, PasswordsExist
  <2>2. /\ TablesSound'
        /\ call[c].role # "none" => member'[u] = "none"
        /\ call[c].role = "none" => UNCHANGED member /\ ~user'[u].active
    BY <1>0, <1>3, <2>1, MemberWritten, UserWritten DEF DeactRemove
  <2>3. GoTo(c, "deact_others") /\ "deact_others" \in Stages
    BY <1>3 DEF DeactRemove, Stages
  <2>4. Knows(c)'
    BY <1>0, <1>3, <2>2, <2>3, GoToFields
       DEF DeactRemove, Knows, KnowsRow, KnowsMembership, KnowsOwners, Loaded, At, Target,
           Fresh, Joined
  <2>5. QED BY <2>2, <2>3, <2>4, GoToKeeps
<1>4. CASE DeactOthers(c)
  <2>1. TablesSound' /\ KeepTables
    BY <1>4, TablesKept DEF DeactOthers
  <2>2. CASE Done(c)
    BY <2>1, <2>2, EndKeeps
  <2>3. CASE GoTo(c, "deact_disable")
    <3>1. "deact_disable" \in Stages
      BY DEF Stages
    <3>2. Knows(c)'
      BY <1>0, <1>4, <2>1, <2>3, <3>1, GoToFields
         DEF DeactOthers, Knows, KnowsRow, KnowsMembership, KnowsOwners, Loaded, At, Target,
             Fresh, Joined, KeepTables
    <3>3. QED BY <2>1, <2>3, <3>1, <3>2, GoToKeeps
  <2>4. QED BY <1>4, <2>2, <2>3 DEF DeactOthers
<1>5. CASE DeactDisable(c)
  <2> DEFINE row == [user[u] EXCEPT !.active = FALSE]
  <2>1. row \in UserType /\ (row.password => row.exists)
    BY <1>0 DEF UserType, Inv, PasswordsExist
  <2>2. QED BY <1>0, <1>5, <2>1, RowEnds DEF DeactDisable
<1>6. ASSUME NEW v \in Users, DeactivateUser(c, v) PROVE Inv'
  <2> DEFINE row == [user[v] EXCEPT !.active = FALSE]
  <2>0. user[v] \in UserType
    BY CallFieldTypes
  <2>1. row \in UserType /\ (row.password => row.exists)
    BY <2>0 DEF UserType, Inv, PasswordsExist
  <2>2. TablesSound'
    BY <1>6, <2>1, UserWritten DEF DeactivateUser
  <2>3. QED BY <1>6, <2>2, OnceKeeps DEF DeactivateUser
<1>7. QED BY <1>1, <1>2, <1>3, <1>4, <1>5, <1>6

-----------------------------------------------------------------------------
(* Changes of role                                                         *)

LEMMA RoleKeeps ==
  ASSUME Inv, NEW c \in Callers, RoleStep(c)
  PROVE  Inv'
<1> DEFINE u == Target(c)
<1>0. /\ u \in Users /\ call[c].role \in Roles \cup {"none"} /\ user[u] \in UserType
      /\ call[c].new \in Roles /\ call[c].row \in UserType /\ Knows(c)
  BY CallFieldTypes DEF Inv
<1>1. ASSUME NEW v \in Users, NEW actor, NEW new \in NewRoles, RoleLoad(c, v, actor, new)
      PROVE  Inv'
  <2>1. PICK pc \in {"role_count", "role_save"} :
          /\ Begin(c, pc, v, new)
          /\ pc = "role_save" => RoleHere(v) # "owner" \/ new = "owner"
    BY <1>1 DEF RoleLoad
  <2>2. pc \in Stages /\ new \in Roles
    BY DEF Stages, Roles, NewRoles
  <2>3. /\ call'[c].pc = pc /\ call'[c].target = v /\ call'[c].row = user[v]
        /\ call'[c].role = member[v] /\ call'[c].new = new /\ KeepTables
    BY <2>1, <2>2, BeginFields
  <2>4. Owners' = Owners
    BY <2>3 DEF Owners, MemberOwners, LegacyOwners, Joined, KeepTables
  <2>5. pc = "role_save" /\ new # "owner" => v \notin Owners
    BY <2>1 DEF RoleHere, Owners, MemberOwners, LegacyOwners, Joined
  <2>6. user[v].exists
    BY <1>1 DEF RoleLoad, Belongs
  <2>7. Knows(c)'
    BY <2>3, <2>4, <2>5, <2>6
       DEF KeepTables, Knows, KnowsRow, KnowsMembership, KnowsOwners, Loaded, At, Target,
           Inv, PasswordsExist
  <2>8. QED BY <2>1, <2>2, <2>7, BeginKeeps
<1>2. CASE RoleCount(c)
  <2>1. CASE Fail(c)
    BY <1>2, <2>1, TablesKept, EndKeeps DEF RoleCount
  <2>2. CASE ~(Cardinality(Owners) <= 1) /\ GoTo(c, "role_save")
    <3>1. TablesSound' /\ KeepTables /\ "role_save" \in Stages
      BY <1>2, TablesKept DEF RoleCount, Stages
    <3>2. OtherOwners(c)' # {}
      <4>1. Owners \ {u} # {}
        BY <2>2, OneMore
      <4>2. call'[c].target = u
        BY <2>2, <3>1, GoToFields DEF Target
      <4>3. Owners' = Owners
        BY <3>1 DEF Owners, MemberOwners, LegacyOwners, Joined, KeepTables
      <4>4. QED BY <4>1, <4>2, <4>3 DEF OtherOwners, Target
    <3>3. Knows(c)'
      BY <1>0, <1>2, <2>2, <3>1, <3>2, GoToFields
         DEF RoleCount, Knows, KnowsRow, KnowsMembership, KnowsOwners, Loaded, At, Target,
             Fresh, KeepTables
    <3>4. QED BY <2>2, <3>1, <3>3, GoToKeeps
  <2>3. QED BY <1>2, <2>1, <2>2 DEF RoleCount
<1>3. CASE RoleSave(c)
  <2>1. /\ TablesSound' /\ UNCHANGED user
        /\ call[c].role = "none" => UNCHANGED member
        /\ call[c].role # "none" => SetMember(u, call[c].new)
    BY <1>0, <1>3, MemberWritten, TablesKept DEF RoleSave, KeepTables
  <2>2. CASE Done(c)
    BY <2>1, <2>2, EndKeeps
  <2>3. CASE call[c].row.home = "here" /\ GoTo(c, "role_user")
    <3>1. "role_user" \in Stages
      BY DEF Stages
    <3>2. /\ call'[c].pc = "role_user" /\ call'[c].target = u /\ call'[c].row = call[c].row
          /\ call'[c].role = call[c].role /\ call'[c].new = call[c].new
          /\ call'[c].dirty = call[c].dirty
      BY <2>3, <3>1, GoToFields DEF Target
    <3>3. ASSUME Fresh(c, "owners"), call[c].new # "owner"
          PROVE  u \notin Owners' \/ Owners' \ {u} # {}
      <4>1. u \notin Owners \/ Owners \ {u} # {}
        BY <1>0, <1>3, <3>3 DEF Knows, KnowsOwners, At, RoleSave, OtherOwners
      <4>2. CASE UNCHANGED member
        <5>1. Owners' = Owners
          BY <2>1, <4>2 DEF Owners, MemberOwners, LegacyOwners, Joined
        <5>2. QED BY <4>1, <5>1
      <4>3. CASE SetMember(u, call[c].new)
        <5>1. member'[u] = call[c].new /\ \A v \in Users \ {u} : member'[v] = member[v]
          BY <1>0, <2>1, <4>3, MemberWritten DEF RoleSave, SetMember, Inv, TypeOK
        <5>2. u \notin Owners'
          BY <1>0, <3>3, <5>1 DEF Owners, MemberOwners, LegacyOwners, Joined, Roles
        <5>3. QED BY <5>2
      <4>4. QED BY <2>1, <4>2, <4>3
    <3>4. Knows(c)'
      BY <1>0, <1>3, <2>1, <2>3, <3>2, <3>3
         DEF RoleSave, Knows, KnowsRow, KnowsMembership, KnowsOwners, Loaded, At, Target,
             Fresh, OtherOwners
    <3>5. QED BY <2>1, <2>3, <3>1, <3>4, GoToKeeps
  <2>4. QED BY <1>3, <2>2, <2>3 DEF RoleSave
<1>4. CASE RoleUser(c)
  <2> DEFINE row == [call[c].row EXCEPT !.role = call[c].new]
  <2>1. row \in UserType /\ (row.password => row.exists)
    BY <1>0 DEF UserType, Knows, Loaded
  <2>2. QED BY <1>0, <1>4, <2>1, RowEnds DEF RoleUser
<1>5. QED BY <1>1, <1>2, <1>3, <1>4 DEF RoleStep, Admins

-----------------------------------------------------------------------------
(* Acceptance                                                              *)

LEMMA OrgType ==
  ASSUME NEW row \in UserType
  PROVE  InviteOrg(row) \in {"here", "else", "none"}
BY DEF InviteOrg, UserType

LEMMA RepairedKept ==
  ASSUME Inv, member' = Repaired, UNCHANGED <<user, elsewhere>>
  PROVE  /\ TablesSound'
         /\ \A u \in Users : Joined(u) => member'[u] = member[u]
BY DEF Repaired, Joined, Inv, TypeOK, TablesSound, PasswordsExist, Roles

\* What the acceptance of an invitation knows after one of its steps: the row is the one
\* loaded, and of the membership here nothing changes before accept_member.
LEMMA AcceptBegins ==
  ASSUME Inv, NEW c \in Callers, NEW u \in Users, AcceptLoad(c, u)
  PROVE  Inv'
<1>1. /\ Begin(c, "accept_activate", u, user[u].role) /\ "accept_activate" \in Stages
      /\ user[u].role \in Roles /\ InviteOrg(user[u]) # "none"
  BY DEF AcceptLoad, Stages, Inv, TypeOK, UserType
<1>2. /\ call'[c].pc = "accept_activate" /\ call'[c].target = u /\ call'[c].row = user[u]
      /\ call'[c].role = member[u] /\ KeepTables
  BY <1>1, BeginFields
<1>3. Knows(c)'
  BY <1>1, <1>2
     DEF KeepTables, Knows, KnowsRow, KnowsMembership, KnowsOwners, Loaded, At, Target,
         Inv, PasswordsExist, InviteOrg
<1>4. QED BY <1>1, <1>3, BeginKeeps

LEMMA AcceptActivates ==
  ASSUME Inv, NEW c \in Callers, AcceptActivate(c)
  PROVE  Inv'
<1> DEFINE u == Target(c)
           row == IF user[u].exists
                  THEN [user[u] EXCEPT !.password = TRUE, !.active = TRUE,
                                       !.invite = "accepted", !.link = "none"]
                  ELSE user[u]
<1>0. u \in Users /\ user[u] \in UserType /\ Knows(c)
  BY CallFieldTypes DEF Inv
<1>1. row \in UserType /\ (row.password => row.exists) /\ row.home = user[u].home
  BY <1>0 DEF UserType, Inv, PasswordsExist
<1>2. SetUser(u, row) /\ UNCHANGED <<member, elsewhere>>
  BY DEF AcceptActivate
<1> HIDE DEF row
<1>3. TablesSound' /\ user'[u].home = user[u].home
  BY <1>0, <1>1, <1>2, UserWritten
<1>4. PICK pc \in {"accept_home", "accept_strip"} : GoTo(c, pc)
  BY DEF AcceptActivate
<1>5. pc \in Stages
  BY DEF Stages
<1>6. Knows(c)'
  BY <1>0, <1>2, <1>3, <1>4, <1>5, GoToFields
     DEF AcceptActivate, Knows, KnowsRow, KnowsMembership, KnowsOwners, Loaded, At, Target,
         Fresh, InviteOrg
<1>7. QED BY <1>3, <1>4, <1>5, <1>6, GoToKeeps

LEMMA AcceptStrips ==
  ASSUME Inv, NEW c \in Callers, AcceptStrip(c)
  PROVE  Inv'
<1> DEFINE u == Target(c)
<1>0. u \in Users /\ Knows(c)
  BY CallFieldTypes DEF Inv
<1>1. /\ TablesSound' /\ UNCHANGED user
      /\ InviteOrg(call[c].row) = "here" => UNCHANGED member
  BY <1>0 DEF AcceptStrip, SetMember, TablesSound, Inv, TypeOK, PasswordsExist
<1>2. GoTo(c, "accept_home") /\ "accept_home" \in Stages
  BY DEF AcceptStrip, Stages
<1>3. Knows(c)'
  BY <1>0, <1>1, <1>2, GoToFields
     DEF AcceptStrip, Knows, KnowsRow, KnowsMembership, KnowsOwners, Loaded, At, Target,
         Fresh, InviteOrg
<1>4. QED BY <1>1, <1>2, <1>3, GoToKeeps

\* UsersService.update has read the row again: the call knows it until another one changes it.
LEMMA ReadsAgain ==
  ASSUME Inv, NEW c \in Callers, NEW pc \in {"expired_save", "home_save", "clear_save"},
         ReadAgain(c, pc), ~Idle(c),
         pc = "home_save" => At(c, "accept_home"), pc = "clear_save" => At(c, "accept_clear")
  PROVE  Inv'
<1> DEFINE u == Target(c)
           next == [call[c] EXCEPT !.pc = pc, !.again = user[u], !.dirty = @ \ {"row"}]
<1>0. u \in Users /\ user[u] \in UserType /\ Knows(c)
  BY CallFieldTypes DEF Inv
<1>1. KeepTables /\ TablesSound'
  BY TablesKept DEF ReadAgain
<1>2. /\ next \in CallType
      /\ next.pc = pc /\ next.target = u /\ next.row = call[c].row /\ next.again = user[u]
      /\ next.role = call[c].role /\ next.new = call[c].new
      /\ next.dirty = call[c].dirty \ {"row"}
  <2>1. call[c] \in CallType /\ pc \in Stages
    BY DEF Inv, TypeOK, Stages
  <2>2. call[c].dirty \ {"row"} \in SUBSET {"owners", "row", "membership"}
    BY <2>1 DEF CallType
  <2>3. QED BY <1>0, <2>1, <2>2 DEF CallType, Target
<1> HIDE DEF next
<1>3. CASE user[u].exists /\ Go(c, next)
  <2>1. call'[c] = next
    BY <1>2, <1>3, DirtiedCalls DEF Go, Inv
  <2>2. KnowsRow(c)' /\ Loaded(c)'
    BY <1>0, <1>1, <1>2, <1>3, <2>1
       DEF KeepTables, Knows, KnowsRow, Loaded, At, Target, Fresh, InviteOrg
  <2>3. KnowsMembership(c)' /\ KnowsOwners(c)'
    BY <1>0, <1>1, <1>2, <2>1
       DEF KeepTables, Knows, KnowsMembership, KnowsOwners, At, Target, Fresh, InviteOrg, Joined
  <2>4. QED BY <1>1, <1>2, <1>3, <2>2, <2>3, GoKeeps DEF Knows
<1>4. CASE Fail(c)
  BY <1>1, <1>4, EndKeeps
<1>5. QED BY <1>3, <1>4 DEF ReadAgain, next

\* ... and saves it, but for one field.
LEMMA SavesAgain ==
  ASSUME Inv, NEW c \in Callers, NEW row \in UserType, row.exists, SaveAgain(c, row)
  PROVE  /\ TablesSound' /\ UNCHANGED <<member, elsewhere>>
         /\ user'[Target(c)] = row
BY CallFieldTypes, UserWritten DEF SaveAgain

LEMMA SavedFields ==
  ASSUME Inv, NEW c \in Callers, NEW pc \in Stages, Saved(c, pc)
  PROVE  /\ [call[c] EXCEPT !.pc = pc, !.again = Absent] \in CallType
         /\ call'[c].pc = pc /\ call'[c].target = call[c].target
         /\ call'[c].row = call[c].row /\ call'[c].role = call[c].role
         /\ call'[c].dirty = call[c].dirty
<1> DEFINE next == [call[c] EXCEPT !.pc = pc, !.again = Absent]
<1>1. /\ next \in CallType
      /\ next.pc = pc /\ next.target = call[c].target /\ next.row = call[c].row
      /\ next.role = call[c].role /\ next.dirty = call[c].dirty
  BY NoCallType DEF Inv, TypeOK, CallType
<1>2. call' = Dirtied(c, next)
  BY DEF Saved, Go
<1> HIDE DEF next
<1>3. call'[c] = next
  BY <1>1, <1>2, DirtiedCalls DEF Inv
<1>4. QED BY <1>1, <1>3 DEF next

LEMMA SavedKeeps ==
  ASSUME Inv, NEW c \in Callers, NEW pc \in Stages, Saved(c, pc), TablesSound', Knows(c)'
  PROVE  Inv'
BY SavedFields, GoKeeps DEF Saved

\* The row as read again, with one field written.
LEMMA AgainTypes ==
  ASSUME Inv, NEW c \in Callers
  PROVE  /\ call[c].again \in UserType
         /\ \A i \in {"none", "pending", "accepted", "expired"} :
              LET r == [call[c].again EXCEPT !.invite = i] IN
              /\ r \in UserType /\ r.exists = call[c].again.exists
              /\ r.password = call[c].again.password
         /\ \A l \in {"none", "here", "else", "home"} :
              LET r == [call[c].again EXCEPT !.link = l] IN
              /\ r \in UserType /\ r.exists = call[c].again.exists
              /\ r.password = call[c].again.password
         /\ \A h \in {"here", "else", "none"} :
              LET r == [call[c].again EXCEPT !.home = h] IN
              /\ r \in UserType /\ r.exists = call[c].again.exists
              /\ r.password = call[c].again.password
<1>1. call[c].again \in UserType
  BY DEF Inv, TypeOK, CallType
<1>2. QED BY <1>1 DEF UserType

LEMMA AcceptSetsHome ==
  ASSUME Inv, NEW c \in Callers, AcceptHome(c) \/ HomeSave(c)
  PROVE  Inv'
<1> DEFINE org == InviteOrg(call[c].row)
           row == [call[c].again EXCEPT !.home = org]
<1>0. /\ call[c].row \in UserType /\ Knows(c) /\ org \in {"here", "else", "none"}
      /\ "accept_member" \in Stages
  BY CallFieldTypes, OrgType DEF Inv, Stages
<1>1. CASE AcceptHome(c) /\ ReadAgain(c, "home_save")
  BY <1>1, ReadsAgain DEF AcceptHome, At, Idle
<1>2. CASE AcceptHome(c) /\ KeepTables /\ GoTo(c, "accept_member")
  <2>1. Knows(c)'
    BY <1>0, <1>2, GoToFields
       DEF AcceptHome, KeepTables, Knows, KnowsRow, KnowsMembership, KnowsOwners, Loaded, At,
           Target, Fresh, InviteOrg
  <2>2. QED BY <1>0, <1>2, <2>1, TablesKept, GoToKeeps
<1>3. CASE HomeSave(c)
  <2>1. row \in UserType /\ row.exists
    BY <1>0, <1>3, AgainTypes DEF Knows, Loaded, HomeSave, At
  <2>2. TablesSound' /\ UNCHANGED <<member, elsewhere>> /\ Saved(c, "accept_member")
    BY <1>3, <2>1, SavesAgain DEF HomeSave
  <2>3. Knows(c)'
    BY <1>0, <1>3, <2>2, SavedFields
       DEF HomeSave, Knows, KnowsRow, KnowsMembership, KnowsOwners, Loaded, At, Target, Fresh,
           InviteOrg, Joined
  <2>4. QED BY <1>0, <2>2, <2>3, SavedKeeps
<1>4. QED BY <1>1, <1>2, <1>3 DEF AcceptHome

LEMMA AcceptJoins ==
  ASSUME Inv, NEW c \in Callers, AcceptMember(c)
  PROVE  Inv'
<1> DEFINE u == Target(c)
<1>0. u \in Users /\ call[c].new \in Roles /\ Knows(c)
  BY CallFieldTypes DEF Inv
<1>1. TablesSound' /\ UNCHANGED user
  BY <1>0 DEF AcceptMember, SetMember, TablesSound, Inv, TypeOK, PasswordsExist
<1>2. InviteOrg(call[c].row) = "here" =>
        member'[u] # "none" /\ (member[u] # "none" => member'[u] = member[u])
  <2>1. call[c].new # "none" /\ member \in [Users -> Roles \cup {"none"}]
    BY <1>0 DEF Roles, Inv, TypeOK
  <2>2. InviteOrg(call[c].row) = "here" =>
          member' = IF member[u] # "none" THEN member ELSE [member EXCEPT ![u] = call[c].new]
    BY DEF AcceptMember, SetMember, Joined
  <2>3. QED BY <1>0, <2>1, <2>2 DEF Joined
<1>3. GoTo(c, "accept_clear") /\ "accept_clear" \in Stages
  BY DEF AcceptMember, Stages
<1>4. Knows(c)'
  BY <1>0, <1>2, <1>3, GoToFields
     DEF AcceptMember, Knows, KnowsRow, KnowsMembership, KnowsOwners, Loaded, At, Target,
         Fresh, InviteOrg, Joined
<1>5. QED BY <1>1, <1>3, <1>4, GoToKeeps

LEMMA AcceptClears ==
  ASSUME Inv, NEW c \in Callers, AcceptClear(c) \/ ClearSave(c)
  PROVE  Inv'
<1> DEFINE link == IF call[c].again.link # "none" THEN "home" ELSE call[c].again.link
           row == [call[c].again EXCEPT !.link = link]
<1>0. Knows(c) /\ link \in {"none", "home"} /\ "repair" \in Stages
  BY DEF Inv, Stages
<1>1. CASE AcceptClear(c)
  BY <1>1, ReadsAgain DEF AcceptClear, At, Idle
<1>2. CASE ClearSave(c)
  <2>1. row \in UserType /\ row.exists
    BY <1>0, <1>2, AgainTypes DEF Knows, Loaded, ClearSave, At
  <2>2. SaveAgain(c, row)
    BY <1>2 DEF ClearSave
  <2> HIDE DEF row
  <2>3. TablesSound' /\ UNCHANGED <<member, elsewhere>>
    BY <2>1, <2>2, SavesAgain
  <2>4. CASE Done(c)
    BY <2>3, <2>4, EndKeeps
  <2>5. CASE InviteOrg(call[c].row) = "here" /\ Saved(c, "repair")
    <3>1. Knows(c)'
      BY <1>0, <1>2, <2>3, <2>5, SavedFields
         DEF ClearSave, Knows, KnowsRow, KnowsMembership, KnowsOwners, Loaded, At, Target,
             Fresh, Joined
    <3>2. QED BY <1>0, <2>3, <2>5, <3>1, SavedKeeps
  <2>6. QED BY <1>2, <2>4, <2>5 DEF ClearSave
<1>3. QED BY <1>1, <1>2

LEMMA AcceptKeeps ==
  ASSUME Inv, NEW c \in Callers, AcceptStep(c)
  PROVE  Inv'
<1>1. CASE AcceptExpired(c)
  BY <1>1, ReadsAgain DEF AcceptExpired, At, Idle
<1>2. CASE ExpiredSave(c)
  <2>1. Knows(c)
    BY DEF Inv
  <2>2. TablesSound'
    BY <1>2, <2>1, AgainTypes, SavesAgain DEF Knows, Loaded, ExpiredSave, At
  <2>3. QED BY <1>2, <2>2, EndKeeps DEF ExpiredSave
<1>3. CASE RepairAfter(c)
  BY <1>3, RepairedKept, EndKeeps DEF RepairAfter
<1>4. QED BY <1>1, <1>2, <1>3, AcceptBegins, AcceptActivates, AcceptStrips, AcceptSetsHome,
             AcceptJoins, AcceptClears DEF AcceptStep

-----------------------------------------------------------------------------
(* Accounts of Jira                                                        *)

LEMMA ImportKeeps ==
  ASSUME Inv, NEW c \in Callers, NEW u \in Users, NEW real \in BOOLEAN, Import(c, u, real)
  PROVE  Inv'
<1> DEFINE row == IF user[u].exists THEN [user[u] EXCEPT !.jira = TRUE] ELSE Migrated(real)
<1>1. user[u] \in UserType
  BY CallFieldTypes
<1>2. Migrated(real) \in UserType /\ ~Migrated(real).password
  BY NoCallType DEF Migrated, Placeholder, Absent, UserType
<1>3. row \in UserType /\ (row.password => row.exists)
  BY <1>1, <1>2 DEF UserType
<1>4. TablesSound'
  BY <1>3, UserWritten DEF Import
<1>5. QED BY <1>4, NeedingKeeps DEF Import

LEMMA EmailLoads ==
  ASSUME Inv, NEW c \in Callers, NEW u \in Users, EmailLoad(c, u) \/ RowLoad(c, u)
  PROVE  Inv'
<1>1. PICK pc \in {"email_save", "row_save"} :
        Starts(c, [Needing(pc, u) EXCEPT !.row = user[u]])
  BY DEF EmailLoad, RowLoad
<1> DEFINE next == [Needing(pc, u) EXCEPT !.row = user[u]]
<1>2. /\ next \in CallType /\ next.pc = pc /\ next.target = u /\ next.row = user[u]
  BY NoCallType DEF Needing, NoCall, Inv, TypeOK, CallType, Stages
<1> HIDE DEF next
<1>3. call'[c] = next
  BY <1>1, <1>2, DirtiedCalls DEF Starts, Inv, next
<1>4. KeepTables
  BY DEF EmailLoad, RowLoad
<1>5. Knows(c)'
  BY <1>2, <1>3, <1>4
     DEF KeepTables, Knows, KnowsRow, KnowsMembership, KnowsOwners, Loaded, At, Target,
         Inv, PasswordsExist
<1>6. QED BY <1>1, <1>2, <1>4, <1>5, TablesKept, StartKeeps DEF next

LEMMA MergeLoads ==
  ASSUME Inv, NEW c \in Callers, NEW u \in Users, NEW v \in Users, NEW actor,
         MergeLoad(c, u, v, actor)
  PROVE  Inv'
<1> DEFINE jira == user[v].jira /\ ~user[u].jira
           next == [Needing("merge", u) EXCEPT !.from = v, !.role = member[u], !.row.jira = jira]
<1>1. jira \in BOOLEAN /\ member[u] \in Roles \cup {"none"}
  BY DEF Inv, TypeOK
<1> HIDE DEF jira
<1>2. next \in CallType /\ next.pc = "merge" /\ ~next.row.password
  <2>1. Needing("merge", u) \in CallType /\ Needing("merge", u).pc = "merge"
          /\ ~Needing("merge", u).row.password
    BY NeedingType DEF Stages
  <2>2. [Needing("merge", u).row EXCEPT !.jira = jira] \in UserType
          /\ ~[Needing("merge", u).row EXCEPT !.jira = jira].password
    BY <1>1, <2>1 DEF CallType, UserType
  <2>3. QED BY <1>1, <2>1, <2>2 DEF CallType
<1>3. Starts(c, next) /\ KeepTables
  BY DEF MergeLoad, jira
<1> HIDE DEF next
<1>4. call'[c] = next
  BY <1>2, <1>3, DirtiedCalls DEF Starts, Inv
<1>5. Knows(c)'
  BY <1>2, <1>4, NothingKnown
<1>6. QED BY <1>2, <1>3, <1>5, TablesKept, StartKeeps

LEMMA MergeTables ==
  ASSUME Inv, NEW c \in Callers, Merge(c)
  PROVE  TablesSound' /\ projects' \subseteq Users
<1> DEFINE u == Target(c)
           v == call[c].from
           left == [member EXCEPT ![v] = "none"]
           rest == [user EXCEPT ![v] = IF ~elsewhere[v] THEN Absent ELSE @]
           jira == rest[u].jira \/ (call[c].row.jira /\ ~user[v].jira)
           rows == [rest EXCEPT ![u].jira = jira]
           Sound(f) == f \in [Users -> UserType] /\ \A w \in Users : f[w].password => f[w].exists
<1>0. u \in Users /\ v \in Users
  BY CallFieldTypes
<1>1. user' = rows \/ user' = [rows EXCEPT ![u].active = FALSE, ![u].invite = "pending"]
  BY DEF Merge
<1>2. Sound(rest)
  BY <1>0, NoCallType DEF Inv, TypeOK, PasswordsExist, Absent
<1>3. jira \in BOOLEAN
  OBVIOUS
<1> HIDE DEF rest, jira
<1>4. Sound(rows)
  <2>1. rest[u] \in UserType /\ (rest[u].password => rest[u].exists)
    BY <1>0, <1>2
  <2>2. /\ [rest[u] EXCEPT !.jira = jira] \in UserType
        /\ [rest[u] EXCEPT !.jira = jira].password => [rest[u] EXCEPT !.jira = jira].exists
    BY <1>3, <2>1 DEF UserType
  <2>3. rows = [rest EXCEPT ![u] = [rest[u] EXCEPT !.jira = jira]]
    BY <1>0, <1>2
  <2>4. QED BY <1>0, <1>2, <2>2, <2>3
<1> HIDE DEF rows
<1>5. Sound([rows EXCEPT ![u].active = FALSE, ![u].invite = "pending"])
  <2> DEFINE row == [rows[u] EXCEPT !.active = FALSE, !.invite = "pending"]
  <2>1. rows[u] \in UserType /\ (rows[u].password => rows[u].exists)
    BY <1>0, <1>4
  <2>2. row \in UserType /\ (row.password => row.exists)
    BY <2>1 DEF UserType
  <2>3. [rows EXCEPT ![u].active = FALSE, ![u].invite = "pending"] = [rows EXCEPT ![u] = row]
    BY <1>0, <1>4
  <2> HIDE DEF row
  <2>4. Sound([rows EXCEPT ![u] = row])
    BY <1>0, <1>4, <2>2
  <2>5. QED BY <2>3, <2>4
<1>6. Sound(user')
  BY <1>1, <1>4, <1>5
<1>7. /\ left \in [Users -> Roles \cup {"none"}]
      /\ [left EXCEPT ![u] = "user"] \in [Users -> Roles \cup {"none"}]
  BY <1>0 DEF Inv, TypeOK, Roles
<1>8. member' \in [Users -> Roles \cup {"none"}] /\ UNCHANGED elsewhere
  BY <1>7 DEF Merge
<1>9. projects' \subseteq Users
  BY <1>0 DEF Merge, Inv, TypeOK
<1>10. QED BY <1>6, <1>8, <1>9 DEF TablesSound, Inv, TypeOK, PasswordsExist

LEMMA MergeKeeps ==
  ASSUME Inv, NEW c \in Callers, Merge(c)
  PROVE  Inv'
<1>1. Needing("send", Target(c)) \in CallType /\ Needing("send", Target(c)).pc = "send"
        /\ ~Needing("send", Target(c)).row.password
  BY NeedingType, CallFieldTypes DEF Stages
<1>2. call' = Dirtied(c, Needing("send", Target(c))) /\ UNCHANGED calls
  BY DEF Merge
<1>3. call'[c] = Needing("send", Target(c))
  BY <1>1, <1>2, DirtiedCalls DEF Inv
<1>4. Knows(c)'
  BY <1>1, <1>3, NothingKnown
<1>5. calls' \in 0..MaxCalls
  BY <1>2 DEF Inv, TypeOK
<1>6. QED BY <1>1, <1>2, <1>4, <1>5, MergeTables, StepKeeps

LEMMA JiraKeeps ==
  ASSUME Inv, NEW c \in Callers, JiraStep(c)
  PROVE  Inv'
<1> DEFINE u == Target(c)
<1>0. u \in Users /\ call[c].row \in UserType /\ Knows(c)
  BY CallFieldTypes DEF Inv
<1>1. CASE ImportMember(c)
  BY <1>0, <1>1, MemberEnds DEF ImportMember, Roles
<1>2. CASE EmailSave(c)
  <2> DEFINE row == [call[c].row EXCEPT !.active = FALSE, !.invite = "pending"]
  <2>1. row \in UserType /\ (row.password => row.exists)
    BY <1>0 DEF UserType, Knows, Loaded
  <2>2. QED BY <1>0, <1>2, <2>1, RowEnds DEF EmailSave
<1>3. ASSUME NEW v \in Users, NEW w \in Users, NEW actor \in Admins, MergeLoad(c, v, w, actor)
      PROVE  Inv'
  BY <1>3, MergeLoads
<1>4. QED BY <1>1, <1>2, <1>3, ImportKeeps, EmailLoads, MergeKeeps DEF JiraStep

-----------------------------------------------------------------------------
(* Single sign-on, profiles, and calls of one statement                    *)

LEMMA OauthLoads ==
  ASSUME Inv, NEW c \in Callers, NEW u \in Users, OauthLoad(c, u)
  PROVE  Inv'
<1>1. /\ Begin(c, "oauth_member", u, user[u].role) /\ "oauth_member" \in Stages
      /\ user[u].role \in Roles
  BY DEF OauthLoad, Stages, Inv, TypeOK, UserType
<1>2. call'[c].pc = "oauth_member" /\ call'[c].row = user[u]
  BY <1>1, BeginFields
<1>3. Knows(c)'
  BY <1>2 DEF Knows, KnowsRow, KnowsMembership, KnowsOwners, Loaded, At, Inv, PasswordsExist
<1>4. QED BY <1>1, <1>3, BeginKeeps

LEMMA SamlLoads ==
  ASSUME Inv, NEW c \in Callers, NEW u \in Users, SamlLoad(c, u)
  PROVE  Inv'
<1>1. PICK pc \in {"saml_create", "saml_member", "repair"} :
        /\ Starts(c, [Needing(pc, u) EXCEPT !.role = member[u]])
        /\ pc = "repair" => Joined(u)
  BY DEF SamlLoad
<1> DEFINE next == [Needing(pc, u) EXCEPT !.role = member[u]]
<1>2. /\ next \in CallType /\ next.pc = pc /\ next.target = u /\ next.role = member[u]
      /\ ~next.row.password
  BY NoCallType DEF Needing, NoCall, Inv, TypeOK, CallType, Stages, Absent
<1> HIDE DEF next
<1>3. call'[c] = next
  BY <1>1, <1>2, DirtiedCalls DEF Starts, Inv, next
<1>4. KeepTables
  BY DEF SamlLoad
<1>5. Knows(c)'
  BY <1>1, <1>2, <1>3, <1>4
     DEF KeepTables, Knows, KnowsRow, KnowsMembership, KnowsOwners, Loaded, At, Target, Joined
<1>6. QED BY <1>1, <1>2, <1>4, <1>5, TablesKept, StartKeeps DEF next

LEMMA SamlSteps ==
  ASSUME Inv, NEW c \in Callers, SamlCreate(c) \/ SamlMember(c)
  PROVE  Inv'
<1> DEFINE u == Target(c)
<1>0. u \in Users /\ Knows(c)
  BY CallFieldTypes DEF Inv
<1>1. CASE SamlCreate(c)
  <2> DEFINE row == [Absent EXCEPT !.exists = TRUE, !.home = "here", !.active = TRUE]
  <2>1. row \in UserType /\ ~row.password
    BY NoCallType DEF Absent, UserType
  <2>2. TablesSound' /\ UNCHANGED member
    BY <1>0, <1>1, <2>1, UserWritten DEF SamlCreate
  <2>3. GoTo(c, "saml_member") /\ "saml_member" \in Stages
    BY <1>1 DEF SamlCreate, Stages
  <2>4. Knows(c)'
    BY <1>0, <1>1, <2>2, <2>3, GoToFields
       DEF SamlCreate, Knows, KnowsRow, KnowsMembership, KnowsOwners, Loaded, At, Target,
           Fresh, Joined
  <2>5. QED BY <2>2, <2>3, <2>4, GoToKeeps
<1>2. CASE SamlMember(c)
  <2>1. TablesSound' /\ member'[u] = "user"
    BY <1>0, <1>2, MemberWritten DEF SamlMember, Roles
  <2>2. GoTo(c, "repair") /\ "repair" \in Stages
    BY <1>2 DEF SamlMember, Stages
  <2>3. Knows(c)'
    BY <1>0, <1>2, <2>1, <2>2, GoToFields
       DEF SamlMember, Knows, KnowsRow, KnowsMembership, KnowsOwners, Loaded, At, Target,
           Fresh, Joined
  <2>4. QED BY <2>1, <2>2, <2>3, GoToKeeps
<1>3. QED BY <1>1, <1>2

LEMMA SignOnKeeps ==
  ASSUME Inv, NEW c \in Callers, SignOnStep(c)
  PROVE  Inv'
<1> DEFINE u == Target(c)
<1>0. u \in Users /\ call[c].row \in UserType /\ call[c].new \in Roles /\ Knows(c)
  BY CallFieldTypes DEF Inv
<1>1. ASSUME NEW v \in Users, ResetPassword(c, v) PROVE Inv'
  <2> DEFINE row == [user[v] EXCEPT !.password = TRUE]
  <2>1. user[v] \in UserType
    BY CallFieldTypes
  <2>2. row \in UserType /\ (row.password => row.exists)
    BY <1>1, <2>1 DEF UserType, ResetPassword
  <2>3. TablesSound'
    BY <1>1, <2>2, UserWritten DEF ResetPassword
  <2>4. QED BY <1>1, <2>3, OnceKeeps DEF ResetPassword
<1>2. CASE OauthMember(c)
  <2>1. TablesSound' /\ Done(c)
    BY <1>0, <1>2 DEF OauthMember, SetMember, TablesSound, Inv, TypeOK, PasswordsExist
  <2>2. QED BY <2>1, EndKeeps
<1>3. CASE RowSave(c)
  BY <1>0, <1>3, RowEnds DEF RowSave, Knows, Loaded
<1>4. QED BY <1>1, <1>2, <1>3, OauthLoads, SamlLoads, EmailLoads, SamlSteps DEF SignOnStep

LEMMA OtherKeeps ==
  ASSUME Inv, NEW c \in Callers, OtherStep(c)
  PROVE  Inv'
<1>1. CASE Repair(c)
  BY <1>1, RepairedKept, OnceKeeps DEF Repair
<1>2. ASSUME NEW u \in Users, Refer(c, u) PROVE Inv'
  <2>1. /\ call' = Dirtied(c, NoCall) /\ KeepTables /\ projects' \subseteq Users
        /\ calls' \in 0..MaxCalls
    BY <1>2, ConstantsAssumption DEF Refer, Inv, TypeOK
  <2>2. call'[c] = NoCall
    BY <2>1, NoCallType, DirtiedCalls DEF Inv
  <2>3. Knows(c)'
    BY <2>2, NothingKnown DEF NoCall, Absent
  <2>4. QED BY <2>1, <2>3, NoCallType, TablesKept, StepKeeps
<1>3. ASSUME NEW u \in Users, OtherInvite(c, u) PROVE Inv'
  <2> DEFINE other == [Absent EXCEPT !.exists = TRUE, !.home = "else"]
             row == IF ~user[u].exists THEN Linked(other, "else")
                    ELSE IF user[u].invite = "accepted" THEN user[u]
                    ELSE Linked(user[u], "else")
  <2>1. user[u] \in UserType
    BY CallFieldTypes
  <2>2. other \in UserType /\ ~other.password /\ other.exists
    BY NoCallType DEF Absent, UserType
  <2> HIDE DEF other
  <2>3. row \in UserType /\ (row.password => row.exists)
    BY <2>1, <2>2 DEF Linked, UserType
  <2>4. SetUser(u, row) /\ elsewhere' = [elsewhere EXCEPT ![u] = TRUE] /\ UNCHANGED member
    BY <1>3 DEF OtherInvite, other
  <2> HIDE DEF row
  <2>5. TablesSound'
    BY <2>3, <2>4 DEF SetUser, TablesSound, Inv, TypeOK, PasswordsExist
  <2>6. QED BY <1>3, <2>5, OnceKeeps DEF OtherInvite
<1>4. ASSUME NEW u \in Users, OtherRemove(c, u) PROVE Inv'
  <2>1. TablesSound'
    BY <1>4 DEF OtherRemove, TablesSound, Inv, TypeOK, PasswordsExist
  <2>2. QED BY <1>4, <2>1, OnceKeeps DEF OtherRemove
<1>5. QED BY <1>1, <1>2, <1>3, <1>4 DEF OtherStep

-----------------------------------------------------------------------------
(* The invariant                                                           *)

LEMMA InvInit == Init => Inv
<1> SUFFICES ASSUME Init PROVE Inv
  OBVIOUS
<1>1. \A b \in Beginnings :
        /\ b.row \in UserType /\ (b.row.password => b.row.exists)
        /\ b.here \in Roles \cup {"none"} /\ b.elsewhere \in BOOLEAN
  <2>1. Placeholder \in UserType /\ Placeholder.exists
    BY NoCallType DEF Placeholder, Absent, UserType
  <2>2. Migrated(FALSE) \in UserType /\ Migrated(FALSE).exists
    BY <2>1 DEF Migrated, UserType
  <2>3. \A home \in {"here", "else"}, role \in Roles :
          Account(home, role) \in UserType /\ Account(home, role).exists
    BY NoCallType DEF Account, Absent, UserType
  <2>4. Absent \in UserType /\ ~Absent.password
    BY NoCallType DEF Absent
  <2>5. ASSUME NEW b \in Beginnings, NEW row, NEW here, NEW there,
               b = [row |-> row, here |-> here, elsewhere |-> there],
               row \in UserType, row.password => row.exists,
               here \in {"owner", "administrator", "user", "none"}, there \in BOOLEAN
        PROVE  /\ b.row \in UserType /\ (b.row.password => b.row.exists)
               /\ b.here \in Roles \cup {"none"} /\ b.elsewhere \in BOOLEAN
    BY <2>5 DEF Roles
  <2>6. ASSUME NEW b \in Beginnings
        PROVE  \E row \in {Absent, Placeholder, Migrated(FALSE), Account("else", "owner"),
                           Account("else", "user"), Account("here", "owner")},
                  here \in {"owner", "administrator", "user", "none"}, there \in BOOLEAN :
                 b = [row |-> row, here |-> here, elsewhere |-> there]
    BY <2>6, Zenon DEF Beginnings
  <2>7. {"owner", "user"} \subseteq Roles
    BY DEF Roles
  <2>8. \A row \in {Absent, Placeholder, Migrated(FALSE), Account("else", "owner"),
                   Account("else", "user"), Account("here", "owner")} :
          row \in UserType /\ (row.password => row.exists)
    BY <2>1, <2>2, <2>3, <2>4, <2>7
  <2>9. ASSUME NEW b \in Beginnings
        PROVE  /\ b.row \in UserType /\ (b.row.password => b.row.exists)
               /\ b.here \in Roles \cup {"none"} /\ b.elsewhere \in BOOLEAN
    BY <2>5, <2>6, <2>8
  <2>10. QED BY <2>9
<1>2. PICK start \in [Users -> Beginnings] :
        /\ user = [u \in Users |-> start[u].row]
        /\ member = [u \in Users |-> start[u].here]
        /\ elsewhere = [u \in Users |-> start[u].elsewhere]
  BY DEF Init
<1>3. TypeOK
  <2>1. user \in [Users -> UserType] /\ member \in [Users -> Roles \cup {"none"}]
          /\ elsewhere \in [Users -> BOOLEAN]
    BY <1>1, <1>2
  <2>2. projects \subseteq Users /\ call \in [Callers -> CallType] /\ calls \in 0..MaxCalls
    <3>1. projects \subseteq Users
      BY DEF Init
    <3>2. call \in [Callers -> CallType]
      BY NoCallType DEF Init
    <3>3. calls \in 0..MaxCalls
      BY ConstantsAssumption DEF Init
    <3>4. QED BY <3>1, <3>2, <3>3
  <2>3. QED BY <2>1, <2>2 DEF TypeOK
<1>4. PasswordsExist
  BY <1>1, <1>2 DEF PasswordsExist
<1>5. ASSUME NEW d \in Callers PROVE Knows(d)
  <2>1. call[d].pc = "idle" /\ ~call[d].row.password
    BY DEF Init, NoCall, Absent
  <2>2. QED BY <2>1 DEF Knows, KnowsRow, KnowsMembership, KnowsOwners, Loaded, At
<1>6. QED BY <1>3, <1>4, <1>5 DEF Inv

LEMMA InvNext == Inv /\ [Next]_vars => Inv'
<1> SUFFICES ASSUME Inv, [Next]_vars PROVE Inv'
  OBVIOUS
<1>1. ASSUME NEW c \in Callers, CallFails(c) PROVE Inv'
  BY <1>1, TablesKept, EndKeeps DEF CallFails
<1>2. ASSUME NEW c \in Callers, RemoveStep(c) PROVE Inv'
  BY <1>2, RevokeKeeps, DeactKeeps DEF RemoveStep
<1>3. CASE UNCHANGED vars
  BY <1>3
     DEF vars, Inv, TypeOK, PasswordsExist, Knows, KnowsRow, KnowsMembership, KnowsOwners,
         Loaded, At, Target, Fresh, Joined, OtherOwners, Owners, MemberOwners, LegacyOwners
<1>4. QED BY <1>1, <1>2, <1>3, InviteKeeps, RoleKeeps, AcceptKeeps, JiraKeeps, SignOnKeeps,
             OtherKeeps DEF Next

LEMMA InvAlways == Spec => []Inv
BY InvInit, InvNext, PTL DEF Spec

\* Every variable has its type in every reachable state of the membership of an
\* organization.
THEOREM MembershipTypes == Spec => []TypeOK
<1>1. Inv => TypeOK
  BY DEF Inv
<1>2. QED BY <1>1, InvAlways, PTL

-----------------------------------------------------------------------------
(* Whose step it is                                                        *)

CallerStep(c) ==
  InviteStep(c) \/ RemoveStep(c) \/ RoleStep(c) \/ AcceptStep(c) \/ JiraStep(c)
    \/ SignOnStep(c) \/ OtherStep(c) \/ CallFails(c)

\* The stages at which a call takes steps of each kind.
LEMMA StepStages ==
  ASSUME NEW c \in Callers, ~Idle(c)
  PROVE  /\ InviteStep(c) =>
              call[c].pc \in {"invite_insert", "invite_create", "invite_member", "send",
                              "resend_pending"}
         /\ RemoveStep(c) =>
              call[c].pc \in {"revoke_remove", "revoke_count", "revoke_delete",
                              "revoke_detach", "deact_count", "deact_remove", "deact_others",
                              "deact_disable"}
         /\ RoleStep(c) => call[c].pc \in {"role_count", "role_save", "role_user"}
         /\ AcceptStep(c) =>
              call[c].pc \in {"accept_activate", "expired_save", "accept_strip", "accept_home",
                              "home_save", "accept_member", "accept_clear", "clear_save",
                              "repair"}
         /\ JiraStep(c) => call[c].pc \in {"import_member", "email_save", "merge"}
         /\ SignOnStep(c) =>
              call[c].pc \in {"oauth_member", "saml_create", "saml_member", "row_save"}
         /\ ~OtherStep(c)
<1>1. \A next : ~Starts(c, next)
  BY DEF Starts
<1>2. \A pc, u, new : ~Begin(c, pc, u, new)
  BY <1>1 DEF Begin
<1>3. ~Once(c)
  BY <1>1 DEF Once
<1>4. InviteStep(c) =>
        call[c].pc \in {"invite_insert", "invite_create", "invite_member", "send",
                        "resend_pending"}
  BY <1>1, <1>2
     DEF InviteStep, InviteKnown, InviteNew, InviteInsert, InviteCreate, InviteMember, Send,
         ResendLoad, BulkInvite, ResendPending, At
<1>5. RemoveStep(c) =>
        call[c].pc \in {"revoke_remove", "revoke_count", "revoke_delete", "revoke_detach",
                        "deact_count", "deact_remove", "deact_others", "deact_disable"}
  BY <1>2, <1>3
     DEF RemoveStep, RevokeLoad, DeactivateUser, RevokeRemove, RevokeCount, RevokeDelete,
         RevokeDetach, DeactLoad, DeactCount, DeactRemove, DeactOthers, DeactDisable, At
<1>6. RoleStep(c) => call[c].pc \in {"role_count", "role_save", "role_user"}
  BY <1>2 DEF RoleStep, RoleLoad, RoleCount, RoleSave, RoleUser, At
<1>7. AcceptStep(c) =>
        call[c].pc \in {"accept_activate", "expired_save", "accept_strip", "accept_home",
                        "home_save", "accept_member", "accept_clear", "clear_save", "repair"}
  BY <1>2
     DEF AcceptStep, AcceptLoad, AcceptExpired, ExpiredSave, AcceptActivate, AcceptStrip,
         AcceptHome, HomeSave, AcceptMember, AcceptClear, ClearSave, RepairAfter, At
<1>8. JiraStep(c) => call[c].pc \in {"import_member", "email_save", "merge"}
  BY <1>1 DEF JiraStep, Import, EmailLoad, MergeLoad, ImportMember, EmailSave, Merge, At
<1>9. SignOnStep(c) =>
        call[c].pc \in {"oauth_member", "saml_create", "saml_member", "row_save"}
  BY <1>1, <1>2, <1>3
     DEF SignOnStep, OauthLoad, SamlLoad, RowLoad, ResetPassword, OauthMember, SamlCreate,
         SamlMember, RowSave, At
<1>10. ~OtherStep(c)
  BY <1>3 DEF OtherStep, Repair, Refer, OtherInvite, OtherRemove
<1>11. QED BY <1>4, <1>5, <1>6, <1>7, <1>8, <1>9, <1>10

LEMMA StepCalls ==
  ASSUME NEW c \in Callers, CallerStep(c)
  PROVE  \E next : call' = Dirtied(c, next)
<1>1. \/ \E next : Go(c, next) \/ Starts(c, next) \/ call' = Dirtied(c, next)
      \/ Done(c) \/ ToSend(c) \/ Fail(c) \/ Once(c)
      \/ \E pc : GoTo(c, pc)
      \/ \E pc, u, new : Begin(c, pc, u, new)
  <2>1. CASE InviteStep(c)
    BY <2>1
       DEF InviteStep, InviteKnown, InviteNew, InviteInsert, InviteCreate, InviteMember,
           Send, ResendLoad, BulkInvite, ResendPending
  <2>2. CASE RemoveStep(c)
    BY <2>2
       DEF RemoveStep, RevokeLoad, DeactivateUser, RevokeRemove, RevokeCount, RevokeDelete,
           RevokeDetach, DeactLoad, DeactCount, DeactRemove, DeactOthers, DeactDisable
  <2>3. CASE RoleStep(c)
    BY <2>3 DEF RoleStep, RoleLoad, RoleCount, RoleSave, RoleUser
  <2>4. CASE AcceptStep(c)
    BY <2>4
       DEF AcceptStep, AcceptLoad, AcceptExpired, ExpiredSave, AcceptActivate, AcceptStrip,
           AcceptHome, HomeSave, AcceptMember, AcceptClear, ClearSave, RepairAfter, ReadAgain,
           Saved
  <2>5. CASE JiraStep(c)
    BY <2>5 DEF JiraStep, Import, EmailLoad, MergeLoad, ImportMember, EmailSave, Merge
  <2>6. CASE SignOnStep(c)
    BY <2>6
       DEF SignOnStep, OauthLoad, SamlLoad, RowLoad, ResetPassword, OauthMember, SamlCreate,
           SamlMember, RowSave
  <2>7. CASE OtherStep(c)
    BY <2>7 DEF OtherStep, Repair, Refer, OtherInvite, OtherRemove
  <2>8. QED
    BY <2>1, <2>2, <2>3, <2>4, <2>5, <2>6, <2>7 DEF CallerStep, CallFails
<1>2. QED
  BY <1>1 DEF Go, Starts, Done, ToSend, Fail, Once, GoTo, Begin

\* A call under way that others step past does not end.
LEMMA OthersRemain ==
  ASSUME Inv, NEW c \in Callers, CallerStep(c), NEW d \in Callers \ {c}, ~Idle(d)
  PROVE  ~Ends(d)
<1>1. PICK next : call' = Dirtied(c, next)
  BY StepCalls
<1>2. call'[d].pc = call[d].pc
  BY <1>1, OtherCalls DEF Inv
<1>3. QED BY <1>2 DEF Ends, Idle

\* The call that steps moves on, if it was under way.
LEMMA EndMoves ==
  ASSUME Inv, NEW c \in Callers, Done(c) \/ Fail(c) \/ ToSend(c)
  PROVE  /\ Done(c) => call'[c].pc = "idle"
         /\ Fail(c) => call'[c].pc = "failed"
         /\ ToSend(c) => call'[c].pc = "send"
<1>1. \A next : Go(c, next) => call'[c] = next
  BY DEF Go, Dirtied
<1>2. /\ NoCall.pc = "idle"
      /\ [NoCall EXCEPT !.pc = "failed"].pc = "failed"
      /\ Needing("send", Target(c)).pc = "send"
  BY DEF NoCall, Needing
<1>3. QED BY <1>1, <1>2 DEF Done, Fail, ToSend

LEMMA GoToMoves ==
  ASSUME Inv, NEW c \in Callers, NEW pc, GoTo(c, pc)
  PROVE  call'[c].pc = pc
<1>1. call'[c] = [call[c] EXCEPT !.pc = pc]
  BY DEF GoTo, Go, Dirtied
<1>2. call[c] \in CallType
  BY DEF Inv, TypeOK
<1>3. QED BY <1>1, <1>2 DEF CallType

LEMMA AgainMoves ==
  ASSUME Inv, NEW c \in Callers, NEW pc
  PROVE  /\ Saved(c, pc) => call'[c].pc = pc
         /\ ReadAgain(c, pc) => call'[c].pc \in {pc, "failed"}
<1>1. \A next : Go(c, next) => call'[c] = next
  BY DEF Go, Dirtied
<1>2. call[c] \in CallType
  BY DEF Inv, TypeOK
<1>3. /\ [call[c] EXCEPT !.pc = pc, !.again = Absent].pc = pc
      /\ [call[c] EXCEPT !.pc = pc, !.again = user[Target(c)], !.dirty = @ \ {"row"}].pc = pc
  BY <1>2 DEF CallType
<1>4. QED BY <1>1, <1>3, EndMoves DEF Saved, ReadAgain

-----------------------------------------------------------------------------
(* Removal and acceptance                                                  *)

\* Whoever is off the list after a step.
LEMMA OffList ==
  ASSUME NEW u \in Users, UNCHANGED member, ~Joined(u),
         ~user'[u].exists \/ user'[u].home # "here" \/ ~user'[u].active
  PROVE  ~Listed(u)'
BY DEF Listed, Joined

LEMMA RemovalEnds ==
  ASSUME Inv, NEW c \in Callers, CallerStep(c), Clean(c), Ends(c),
         call[c].pc \in {"deact_others", "deact_disable", "revoke_delete", "revoke_detach"}
  PROVE  \A u \in Users : u = Target(c) =>
            ~Listed(u)' \/ (At(c, "deact_others") /\ elsewhere[u])
<1> SUFFICES ASSUME NEW u \in Users, u = Target(c)
             PROVE  ~Listed(u)' \/ (At(c, "deact_others") /\ elsewhere[u])
  OBVIOUS
<1>1. ~Joined(u) /\ user[u] \in UserType /\ Knows(c)
  BY CallFieldTypes DEF Inv, Clean, Knows, KnowsMembership, Fresh
<1>2. RemoveStep(c)
  <2>1. ~CallFails(c)
    BY EndMoves DEF CallFails, Ends
  <2>2. QED BY <2>1, StepStages DEF CallerStep, Idle
<1>3. DeactOthers(c) \/ DeactDisable(c) \/ RevokeDelete(c) \/ RevokeDetach(c)
  <2>1. ~Idle(c)
    BY DEF Idle
  <2>2. QED
    BY <1>2, <2>1
       DEF RemoveStep, RevokeLoad, DeactLoad, DeactivateUser, Begin, Once, Starts,
           RevokeRemove, RevokeCount, DeactCount, DeactRemove, At
<1>4. CASE DeactOthers(c)
  <2>1. elsewhere[u] \/ call[c].role = "none"
    <3>1. "deact_disable" # "idle"
      OBVIOUS
    <3>2. QED BY <1>1, <1>4, <3>1, GoToMoves DEF DeactOthers, Ends
  <2>2. UNCHANGED <<user, member>>
    BY <1>4 DEF DeactOthers, KeepTables
  <2>3. call[c].role = "none" => ~user[u].active
    BY <1>1, <1>4 DEF Knows, KnowsRow, Fresh, Clean, DeactOthers
  <2>4. QED BY <1>1, <1>4, <2>1, <2>2, <2>3, OffList DEF DeactOthers
<1>5. CASE DeactDisable(c)
  <2>1. UNCHANGED member /\ user' = [user EXCEPT ![u] = [user[u] EXCEPT !.active = FALSE]]
    BY <1>5 DEF DeactDisable, SetUser
  <2>2. ~user'[u].active
    BY <1>1, <2>1 DEF UserType, Inv, TypeOK
  <2>3. QED BY <1>1, <2>1, <2>2, OffList
<1>6. CASE RevokeDelete(c)
  <2>1. u \notin projects
    BY <1>6, EndMoves DEF RevokeDelete, Ends
  <2>2. user' = [user EXCEPT ![u] = Absent]
    BY <1>6, <2>1 DEF RevokeDelete, SetUser
  <2>3. ~user'[u].exists
    BY <2>2 DEF Inv, TypeOK, Absent
  <2>4. QED BY <2>3 DEF Listed
<1>7. CASE RevokeDetach(c)
  <2>1. user[u].home = call[c].row.home
    BY <1>1, <1>7 DEF Knows, KnowsRow, Fresh, Clean, RevokeDetach, At
  <2>2. CASE call[c].row.home = "here" /\ user[u].exists
    <3>1. UNCHANGED member /\ user' = [user EXCEPT ![u] = [user[u] EXCEPT !.home = "none"]]
      BY <1>7, <2>2 DEF RevokeDetach, SetUser
    <3>2. user'[u].home = "none"
      BY <1>1, <3>1 DEF UserType, Inv, TypeOK
    <3>3. QED BY <1>1, <3>1, <3>2, OffList
  <2>3. CASE ~(call[c].row.home = "here" /\ user[u].exists)
    <3>1. UNCHANGED <<user, member>>
      BY <1>7, <2>3 DEF RevokeDetach
    <3>2. QED BY <1>1, <2>1, <2>3, <3>1, OffList
  <2>4. QED BY <2>2, <2>3
<1>8. QED BY <1>3, <1>4, <1>5, <1>6, <1>7

LEMMA RemovedStep == Inv /\ [Next]_vars => [RemovedOutStep]_vars
<1> SUFFICES ASSUME Inv, Next PROVE RemovedOutStep
  OBVIOUS
<1>1. PICK c \in Callers : CallerStep(c)
  BY DEF Next, CallerStep
<1>2. ASSUME NEW d \in Callers, NEW u \in Users, Target(d) = u, Clean(d), Ends(d),
             call[d].pc \in {"deact_others", "deact_disable", "revoke_delete", "revoke_detach"}
      PROVE  ~Listed(u)' \/ (At(d, "deact_others") /\ elsewhere[u])
  <2>1. d = c
    BY <1>1, <1>2, OthersRemain DEF Idle
  <2>2. QED BY <1>1, <1>2, <2>1, RemovalEnds
<1>3. QED BY <1>2 DEF RemovedOutStep

\* A deactivation or revocation that no other call disturbed takes the user off the list,
\* but for one whose home is here and who stays in another organization.
THEOREM RemovalTakesOut == Spec => RemovedOut
<1>1. Spec => [][RemovedOutStep]_vars
  BY InvAlways, RemovedStep, PTL DEF Spec
<1>2. QED BY <1>1 DEF RemovedOut

LEMMA AcceptanceEnds ==
  ASSUME Inv, NEW c \in Callers, CallerStep(c), At(c, "repair"), Fresh(c, "membership"), Ends(c)
  PROVE  \A u \in Users : u = Target(c) =>
            Joined(u)' /\ (call[c].role # "none" => member'[u] = call[c].role)
<1> SUFFICES ASSUME NEW u \in Users, u = Target(c)
             PROVE  Joined(u)' /\ (call[c].role # "none" => member'[u] = call[c].role)
  OBVIOUS
<1>1. Joined(u) /\ (call[c].role # "none" => member[u] = call[c].role)
  <2>1. KnowsMembership(c)
    BY DEF Inv, Knows
  <2>2. QED BY <2>1 DEF KnowsMembership
<1>2. AcceptStep(c)
  <2>1. ~CallFails(c)
    BY EndMoves DEF CallFails, Ends
  <2>2. QED BY <2>1, StepStages DEF CallerStep, Idle, At
<1>3. RepairAfter(c)
  <2>1. ~Idle(c)
    BY DEF Idle, At
  <2>2. QED
    BY <1>2, <2>1
       DEF AcceptStep, AcceptLoad, Begin, Starts, AcceptExpired, ExpiredSave, AcceptActivate,
           AcceptStrip, AcceptHome, HomeSave, AcceptMember, AcceptClear, ClearSave, At
<1>4. member'[u] = member[u]
  BY <1>1, <1>3, RepairedKept DEF RepairAfter
<1>5. QED BY <1>1, <1>4 DEF Joined

LEMMA AcceptedStep == Inv /\ [Next]_vars => [AcceptedInStep]_vars
<1> SUFFICES ASSUME Inv, Next PROVE AcceptedInStep
  OBVIOUS
<1>1. PICK c \in Callers : CallerStep(c)
  BY DEF Next, CallerStep
<1>2. ASSUME NEW d \in Callers, NEW u \in Users, At(d, "repair"), Target(d) = u,
             "membership" \notin call[d].dirty, Ends(d)
      PROVE  Joined(u)' /\ (call[d].role # "none" => member'[u] = call[d].role)
  <2>1. d = c
    BY <1>1, <1>2, OthersRemain DEF Idle, At
  <2>2. QED BY <1>1, <1>2, <2>1, AcceptanceEnds DEF Fresh
<1>3. QED BY <1>2 DEF AcceptedInStep

\* Whoever accepts an invitation or signs on through the organization ends up a member of
\* it, with the role the membership had when the call began.
THEOREM AcceptanceJoins == Spec => AcceptedIn
<1>1. Spec => [][AcceptedInStep]_vars
  BY InvAlways, AcceptedStep, PTL DEF Spec
<1>2. QED BY <1>1 DEF AcceptedIn

-----------------------------------------------------------------------------
(* Passwords                                                               *)

LEMMA ActorMoves ==
  ASSUME Inv, NEW c \in Callers, CallerStep(c), ~Idle(c)
  PROVE  Acts(c)
<1>1. \A pc : GoTo(c, pc) => call'[c].pc = pc
  BY GoToMoves
<1>2. /\ Done(c) => call'[c].pc = "idle"
      /\ Fail(c) => call'[c].pc = "failed"
      /\ ToSend(c) => call'[c].pc = "send"
  BY EndMoves
<1>3. \A next : ~Starts(c, next)
  BY DEF Starts
<1>4. \A pc, u, new : ~Begin(c, pc, u, new)
  BY <1>3 DEF Begin
<1>5. ~Once(c)
  BY <1>3 DEF Once
<1>6. CASE InviteStep(c)
  BY <1>1, <1>2, <1>3, <1>4, <1>6
     DEF InviteStep, InviteKnown, InviteNew, InviteInsert, InviteCreate, InviteMember, Send,
         ResendLoad, BulkInvite, ResendPending, At, Acts
<1>7. CASE RemoveStep(c)
  BY <1>1, <1>2, <1>4, <1>5, <1>7
     DEF RemoveStep, RevokeLoad, DeactivateUser, RevokeRemove, RevokeCount, RevokeDelete,
         RevokeDetach, DeactLoad, DeactCount, DeactRemove, DeactOthers, DeactDisable, At, Acts
<1>8. CASE RoleStep(c)
  BY <1>1, <1>2, <1>4, <1>8 DEF RoleStep, RoleLoad, RoleCount, RoleSave, RoleUser, At, Acts
<1>9. CASE AcceptStep(c)
  BY <1>1, <1>2, <1>4, <1>9, AgainMoves
     DEF AcceptStep, AcceptLoad, AcceptExpired, ExpiredSave, AcceptActivate, AcceptStrip,
         AcceptHome, HomeSave, AcceptMember, AcceptClear, ClearSave, RepairAfter, At, Acts
<1>10. CASE JiraStep(c)
  <2>1. CASE Merge(c)
    <3>1. call'[c] = Needing("send", Target(c))
      BY <2>1 DEF Merge, Dirtied
    <3>2. call'[c].pc = "send"
      BY <3>1 DEF Needing, NoCall
    <3>3. QED BY <2>1, <3>2 DEF Merge, At, Acts
  <2>2. QED
    BY <1>2, <1>3, <1>10, <2>1
       DEF JiraStep, Import, EmailLoad, MergeLoad, ImportMember, EmailSave, At, Acts
<1>11. CASE SignOnStep(c)
  BY <1>1, <1>2, <1>3, <1>4, <1>5, <1>11
     DEF SignOnStep, OauthLoad, SamlLoad, RowLoad, ResetPassword, OauthMember, SamlCreate,
         SamlMember, RowSave, At, Acts
<1>12. CASE CallFails(c)
  BY <1>2, <1>12 DEF CallFails, Idle, Acts
<1>13. QED
  BY <1>6, <1>7, <1>8, <1>9, <1>10, <1>11, <1>12, StepStages DEF CallerStep

\* No account loses its password.
PasswordsKept == \A u \in Users : user[u].password => user'[u].password

LEMMA KeptByRow ==
  ASSUME Inv, NEW u \in Users, NEW row, SetUser(u, row), user[u].password => row.password
  PROVE  PasswordsKept
BY DEF Inv, TypeOK, SetUser, PasswordsKept

LEMMA KeptUnchanged ==
  ASSUME UNCHANGED user
  PROVE  PasswordsKept
BY DEF PasswordsKept

LEMMA InvitePasswords ==
  ASSUME Inv, NEW c \in Callers, InviteStep(c)
  PROVE  PasswordsKept
<1> DEFINE u == Target(c)
<1>0. u \in Users /\ user[u] \in UserType /\ (user[u].password => user[u].exists)
  BY CallFieldTypes DEF Inv, PasswordsExist
<1>1. CASE InviteCreate(c)
  BY <1>0, <1>1, KeptByRow DEF InviteCreate
<1>2. CASE Send(c)
  <2>1. user[u].password => Linked(user[u], "here").password
    BY <1>0 DEF Linked, UserType
  <2>2. QED BY <1>0, <1>2, <2>1, KeptByRow DEF Send
<1>3. CASE ResendPending(c)
  <2>1. user[u].password => [user[u] EXCEPT !.invite = "pending"].password
    BY <1>0 DEF UserType
  <2>2. QED BY <1>0, <1>3, <2>1, KeptByRow, KeptUnchanged DEF ResendPending
<1>4. QED
  BY <1>1, <1>2, <1>3, KeptUnchanged
     DEF InviteStep, InviteKnown, InviteNew, Begin, KeepTables, InviteInsert, InviteMember,
         ResendLoad, BulkInvite

LEMMA RemovePasswords ==
  ASSUME Inv, NEW c \in Callers, RemoveStep(c), ~RevokeDelete(c)
  PROVE  PasswordsKept
<1> DEFINE u == Target(c)
<1>0. u \in Users /\ \A v \in Users : user[v] \in UserType
  BY CallFieldTypes
<1>1. \A v \in Users, active \in BOOLEAN :
        user[v].password => [user[v] EXCEPT !.active = active].password
  BY <1>0 DEF UserType
<1>2. CASE RevokeDetach(c)
  <2>1. user[u].password => [user[u] EXCEPT !.home = "none"].password
    BY <1>0 DEF UserType
  <2>2. QED BY <1>0, <1>2, <2>1, KeptByRow, KeptUnchanged DEF RevokeDetach
<1>3. CASE DeactRemove(c) \/ DeactDisable(c) \/ \E v \in Users : DeactivateUser(c, v)
  BY <1>0, <1>1, <1>3, KeptByRow, KeptUnchanged DEF DeactRemove, DeactDisable, DeactivateUser
<1>4. QED
  BY <1>2, <1>3, KeptUnchanged
     DEF RemoveStep, RevokeLoad, DeactLoad, Begin, KeepTables, RevokeRemove, RevokeCount,
         DeactCount, DeactOthers

\* The saves of UsersService.update within an acceptance.
AgainSave(c) == ExpiredSave(c) \/ HomeSave(c) \/ ClearSave(c)

LEMMA AcceptPasswords ==
  ASSUME Inv, NEW c \in Callers, AcceptStep(c), ~AgainSave(c)
  PROVE  PasswordsKept
<1> DEFINE u == Target(c)
<1>0. u \in Users /\ user[u] \in UserType
  BY CallFieldTypes
<1>1. CASE AcceptActivate(c)
  <2>1. [user[u] EXCEPT !.password = TRUE, !.active = TRUE, !.invite = "accepted",
                        !.link = "none"].password
    BY <1>0 DEF UserType
  <2>2. QED BY <1>0, <1>1, <2>1, KeptByRow DEF AcceptActivate
<1>2. QED
  BY <1>1, KeptUnchanged
     DEF AcceptStep, AcceptLoad, Begin, KeepTables, AcceptExpired, AcceptStrip, AcceptHome,
         AcceptMember, AcceptClear, ReadAgain, RepairAfter, AgainSave

LEMMA JiraPasswords ==
  ASSUME Inv, NEW c \in Callers, JiraStep(c), ~EmailSave(c), ~Merge(c)
  PROVE  PasswordsKept
<1>1. ASSUME NEW u \in Users, NEW real \in BOOLEAN, Import(c, u, real)
      PROVE  PasswordsKept
  <2>1. user[u].exists => [user[u] EXCEPT !.jira = TRUE].password = user[u].password
    BY CallFieldTypes DEF UserType
  <2>2. user[u].password => user[u].exists
    BY DEF Inv, PasswordsExist
  <2>3. QED BY <1>1, <2>1, <2>2, KeptByRow DEF Import
<1>2. QED
  BY <1>1, KeptUnchanged DEF JiraStep, EmailLoad, MergeLoad, ImportMember, KeepTables

LEMMA SignOnPasswords ==
  ASSUME Inv, NEW c \in Callers, SignOnStep(c), ~RowSave(c)
  PROVE  PasswordsKept
<1> DEFINE u == Target(c)
<1>0. u \in Users /\ (user[u].password => user[u].exists)
  BY CallFieldTypes DEF Inv, PasswordsExist
<1>1. ASSUME NEW v \in Users, ResetPassword(c, v) PROVE PasswordsKept
  <2>1. [user[v] EXCEPT !.password = TRUE].password
    BY CallFieldTypes DEF UserType
  <2>2. QED BY <1>1, <2>1, KeptByRow DEF ResetPassword
<1>2. CASE SamlCreate(c)
  BY <1>0, <1>2, KeptByRow DEF SamlCreate
<1>3. QED
  BY <1>1, <1>2, KeptUnchanged
     DEF SignOnStep, OauthLoad, SamlLoad, RowLoad, Begin, KeepTables, OauthMember, SamlMember

LEMMA OtherPasswords ==
  ASSUME Inv, NEW c \in Callers, OtherStep(c)
  PROVE  PasswordsKept
<1>1. ASSUME NEW u \in Users, OtherInvite(c, u) PROVE PasswordsKept
  <2>1. user[u].password => user[u].exists /\ Linked(user[u], "else").password
    BY CallFieldTypes DEF Inv, PasswordsExist, Linked, UserType
  <2>2. QED BY <1>1, <2>1, KeptByRow DEF OtherInvite
<1>2. QED BY <1>1, KeptUnchanged DEF OtherStep, Repair, Refer, KeepTables, OtherRemove

\* A write of the row a call has read, or its deletion.
LEMMA StaleWrites ==
  ASSUME Inv, NEW c \in Callers, CallerStep(c),
         RoleUser(c) \/ RowSave(c) \/ EmailSave(c) \/ RevokeDelete(c),
         NEW u \in Users, user[u].password, ~user'[u].password
  PROVE  /\ Acts(c) /\ Target(c) = u /\ "row" \in call[c].dirty
         /\ call[c].pc \in {"role_user", "row_save", "email_save", "revoke_delete"}
<1>1. /\ Target(c) \in Users /\ call[c].row \in UserType /\ Knows(c)
  BY CallFieldTypes DEF Inv
<1>2. call[c].pc \in {"role_user", "row_save", "email_save", "revoke_delete"}
  BY DEF RoleUser, RowSave, EmailSave, RevokeDelete, At
<1>3. Acts(c)
  BY <1>2, ActorMoves DEF Idle
<1>4. user' = user \/ \E row : SetUser(Target(c), row)
  BY DEF RoleUser, RowSave, EmailSave, RevokeDelete, KeepTables
<1>5. Target(c) = u
  BY <1>1, <1>4 DEF SetUser, Inv, TypeOK
<1>6. CASE RevokeDelete(c)
  BY <1>1, <1>5, <1>2, <1>3, <1>6 DEF RevokeDelete, Knows, KnowsRow, Fresh
<1>7. CASE RoleUser(c) \/ RowSave(c) \/ EmailSave(c)
  <2>1. \A role \in Roles :
          /\ [call[c].row EXCEPT !.role = role].password = call[c].row.password
          /\ [call[c].row EXCEPT !.active = FALSE, !.invite = "pending"].password
               = call[c].row.password
    BY <1>1 DEF UserType
  <2>2. call[c].new \in Roles
    BY CallFieldTypes
  <2>3. user'[u].password = call[c].row.password
    BY <1>5, <1>7, <2>1, <2>2 DEF RoleUser, RowSave, EmailSave, SetUser, Inv, TypeOK
  <2>4. Fresh(c, "row") => user[u] = call[c].row
    BY <1>1, <1>5, <1>7 DEF RoleUser, RowSave, EmailSave, At, Knows, KnowsRow
  <2>5. QED BY <1>2, <1>3, <1>5, <2>3, <2>4 DEF Fresh
<1>8. QED BY <1>6, <1>7

\* ... or of the row it has read again.
LEMMA StaleSaves ==
  ASSUME Inv, NEW c \in Callers, CallerStep(c), AgainSave(c),
         NEW u \in Users, user[u].password, ~user'[u].password
  PROVE  /\ Acts(c) /\ Target(c) = u /\ "row" \in call[c].dirty
         /\ call[c].pc \in {"expired_save", "home_save", "clear_save"}
<1>1. /\ Target(c) \in Users /\ Knows(c) /\ call[c].row \in UserType
  BY CallFieldTypes DEF Inv
<1>2. call[c].pc \in {"expired_save", "home_save", "clear_save"}
  BY DEF AgainSave, ExpiredSave, HomeSave, ClearSave, At
<1>3. Acts(c)
  BY <1>2, ActorMoves DEF Idle
<1>4. PICK row : SetUser(Target(c), row) /\ row.password = call[c].again.password
  <2>1. InviteOrg(call[c].row) \in {"here", "else", "none"}
    BY <1>1, OrgType
  <2>2. CASE ExpiredSave(c)
    BY <2>2, AgainTypes DEF ExpiredSave, SaveAgain
  <2>3. CASE HomeSave(c)
    BY <2>1, <2>3, AgainTypes DEF HomeSave, SaveAgain
  <2>4. CASE ClearSave(c)
    BY <2>4, AgainTypes DEF ClearSave, SaveAgain
  <2>5. QED BY <2>2, <2>3, <2>4 DEF AgainSave
<1>5. Target(c) = u /\ user'[u] = row
  BY <1>1, <1>4 DEF SetUser, Inv, TypeOK
<1>6. Fresh(c, "row") => user[u] = call[c].again
  BY <1>1, <1>2, <1>5 DEF Knows, KnowsRow
<1>7. QED BY <1>2, <1>3, <1>4, <1>5, <1>6 DEF Fresh

LEMMA MergePasswords ==
  ASSUME Inv, NEW c \in Callers, Merge(c), NEW u \in Users, user[u].password,
         ~user'[u].password
  PROVE  call[c].from = u
<1> SUFFICES ASSUME call[c].from # u PROVE user'[u].password
  OBVIOUS
<1> DEFINE t == Target(c)
           v == call[c].from
           rest == [user EXCEPT ![v] = IF ~elsewhere[v] THEN Absent ELSE @]
           jira == rest[t].jira \/ (call[c].row.jira /\ ~user[v].jira)
           rows == [rest EXCEPT ![t].jira = jira]
<1>0. t \in Users /\ v \in Users
  BY CallFieldTypes
<1>1. user' = rows \/ user' = [rows EXCEPT ![t].active = FALSE, ![t].invite = "pending"]
  BY DEF Merge
<1>2. rest \in [Users -> UserType] /\ rest[u].password
  BY <1>0, NoCallType DEF Inv, TypeOK
<1>3. jira \in BOOLEAN
  OBVIOUS
<1> HIDE DEF rest, jira
<1>4. rows \in [Users -> UserType] /\ rows[u].password
  <2>1. /\ [rest[t] EXCEPT !.jira = jira] \in UserType
        /\ [rest[t] EXCEPT !.jira = jira].password = rest[t].password
    BY <1>0, <1>2, <1>3 DEF UserType
  <2>2. rows = [rest EXCEPT ![t] = [rest[t] EXCEPT !.jira = jira]]
    BY <1>0, <1>2
  <2>3. QED BY <1>0, <1>2, <2>1, <2>2
<1> HIDE DEF rows
<1>5. [rows EXCEPT ![t].active = FALSE, ![t].invite = "pending"][u].password
  <2>1. [rows[t] EXCEPT !.active = FALSE, !.invite = "pending"].password = rows[t].password
    BY <1>0, <1>4 DEF UserType
  <2>2. QED BY <1>0, <1>4, <2>1
<1>6. QED BY <1>1, <1>4, <1>5

LEMMA ActivatedStep == Inv /\ [Next]_vars => [ActivationStep]_vars
<1> SUFFICES ASSUME Inv, Next PROVE ActivationStep
  OBVIOUS
<1>1. PICK c \in Callers : CallerStep(c)
  BY DEF Next, CallerStep
<1>2. SUFFICES ASSUME NEW u \in Users, user[u].password, ~user'[u].password
               PROVE  \E d \in Callers :
                        /\ Acts(d)
                        /\ \/ At(d, "merge") /\ call[d].from = u
                           \/ /\ Target(d) = u /\ "row" \in call[d].dirty
                              /\ call[d].pc \in
                                   {"role_user", "row_save", "email_save", "revoke_delete",
                                    "expired_save", "home_save", "clear_save"}
  BY DEF ActivationStep
<1>3. CASE Merge(c)
  <2>1. Acts(c) /\ At(c, "merge")
    BY <1>1, <1>3, ActorMoves DEF Merge, At, Idle
  <2>2. QED BY <1>2, <1>3, <2>1, MergePasswords
<1>4. CASE RoleUser(c) \/ RowSave(c) \/ EmailSave(c) \/ RevokeDelete(c)
  BY <1>1, <1>2, <1>4, StaleWrites
<1>5. CASE AgainSave(c)
  BY <1>1, <1>2, <1>5, StaleSaves
<1>6. CASE /\ ~Merge(c) /\ ~RoleUser(c) /\ ~RowSave(c) /\ ~EmailSave(c) /\ ~RevokeDelete(c)
           /\ ~AgainSave(c)
  <2>1. RoleStep(c) => UNCHANGED user
    BY <1>6 DEF RoleStep, RoleLoad, Begin, RoleCount, RoleSave, KeepTables
  <2>2. CallFails(c) => UNCHANGED user
    BY DEF CallFails, KeepTables
  <2>3. PasswordsKept
    BY <1>1, <1>6, <2>1, <2>2, InvitePasswords, RemovePasswords, AcceptPasswords,
       JiraPasswords, SignOnPasswords, OtherPasswords, KeptUnchanged DEF CallerStep
  <2>4. QED BY <1>2, <2>3 DEF PasswordsKept
<1>7. QED BY <1>3, <1>4, <1>5, <1>6

\* An account keeps its password, and stays, unless it is merged into another one or a call
\* writes or deletes the row as it read it before another call changed it: one of the seven
\* saves of a whole row that the services make, that of an expired link among them.
THEOREM PasswordsStay == Spec => ActivationKept
<1>1. Spec => [][ActivationStep]_vars
  BY InvAlways, ActivatedStep, PTL DEF Spec
<1>2. QED BY <1>1 DEF ActivationKept

-----------------------------------------------------------------------------
(* The last owner                                                          *)

\* An owner of the older kind gets a membership or has the account switched off.
LegacyEnds == \E u \in LegacyOwners : Joined(u)' \/ ~user'[u].active

\* A step leaves an owner if there was one, or ends one of the older kind.
LeavesOwner == Owners # {} => Owners' # {} \/ LegacyEnds

LEMMA SameOwners ==
  ASSUME UNCHANGED <<user, member>>
  PROVE  LeavesOwner
BY DEF LeavesOwner, Owners, MemberOwners, LegacyOwners, Joined

\* Whatever memberships are added, the ones that are there stay.
LEMMA AddedMembers ==
  ASSUME UNCHANGED user, \A u \in Users : Joined(u) => member'[u] = member[u]
  PROVE  LeavesOwner
<1>1. \A o \in Owners : o \in Owners' \/ LegacyEnds
  BY DEF Owners, MemberOwners, LegacyOwners, Joined, LegacyEnds
<1>2. QED BY <1>1 DEF LeavesOwner

\* A row is written that is no worse for an owner of the older kind than switched off.
LEMMA WrittenRow ==
  ASSUME Inv, UNCHANGED member, NEW u \in Users, NEW row, SetUser(u, row),
         u \in LegacyOwners =>
           ~row.active \/ (row.exists /\ row.home = "here" /\ row.role = "owner")
  PROVE  LeavesOwner
<1>1. user'[u] = row /\ \A v \in Users \ {u} : user'[v] = user[v]
  BY DEF SetUser, Inv, TypeOK
<1>2. \A o \in Owners : o \in Owners' \/ LegacyEnds
  BY <1>1 DEF Owners, MemberOwners, LegacyOwners, Joined, LegacyEnds
<1>3. QED BY <1>2 DEF LeavesOwner

\* Only the target is touched, and it is not the only owner.
LEMMA AnotherOwner ==
  ASSUME NEW t, OtherOwners(t) # {} \/ Target(t) \notin Owners,
         \A v \in Users \ {Target(t)} : user'[v] = user[v] /\ member'[v] = member[v]
  PROVE  LeavesOwner
<1>1. \A o \in OtherOwners(t) : o \in Owners'
  BY DEF OtherOwners, Owners, MemberOwners, LegacyOwners, Joined
<1>2. Owners # {} => OtherOwners(t) # {}
  BY DEF OtherOwners
<1>3. QED BY <1>1, <1>2 DEF LeavesOwner

\* What the changes of a row leave as it is.
LEMMA RowFields ==
  ASSUME NEW row \in UserType
  PROVE  /\ \A i : LET r == [row EXCEPT !.invite = i] IN
                   /\ r.exists = row.exists /\ r.home = row.home /\ r.role = row.role
                   /\ r.active = row.active
         /\ \A i, l : LET r == [row EXCEPT !.invite = i, !.link = l] IN
                   /\ r.exists = row.exists /\ r.home = row.home /\ r.role = row.role
                   /\ r.active = row.active
         /\ \A i, l, a, p : LET r == [row EXCEPT !.password = p, !.active = a, !.invite = i,
                                                 !.link = l] IN
                   /\ r.exists = row.exists /\ r.home = row.home /\ r.role = row.role
                   /\ r.active = a
         /\ \A l : LET r == [row EXCEPT !.link = l] IN
                   /\ r.exists = row.exists /\ r.home = row.home /\ r.role = row.role
                   /\ r.active = row.active
         /\ \A p : LET r == [row EXCEPT !.password = p] IN
                   /\ r.exists = row.exists /\ r.home = row.home /\ r.role = row.role
                   /\ r.active = row.active
         /\ \A j : LET r == [row EXCEPT !.jira = j] IN
                   /\ r.exists = row.exists /\ r.home = row.home /\ r.role = row.role
                   /\ r.active = row.active
         /\ \A i : ~[row EXCEPT !.active = FALSE, !.invite = i].active
         /\ ~[row EXCEPT !.active = FALSE].active
BY DEF UserType

LEMMA LegacyRow ==
  ASSUME NEW u \in LegacyOwners
  PROVE  user[u].exists /\ user[u].home = "here" /\ user[u].role = "owner"
BY DEF LegacyOwners

LEMMA InviteOwner ==
  ASSUME Inv, NEW c \in Callers, InviteStep(c)
  PROVE  LeavesOwner
<1> DEFINE u == Target(c)
<1>0. u \in Users /\ user[u] \in UserType
  BY CallFieldTypes
<1>1. CASE InviteInsert(c) \/ InviteMember(c)
  <2>1. UNCHANGED user /\ (UNCHANGED member \/ (~Joined(u) /\ SetMember(u, call[c].new)))
    BY <1>1 DEF InviteInsert, InviteMember
  <2>2. \A v \in Users : Joined(v) => member'[v] = member[v]
    BY <1>0, <2>1 DEF SetMember, Inv, TypeOK, Joined
  <2>3. QED BY <2>1, <2>2, AddedMembers
<1>2. CASE InviteCreate(c)
  BY <1>0, <1>2, WrittenRow, LegacyRow DEF InviteCreate
<1>3. CASE Send(c)
  <2>1. LET r == Linked(user[u], "here") IN
        u \in LegacyOwners => r.exists /\ r.home = "here" /\ r.role = "owner"
    BY <1>0, RowFields, LegacyRow DEF Linked
  <2>2. QED BY <1>0, <1>3, <2>1, WrittenRow DEF Send
<1>4. CASE ResendPending(c)
  <2>1. LET r == [user[u] EXCEPT !.invite = "pending"] IN
        u \in LegacyOwners => r.exists /\ r.home = "here" /\ r.role = "owner"
    BY <1>0, RowFields, LegacyRow
  <2>2. QED BY <1>0, <1>4, <2>1, WrittenRow, SameOwners DEF ResendPending
<1>5. QED
  BY <1>1, <1>2, <1>3, <1>4, SameOwners
     DEF InviteStep, InviteKnown, InviteNew, Begin, KeepTables, ResendLoad, BulkInvite

LEMMA RemoveOwner ==
  ASSUME Inv, NEW c \in Callers, RemoveStep(c), Unguarded(c) => Idle(c)
  PROVE  LeavesOwner
<1> DEFINE u == Target(c)
<1>0. u \in Users /\ \A v \in Users : user[v] \in UserType
  BY CallFieldTypes
<1>1. \A v \in Users : ~[user[v] EXCEPT !.active = FALSE].active
  BY <1>0, RowFields
<1>2. CASE DeactRemove(c)
  <2>1. OtherOwners(c) # {}
    BY <1>2 DEF Unguarded, Idle, DeactRemove, At, Inv, Knows, KnowsOwners, Fresh
  <2>2. \A v \in Users \ {u} : user'[v] = user[v] /\ member'[v] = member[v]
    BY <1>0, <1>2 DEF DeactRemove, SetUser, SetMember, Inv, TypeOK
  <2>3. QED BY <2>1, <2>2, AnotherOwner
<1>3. CASE DeactDisable(c) \/ \E v \in Users : DeactivateUser(c, v)
  BY <1>0, <1>1, <1>3, WrittenRow DEF DeactDisable, DeactivateUser
<1>4. QED
  BY <1>2, <1>3, SameOwners
     DEF RemoveStep, RevokeLoad, DeactLoad, Begin, KeepTables, RevokeRemove, RevokeCount,
         RevokeDelete, RevokeDetach, DeactCount, DeactOthers, Unguarded, Idle, At

LEMMA RoleOwner ==
  ASSUME Inv, NEW c \in Callers, RoleStep(c), Unguarded(c) => Idle(c)
  PROVE  LeavesOwner
<1> DEFINE u == Target(c)
<1>0. /\ u \in Users /\ call[c].row \in UserType /\ call[c].new \in Roles /\ Knows(c)
      /\ ~Idle(c) => Fresh(c, "owners")
  BY CallFieldTypes DEF Inv, Unguarded, Fresh
<1>1. CASE (RoleSave(c) \/ RoleUser(c)) /\ call[c].new # "owner"
  <2>1. OtherOwners(c) # {} \/ u \notin Owners
    BY <1>0, <1>1 DEF Knows, KnowsOwners, RoleSave, RoleUser, At, Idle
  <2>2. \A v \in Users \ {u} : user'[v] = user[v] /\ member'[v] = member[v]
    BY <1>0, <1>1 DEF RoleSave, RoleUser, SetUser, SetMember, Inv, TypeOK
  <2>3. QED BY <2>1, <2>2, AnotherOwner
<1>2. CASE RoleSave(c) /\ call[c].new = "owner"
  <2>1. UNCHANGED user /\ (UNCHANGED member \/ SetMember(u, "owner"))
    BY <1>2 DEF RoleSave
  <2>2. CASE SetMember(u, "owner")
    <3>1. u \in Owners'
      BY <1>0, <2>2 DEF SetMember, Inv, TypeOK, Owners, MemberOwners
    <3>2. QED BY <3>1 DEF LeavesOwner
  <2>3. QED BY <2>1, <2>2, SameOwners
<1>3. CASE RoleUser(c) /\ call[c].new = "owner"
  <2> DEFINE row == [call[c].row EXCEPT !.role = call[c].new]
  <2>1. row.exists /\ row.home = "here" /\ row.role = "owner"
    BY <1>0, <1>3 DEF UserType, Knows, Loaded, RoleUser, At
  <2>2. SetUser(u, row) /\ UNCHANGED member
    BY <1>3 DEF RoleUser
  <2> HIDE DEF row
  <2>3. QED BY <1>0, <2>1, <2>2, WrittenRow
<1>4. QED
  BY <1>1, <1>2, <1>3, SameOwners DEF RoleStep, RoleLoad, Begin, KeepTables, RoleCount

LEMMA AcceptOwner ==
  ASSUME Inv, NEW c \in Callers, AcceptStep(c), Unguarded(c) => Idle(c)
  PROVE  LeavesOwner
<1> DEFINE u == Target(c)
<1>0. u \in Users /\ user[u] \in UserType /\ Knows(c)
  BY CallFieldTypes DEF Inv
<1>1. ASSUME AgainSave(c)
      PROVE  user[u] = call[c].again /\ (HomeSave(c) => user[u].home = "none")
  BY <1>0, <1>1
     DEF AgainSave, ExpiredSave, HomeSave, ClearSave, At, Idle, Unguarded, Knows, KnowsRow, Fresh
<1>2. CASE ExpiredSave(c)
  <2>1. LET r == [user[u] EXCEPT !.invite = "expired"] IN
        u \in LegacyOwners => r.exists /\ r.home = "here" /\ r.role = "owner"
    BY <1>0, RowFields, LegacyRow
  <2>2. QED BY <1>0, <1>1, <1>2, <2>1, WrittenRow DEF ExpiredSave, SaveAgain, AgainSave
<1>3. CASE AcceptActivate(c)
  <2>1. LET r == [user[u] EXCEPT !.password = TRUE, !.active = TRUE, !.invite = "accepted",
                                 !.link = "none"] IN
        u \in LegacyOwners => r.exists /\ r.home = "here" /\ r.role = "owner"
    BY <1>0, RowFields, LegacyRow
  <2>2. QED BY <1>0, <1>3, <2>1, WrittenRow, LegacyRow DEF AcceptActivate
<1>4. CASE HomeSave(c)
  <2>1. u \notin LegacyOwners
    BY <1>1, <1>4, LegacyRow DEF AgainSave
  <2>2. QED BY <1>0, <1>4, <2>1, WrittenRow DEF HomeSave, SaveAgain
<1>5. CASE AcceptMember(c)
  <2>1. UNCHANGED user /\ (UNCHANGED member \/ (~Joined(u) /\ SetMember(u, call[c].new)))
    BY <1>5 DEF AcceptMember
  <2>2. \A v \in Users : Joined(v) => member'[v] = member[v]
    BY <1>0, <2>1 DEF SetMember, Inv, TypeOK, Joined
  <2>3. QED BY <2>1, <2>2, AddedMembers
<1>6. CASE ClearSave(c)
  <2>1. \A l : LET r == [user[u] EXCEPT !.link = l] IN
        u \in LegacyOwners => r.exists /\ r.home = "here" /\ r.role = "owner"
    BY <1>0, RowFields, LegacyRow
  <2>2. QED BY <1>0, <1>1, <1>6, <2>1, WrittenRow DEF ClearSave, SaveAgain, AgainSave
<1>7. CASE RepairAfter(c)
  BY <1>7, RepairedKept, AddedMembers DEF RepairAfter
<1>8. QED
  BY <1>2, <1>3, <1>4, <1>5, <1>6, <1>7, SameOwners
     DEF AcceptStep, AcceptLoad, Begin, KeepTables, AcceptExpired, AcceptStrip, AcceptHome,
         AcceptClear, ReadAgain, Unguarded, Idle, At

LEMMA JiraOwner ==
  ASSUME Inv, NEW c \in Callers, JiraStep(c), Unguarded(c) => Idle(c)
  PROVE  LeavesOwner
<1> DEFINE u == Target(c)
<1>0. u \in Users /\ call[c].row \in UserType
  BY CallFieldTypes
<1>1. ASSUME NEW v \in Users, NEW real \in BOOLEAN, Import(c, v, real)
      PROVE  LeavesOwner
  <2>1. user[v] \in UserType
    BY CallFieldTypes
  <2>2. LET r == [user[v] EXCEPT !.jira = TRUE] IN
        v \in LegacyOwners => r.exists /\ r.home = "here" /\ r.role = "owner"
    BY <2>1, RowFields, LegacyRow
  <2>3. QED BY <1>1, <2>2, WrittenRow, LegacyRow DEF Import
<1>2. CASE ImportMember(c)
  <2>1. UNCHANGED user /\ (UNCHANGED member \/ (~Joined(u) /\ SetMember(u, "user")))
    BY <1>2 DEF ImportMember
  <2>2. \A v \in Users : Joined(v) => member'[v] = member[v]
    BY <1>0, <2>1 DEF SetMember, Inv, TypeOK, Joined
  <2>3. QED BY <2>1, <2>2, AddedMembers
<1>3. CASE EmailSave(c)
  <2>1. ~[call[c].row EXCEPT !.active = FALSE, !.invite = "pending"].active
    BY <1>0, RowFields
  <2>2. QED BY <1>0, <1>3, <2>1, WrittenRow DEF EmailSave
<1>4. QED
  BY <1>1, <1>2, <1>3, SameOwners
     DEF JiraStep, EmailLoad, MergeLoad, KeepTables, Merge, Unguarded, Idle, At

LEMMA SignOnOwner ==
  ASSUME Inv, NEW c \in Callers, SignOnStep(c), Unguarded(c) => Idle(c)
  PROVE  LeavesOwner
<1> DEFINE u == Target(c)
<1>0. u \in Users /\ call[c].row \in UserType /\ Knows(c)
  BY CallFieldTypes DEF Inv
<1>1. ASSUME NEW v \in Users, ResetPassword(c, v) PROVE LeavesOwner
  <2>1. user[v] \in UserType
    BY CallFieldTypes
  <2>2. LET r == [user[v] EXCEPT !.password = TRUE] IN
        v \in LegacyOwners => r.exists /\ r.home = "here" /\ r.role = "owner"
    BY <2>1, RowFields, LegacyRow
  <2>3. QED BY <1>1, <2>2, WrittenRow DEF ResetPassword
<1>2. CASE OauthMember(c) \/ SamlMember(c)
  <2>1. PICK role : UNCHANGED user /\ (UNCHANGED member \/ (~Joined(u) /\ SetMember(u, role)))
    BY <1>2 DEF OauthMember, SamlMember
  <2>2. \A v \in Users : Joined(v) => member'[v] = member[v]
    BY <1>0, <2>1 DEF SetMember, Inv, TypeOK, Joined
  <2>3. QED BY <2>1, <2>2, AddedMembers
<1>3. CASE SamlCreate(c)
  BY <1>0, <1>3, WrittenRow, LegacyRow DEF SamlCreate
<1>4. CASE RowSave(c)
  <2>1. u \in LegacyOwners =>
          call[c].row.exists /\ call[c].row.home = "here" /\ call[c].row.role = "owner"
    BY <1>0, <1>4, LegacyRow DEF Unguarded, Idle, RowSave, At, Knows, KnowsRow, Fresh
  <2>2. QED BY <1>0, <1>4, <2>1, WrittenRow DEF RowSave
<1>5. QED
  BY <1>1, <1>2, <1>3, <1>4, SameOwners
     DEF SignOnStep, OauthLoad, SamlLoad, RowLoad, Begin, KeepTables

LEMMA OtherOwner ==
  ASSUME Inv, NEW c \in Callers, OtherStep(c)
  PROVE  LeavesOwner
<1>1. ASSUME NEW u \in Users, OtherInvite(c, u) PROVE LeavesOwner
  <2>1. user[u] \in UserType
    BY CallFieldTypes
  <2>2. LET r == Linked(user[u], "else") IN
        u \in LegacyOwners => r.exists /\ r.home = "here" /\ r.role = "owner"
    BY <2>1, RowFields, LegacyRow DEF Linked
  <2>3. QED BY <1>1, <2>2, WrittenRow, LegacyRow DEF OtherInvite
<1>2. CASE Repair(c)
  BY <1>2, RepairedKept, AddedMembers DEF Repair
<1>3. QED BY <1>1, <1>2, SameOwners DEF OtherStep, Refer, KeepTables, OtherRemove

LEMMA LastOwnerKept == Inv /\ [Next]_vars => [LastOwnerStep]_vars
<1> SUFFICES ASSUME Inv, Next PROVE LastOwnerStep
  OBVIOUS
<1>1. PICK c \in Callers : CallerStep(c)
  BY DEF Next, CallerStep
<1>2. CASE Unguarded(c) /\ ~Idle(c)
  <2>1. Acts(c)
    BY <1>1, <1>2, ActorMoves
  <2>2. QED BY <1>2, <2>1 DEF LastOwnerStep
<1>3. CASE Unguarded(c) => Idle(c)
  <2>1. CallFails(c) => LeavesOwner
    BY SameOwners DEF CallFails, KeepTables
  <2>2. LeavesOwner
    BY <1>1, <1>3, <2>1, InviteOwner, RemoveOwner, RoleOwner, AcceptOwner, JiraOwner,
       SignOnOwner, OtherOwner DEF CallerStep
  <2>3. QED BY <2>2 DEF LeavesOwner, LegacyEnds, LastOwnerStep
<1>4. QED BY <1>2, <1>3

\* An organization loses its last owner only by the steps that no check guards.
THEOREM LastOwnerGuarded == Spec => LastOwnerStays
<1>1. Spec => [][LastOwnerStep]_vars
  BY InvAlways, LastOwnerKept, PTL DEF Spec
<1>2. QED BY <1>1 DEF LastOwnerStays
=============================================================================
