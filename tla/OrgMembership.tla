---------------------------- MODULE OrgMembership ----------------------------
(***************************************************************************)
(* The members of one organization, "here", from their invitation to their *)
(* removal: OrganizationsService (invite, resend, revoke, role change,     *)
(* deactivate, e-mail change and merge of imported users, repair),         *)
(* AuthService (acceptance, single sign-on) and the users a migration adds.*)
(* Two tables say who belongs to it: organization_members and, for older   *)
(* accounts, users.organization_id ("home").  Nothing runs in a            *)
(* transaction: each step is one awaited statement and calls overlap.      *)
(* Other organizations appear as "else".                                   *)
(***************************************************************************)
EXTENDS Integers, FiniteSets

CONSTANTS
  Callers,      \* API calls in flight
  Users,        \* accounts, existing or not
  Founder,      \* the user who registered the organization
  MaxCalls      \* bound: calls ever made

ASSUME ConstantsAssumption ==
  /\ Founder \in Users
  /\ MaxCalls \in Nat

VARIABLES
  user,        \* users
  member,      \* organization_members of this organization: the role, or "none"
  elsewhere,   \* whether the user has a membership in another organization
  projects,    \* users that projects or issues of the organization refer to
  call,        \* calls in flight
  calls        \* calls made so far

vars == <<user, member, elsewhere, projects, call, calls>>

\* "user" stands for every role that is neither owner nor administrator.
Roles == {"owner", "administrator", "user"}

\* Bound: the roles that a change of role asks for.
NewRoles == {"owner", "administrator"}

\* link is the organization of the invitation whose token is still good: the one the
\* invitation names, or the home of the account if it names none.  jira: the account is
\* tied to one of Jira.
UserType ==
  [exists: BOOLEAN, home: {"here", "else", "none"}, role: Roles, active: BOOLEAN,
   invite: {"none", "pending", "accepted", "expired"}, password: BOOLEAN,
   link: {"none", "here", "else", "home"}, jira: BOOLEAN]

\* The statement a call is about to make.
Stages ==
  {"idle", "failed", "invite_insert", "invite_create", "invite_member", "send",
   "role_count", "role_save", "role_user", "deact_count", "deact_remove", "deact_others",
   "deact_disable", "resend_pending", "revoke_remove", "revoke_count", "revoke_delete",
   "revoke_detach", "accept_activate", "expired_save", "accept_strip", "accept_home",
   "home_save", "accept_member", "accept_clear", "clear_save", "repair", "row_save",
   "email_save", "merge", "import_member", "oauth_member", "saml_create", "saml_member"}

\* row and role are the target's users row and membership as the call loaded them, again is
\* the row as UsersService.update has loaded it for the call, from is the account to be
\* merged into it.  dirty tells what other calls have changed since: the owners, the target's
\* row, as it was last read, or memberships.
CallType ==
  [pc: Stages,
   target: Users, from: Users, row: UserType, again: UserType, role: Roles \cup {"none"},
   new: Roles, dirty: SUBSET {"owners", "row", "membership"}]

Absent == [exists |-> FALSE, home |-> "none", role |-> "user", active |-> FALSE,
           invite |-> "none", password |-> FALSE, link |-> "none", jira |-> FALSE]

NoCall == [pc |-> "idle", target |-> Founder, from |-> Founder, row |-> Absent,
           again |-> Absent, role |-> "none", new |-> "user", dirty |-> {}]

TypeOK ==
  /\ user \in [Users -> UserType]
  /\ member \in [Users -> Roles \cup {"none"}]
  /\ elsewhere \in [Users -> BOOLEAN]
  /\ projects \subseteq Users
  /\ call \in [Callers -> CallType]
  /\ calls \in 0..MaxCalls

-----------------------------------------------------------------------------
(* Helpers                                                                 *)

Joined(u) == member[u] # "none"

\* Owners without a membership, as far as an account can be used.
LegacyOwners ==
  {u \in Users : /\ user[u].exists /\ user[u].home = "here" /\ user[u].role = "owner"
                 /\ user[u].active /\ ~Joined(u)}

MemberOwners == {u \in Users : member[u] = "owner"}
Owners == MemberOwners \cup LegacyOwners

\* Whom getMembers returns.
Listed(u) ==
  user[u].exists /\ (Joined(u) \/ (user[u].home = "here" /\ user[u].active))

\* The role the organization sees.
RoleHere(u) == IF Joined(u) THEN member[u] ELSE user[u].role

At(c, pc) == call[c].pc = pc
Idle(c) == call[c].pc \in {"idle", "failed"}
Target(c) == call[c].target

\* What a call changes tells the other calls under way that what they have read is old, but
\* for those that use nothing they have read.  The first conjuncts of a step come before
\* this one and give the new tables.  The mark of a failed call lasts for one step.
Dirtied(c, next) ==
  [d \in Callers |->
    IF d = c THEN next
    ELSE IF Idle(d) THEN NoCall
    ELSE IF call[d].pc \in {"send", "import_member"} THEN call[d]
    ELSE [call[d] EXCEPT !.dirty =
            @ \cup (IF Owners' # Owners THEN {"owners"} ELSE {})
              \cup (IF user'[Target(d)] # user[Target(d)] THEN {"row"} ELSE {})
              \cup (IF \/ member'[Target(d)] # member[Target(d)]
                       \/ elsewhere'[Target(d)] # elsewhere[Target(d)]
                    THEN {"membership"} ELSE {})]]

Go(c, next) == call' = Dirtied(c, next) /\ UNCHANGED <<projects, calls>>
GoTo(c, pc) == Go(c, [call[c] EXCEPT !.pc = pc])
Done(c) == Go(c, NoCall)
Needing(pc, u) == [NoCall EXCEPT !.pc = pc, !.target = u]
ToSend(c) == Go(c, Needing("send", Target(c)))
Fail(c) == Go(c, [NoCall EXCEPT !.pc = "failed"])

SetUser(u, row) == user' = [user EXCEPT ![u] = row]
SetMember(u, role) == member' = [member EXCEPT ![u] = role]
KeepTables == UNCHANGED <<user, member, elsewhere>>

Starts(c, next) ==
  /\ Idle(c)
  /\ calls < MaxCalls
  /\ calls' = calls + 1
  /\ call' = Dirtied(c, next)
  /\ UNCHANGED projects

\* A call begins with what it reads of its target, and uses later.
Begin(c, pc, u, new) ==
  /\ KeepTables
  /\ Starts(c, [Needing(pc, u) EXCEPT !.row = user[u], !.role = member[u], !.new = new])

\* The process dies or a statement fails; what was written stays.
CallFails(c) == ~Idle(c) /\ KeepTables /\ Fail(c)

\* The account belongs to the organization as far as the loaded rows tell.
Belongs(u) == user[u].exists /\ (Joined(u) \/ user[u].home = "here")

\* The others than the founder: no account yet, a placeholder of a file import or of a
\* migration, an account of another organization, a second owner whose home is here or
\* elsewhere.  A migrated account without an e-mail of its own is active.
Placeholder == [Absent EXCEPT !.exists = TRUE, !.home = "here"]
Migrated(real) == [Placeholder EXCEPT !.jira = TRUE, !.active = ~real,
                                      !.invite = IF real THEN "pending" ELSE "none"]
Account(home, role) == [Absent EXCEPT !.exists = TRUE, !.home = home, !.role = role,
                                      !.active = TRUE, !.password = TRUE]

Beginnings ==
  {[row |-> Absent, here |-> "none", elsewhere |-> FALSE],
   [row |-> Placeholder, here |-> "user", elsewhere |-> FALSE],
   [row |-> Migrated(FALSE), here |-> "user", elsewhere |-> FALSE],
   [row |-> Account("else", "owner"), here |-> "none", elsewhere |-> TRUE],
   [row |-> Account("else", "user"), here |-> "owner", elsewhere |-> TRUE],
   [row |-> Account("here", "owner"), here |-> "owner", elsewhere |-> FALSE]}

Init ==
  /\ \E start \in [Users -> Beginnings] :
       /\ start[Founder].row = Account("here", "owner")
       /\ user = [u \in Users |-> start[u].row]
       /\ member = [u \in Users |-> start[u].here]
       /\ elsewhere = [u \in Users |-> start[u].elsewhere]
  /\ projects \in SUBSET {u \in Users \ {Founder} : user[u].exists}
  /\ call = [c \in Callers |-> NoCall]
  /\ calls = 0

-----------------------------------------------------------------------------
(* Invitation                                                              *)

\* An account of that e-mail is added to the organization, unless it is in it.
InviteKnown(c, u, inviter, role) ==
  /\ user[u].exists /\ ~Joined(u)
  /\ role = "owner" => RoleHere(inviter) = "owner"
  /\ Begin(c, "invite_insert", u, role)

InviteNew(c, u, inviter, role) ==
  /\ ~user[u].exists
  /\ role = "owner" => RoleHere(inviter) = "owner"
  /\ Begin(c, "invite_create", u, role)

\* The insert skips a membership that is there by now; its foreign key needs the account.
\* Accounts that have accepted an invitation before get no link.
InviteInsert(c) ==
  LET u == Target(c) IN
  /\ At(c, "invite_insert")
  /\ user[u].exists
  /\ IF Joined(u) THEN UNCHANGED member ELSE SetMember(u, call[c].new)
  /\ UNCHANGED <<user, elsewhere>>
  /\ IF call[c].row.invite = "accepted" THEN Done(c) ELSE ToSend(c)

\* The e-mail is unique: a second insert fails.
InviteCreate(c) ==
  LET u == Target(c) IN
  /\ At(c, "invite_create")
  /\ ~user[u].exists
  /\ SetUser(u, [Absent EXCEPT !.exists = TRUE, !.home = "here", !.role = call[c].new,
                               !.invite = "pending"])
  /\ UNCHANGED <<member, elsewhere>>
  /\ GoTo(c, "invite_member")

InviteMember(c) ==
  LET u == Target(c) IN
  /\ At(c, "invite_member")
  /\ user[u].exists
  /\ IF Joined(u) THEN UNCHANGED member ELSE SetMember(u, call[c].new)
  /\ UNCHANGED <<user, elsewhere>>
  /\ ToSend(c)

\* One of the accounts of bulkInvitePending, as the list had it: invited, without a link.
BulkInvite(c, u) ==
  /\ user[u].exists /\ user[u].home = "here" /\ user[u].invite = "pending"
  /\ KeepTables
  /\ Starts(c, Needing("send", u))

\* generateAndSendInvitation.  An update of an account that is gone changes nothing.
Linked(row, org) ==
  IF row.exists THEN [row EXCEPT !.invite = "pending", !.link = org] ELSE row

Send(c) ==
  LET u == Target(c) IN
  /\ At(c, "send")
  /\ SetUser(u, Linked(user[u], "here"))
  /\ UNCHANGED <<member, elsewhere>>
  /\ Done(c)

ResendLoad(c, u) ==
  /\ Belongs(u)
  /\ user[u].invite \in {"pending", "expired"}
  /\ KeepTables
  /\ Starts(c, Needing("resend_pending", u))

\* An account that is gone at the second read ends the call with an error.
ResendPending(c) ==
  LET u == Target(c) IN
  /\ At(c, "resend_pending")
  /\ UNCHANGED <<member, elsewhere>>
  /\ IF user[u].exists
     THEN SetUser(u, [user[u] EXCEPT !.invite = "pending"]) /\ ToSend(c)
     ELSE UNCHANGED user /\ Fail(c)

-----------------------------------------------------------------------------
(* Revocation of an invitation                                             *)

RevokeLoad(c, u) ==
  /\ Belongs(u)
  /\ user[u].invite \notin {"accepted", "none"}
  /\ Begin(c, "revoke_remove", u, "user")

\* remove() of a membership that is gone already changes nothing.
RevokeRemove(c) ==
  /\ At(c, "revoke_remove")
  /\ IF call[c].role # "none" THEN SetMember(Target(c), "none") ELSE UNCHANGED member
  /\ UNCHANGED <<user, elsewhere>>
  /\ GoTo(c, "revoke_count")

\* The account itself goes when nothing else holds it.
\* Mutant: an account with a password goes too.
RevokeCountAny(c) ==
  LET u == Target(c) IN
  /\ At(c, "revoke_count")
  /\ KeepTables
  /\ IF ~Joined(u) /\ ~elsewhere[u] THEN GoTo(c, "revoke_delete")
     ELSE GoTo(c, "revoke_detach")

RevokeCount(c) ==
  LET u == Target(c) IN
  /\ At(c, "revoke_count")
  /\ KeepTables
  /\ IF ~Joined(u) /\ ~elsewhere[u] /\ ~call[c].row.password THEN GoTo(c, "revoke_delete")
     ELSE GoTo(c, "revoke_detach")

\* Mutant: the status of the update is accepted.
RevokeDeleteSoft(c) ==
  LET u == Target(c) IN
  /\ At(c, "revoke_delete")
  /\ IF u \in projects
     THEN /\ SetUser(u, [user[u] EXCEPT !.active = FALSE, !.invite = "revoked", !.home = "none"])
          /\ UNCHANGED <<member, elsewhere>>
     ELSE /\ SetUser(u, Absent)
          /\ SetMember(u, "none")
          /\ elsewhere' = [elsewhere EXCEPT ![u] = FALSE]
  /\ Done(c)

\* Memberships go with the account.  One that projects refer to stays: the update that
\* follows writes a status the CHECK of the table refuses, and the call fails.
RevokeDelete(c) ==
  LET u == Target(c) IN
  /\ At(c, "revoke_delete")
  /\ IF u \in projects THEN KeepTables /\ Fail(c)
     ELSE /\ SetUser(u, Absent)
          /\ SetMember(u, "none")
          /\ elsewhere' = [elsewhere EXCEPT ![u] = FALSE]
          /\ Done(c)

\* Mutant: the home of the account stays.
RevokeDetachNothing(c) ==
  /\ At(c, "revoke_detach")
  /\ KeepTables
  /\ Done(c)

RevokeDetach(c) ==
  LET u == Target(c) IN
  /\ At(c, "revoke_detach")
  /\ IF call[c].row.home = "here" /\ user[u].exists
     THEN SetUser(u, [user[u] EXCEPT !.home = "none"])
     ELSE UNCHANGED user
  /\ UNCHANGED <<member, elsewhere>>
  /\ Done(c)

-----------------------------------------------------------------------------
(* Role of a member                                                        *)

MayChange(actor, u, new) ==
  IF new = "owner" \/ RoleHere(u) = "owner" THEN RoleHere(actor) = "owner"
  ELSE RoleHere(actor) \in {"owner", "administrator"}

RoleLoad(c, u, actor, new) ==
  /\ Belongs(u)
  /\ MayChange(actor, u, new)
  /\ Begin(c, IF RoleHere(u) = "owner" /\ new # "owner" THEN "role_count" ELSE "role_save",
           u, new)

\* Mutant: the last owner may still be changed.
RoleCountLoose(c) ==
  /\ At(c, "role_count")
  /\ KeepTables
  /\ IF Cardinality(Owners) = 0 THEN Fail(c) ELSE GoTo(c, "role_save")

RoleCount(c) ==
  /\ At(c, "role_count")
  /\ KeepTables
  /\ IF Cardinality(Owners) <= 1 THEN Fail(c) ELSE GoTo(c, "role_save")

\* save() inserts the membership again when it is gone, if the account is still there.
RoleSave(c) ==
  LET u == Target(c) IN
  /\ At(c, "role_save")
  /\ IF call[c].role = "none" THEN UNCHANGED member
     ELSE user[u].exists /\ SetMember(u, call[c].new)
  /\ UNCHANGED <<user, elsewhere>>
  /\ IF call[c].row.home = "here" THEN GoTo(c, "role_user") ELSE Done(c)

\* save() writes the row as it was loaded, with the new role.
RoleUser(c) ==
  /\ At(c, "role_user")
  /\ SetUser(Target(c), [call[c].row EXCEPT !.role = call[c].new])
  /\ UNCHANGED <<member, elsewhere>>
  /\ Done(c)

-----------------------------------------------------------------------------
(* Deactivation                                                            *)

\* The owner check asks the role of the account, not that of the membership.
DeactLoad(c, u, actor) ==
  /\ u # actor
  /\ Belongs(u)
  /\ Begin(c, IF user[u].role = "owner" THEN "deact_count" ELSE "deact_remove", u, "user")

DeactCount(c) ==
  /\ At(c, "deact_count")
  /\ KeepTables
  /\ IF Cardinality(MemberOwners) <= 1 THEN Fail(c) ELSE GoTo(c, "deact_remove")

DeactRemove(c) ==
  LET u == Target(c) IN
  /\ At(c, "deact_remove")
  /\ IF call[c].role # "none"
     THEN SetMember(u, "none") /\ UNCHANGED user
     ELSE UNCHANGED member /\ SetUser(u, [user[u] EXCEPT !.active = FALSE])
  /\ UNCHANGED elsewhere
  /\ GoTo(c, "deact_others")

DeactOthers(c) ==
  LET u == Target(c) IN
  /\ At(c, "deact_others")
  /\ KeepTables
  /\ IF ~Joined(u) /\ ~elsewhere[u] /\ call[c].role # "none" THEN GoTo(c, "deact_disable")
     ELSE Done(c)

DeactDisable(c) ==
  LET u == Target(c) IN
  /\ At(c, "deact_disable")
  /\ SetUser(u, [user[u] EXCEPT !.active = FALSE])
  /\ UNCHANGED <<member, elsewhere>>
  /\ Done(c)

-----------------------------------------------------------------------------
(* Acceptance                                                              *)

InviteOrg(row) == IF row.link = "home" THEN row.home ELSE row.link

\* The holder of a good link takes it; call.new holds the role for a new membership.
AcceptLoad(c, u) ==
  /\ user[u].exists /\ InviteOrg(user[u]) # "none"
  /\ user[u].invite \notin {"accepted", "none"}
  /\ Begin(c, "accept_activate", u, user[u].role)

\* UsersService.update: the row is read again, and saved as a whole.
ReadAgain(c, pc) ==
  LET u == Target(c) IN
  /\ KeepTables
  /\ IF user[u].exists
     THEN Go(c, [call[c] EXCEPT !.pc = pc, !.again = user[u], !.dirty = @ \ {"row"}])
     ELSE Fail(c)

SaveAgain(c, row) == SetUser(Target(c), row) /\ UNCHANGED <<member, elsewhere>>
Saved(c, pc) == Go(c, [call[c] EXCEPT !.pc = pc, !.again = Absent])

\* ... too late, whether it is used or only looked at.
AcceptExpired(c) == At(c, "accept_activate") /\ ReadAgain(c, "expired_save")

ExpiredSave(c) ==
  /\ At(c, "expired_save")
  /\ SaveAgain(c, [call[c].again EXCEPT !.invite = "expired"])
  /\ Fail(c)

\* activateInvitedUser.  Updates of an account that is gone change nothing.
AcceptActivate(c) ==
  LET u == Target(c) IN
  /\ At(c, "accept_activate")
  /\ SetUser(u, IF user[u].exists
                THEN [user[u] EXCEPT !.password = TRUE, !.active = TRUE,
                                     !.invite = "accepted", !.link = "none"]
                ELSE user[u])
  /\ UNCHANGED <<member, elsewhere>>
  /\ GoTo(c, IF call[c].row.password THEN "accept_home" ELSE "accept_strip")

\* The first activation drops the memberships of every other organization.
AcceptStrip(c) ==
  LET u == Target(c) IN
  /\ At(c, "accept_strip")
  /\ IF InviteOrg(call[c].row) = "here"
     THEN elsewhere' = [elsewhere EXCEPT ![u] = FALSE] /\ UNCHANGED member
     ELSE SetMember(u, "none") /\ UNCHANGED elsewhere
  /\ UNCHANGED user
  /\ GoTo(c, "accept_home")

AcceptHome(c) ==
  /\ At(c, "accept_home")
  /\ IF call[c].row.home = "none" THEN ReadAgain(c, "home_save")
     ELSE KeepTables /\ GoTo(c, "accept_member")

HomeSave(c) ==
  /\ At(c, "home_save")
  /\ SaveAgain(c, [call[c].again EXCEPT !.home = InviteOrg(call[c].row)])
  /\ Saved(c, "accept_member")

\* A membership the organization of the link lacks is inserted.
AcceptMember(c) ==
  LET u == Target(c)
      here == InviteOrg(call[c].row) = "here" IN
  /\ At(c, "accept_member")
  /\ user[u].exists
  /\ IF here /\ ~Joined(u) THEN SetMember(u, call[c].new) ELSE UNCHANGED member
  /\ elsewhere' = [elsewhere EXCEPT ![u] = @ \/ ~here]
  /\ UNCHANGED user
  /\ GoTo(c, "accept_clear")

AcceptClear(c) == At(c, "accept_clear") /\ ReadAgain(c, "clear_save")

\* The invitation names no organization any more, nor does one sent before the second read.
ClearSave(c) ==
  /\ At(c, "clear_save")
  /\ SaveAgain(c, [call[c].again EXCEPT !.link = IF @ # "none" THEN "home" ELSE @])
  /\ IF InviteOrg(call[c].row) = "here" THEN Saved(c, "repair") ELSE Done(c)

\* repairOrgMemberships: whoever the projects refer to gets a membership.
\* Mutant: an upsert, which writes the role of those who have one.
RepairedAll ==
  [u \in Users |-> IF u \in projects /\ user[u].exists THEN "user" ELSE member[u]]

Repaired ==
  [u \in Users |->
    IF u \in projects /\ user[u].exists /\ ~Joined(u) THEN "user" ELSE member[u]]

RepairAfter(c) ==
  /\ At(c, "repair")
  /\ member' = Repaired
  /\ UNCHANGED <<user, elsewhere>>
  /\ Done(c)

-----------------------------------------------------------------------------
(* Accounts of Jira                                                        *)

\* The migration adds the account if there is none of that e-mail.
Import(c, u, real) ==
  LET row == IF user[u].exists THEN [user[u] EXCEPT !.jira = TRUE] ELSE Migrated(real) IN
  /\ SetUser(u, row)
  /\ UNCHANGED <<member, elsewhere>>
  /\ Starts(c, Needing("import_member", u))

ImportMember(c) ==
  LET u == Target(c) IN
  /\ At(c, "import_member")
  /\ user[u].exists
  /\ IF Joined(u) THEN UNCHANGED member ELSE SetMember(u, "user")
  /\ UNCHANGED <<user, elsewhere>>
  /\ Done(c)

EmailLoad(c, u) ==
  /\ Belongs(u) /\ user[u].jira
  /\ KeepTables
  /\ Starts(c, [Needing("email_save", u) EXCEPT !.row = user[u]])

\* save() writes the row as it was loaded, invited afresh.
EmailSave(c) ==
  /\ At(c, "email_save")
  /\ SetUser(Target(c), [call[c].row EXCEPT !.active = FALSE, !.invite = "pending"])
  /\ UNCHANGED <<member, elsewhere>>
  /\ ToSend(c)

\* Account v goes into account u; nothing is asked of v but to be there.  row.jira tells
\* whether u is to take over the Jira account of v.
MergeLoad(c, u, v, actor) ==
  /\ user[u].exists /\ user[v].exists
  /\ u # actor
  /\ KeepTables
  /\ Starts(c, [Needing("merge", u) EXCEPT !.from = v, !.role = member[u],
                                       !.row.jira = user[v].jira /\ ~user[u].jira])

\* One transaction.  What refers to v refers to u then; v leaves the organization and goes
\* for good with its last membership; u gets one unless it had one when the call began.  The
\* Jira account of v is not taken over while another account has it, v itself included.
Merge(c) ==
  LET u == Target(c)  v == call[c].from
      moved == IF v \in projects THEN (projects \ {v}) \cup {u} ELSE projects
      gone == ~elsewhere[v]
      left == [member EXCEPT ![v] = "none"]
      rest == [user EXCEPT ![v] = IF gone THEN Absent ELSE @]
      rows == [rest EXCEPT ![u].jira = @ \/ (call[c].row.jira /\ ~user[v].jira)]
      adds == call[c].role = "none" /\ left[u] = "none" IN
  /\ At(c, "merge")
  /\ gone => v \notin moved
  /\ v \in projects \/ adds => user[u].exists /\ ~(gone /\ u = v)
  /\ projects' = moved
  /\ member' = IF adds THEN [left EXCEPT ![u] = "user"] ELSE left
  /\ user' = IF user[u].exists /\ rows[u].exists /\ rows[u].invite # "accepted"
             THEN [rows EXCEPT ![u].active = FALSE, ![u].invite = "pending"] ELSE rows
  /\ UNCHANGED <<elsewhere, calls>>
  /\ call' = Dirtied(c, Needing("send", u))

-----------------------------------------------------------------------------
(* Single sign-on, and profiles                                            *)

\* A login that finds no membership of the account's home inserts one.
OauthLoad(c, u) ==
  /\ user[u].exists
  /\ \/ user[u].home = "here" /\ ~Joined(u)
     \/ user[u].home = "else" /\ ~elsewhere[u]
  /\ Begin(c, "oauth_member", u, user[u].role)

\* The insert fails when the membership is there by now.
OauthMember(c) ==
  LET u == Target(c) IN
  /\ At(c, "oauth_member")
  /\ user[u].exists
  /\ IF call[c].row.home = "here"
     THEN ~Joined(u) /\ SetMember(u, call[c].new) /\ UNCHANGED elsewhere
     ELSE ~elsewhere[u] /\ elsewhere' = [elsewhere EXCEPT ![u] = TRUE] /\ UNCHANGED member
  /\ UNCHANGED user
  /\ Done(c)

SamlLoad(c, u) ==
  /\ KeepTables
  /\ Starts(c, [Needing(IF ~user[u].exists THEN "saml_create"
                        ELSE IF Joined(u) THEN "repair" ELSE "saml_member", u)
               EXCEPT !.role = member[u]])

SamlCreate(c) ==
  LET u == Target(c) IN
  /\ At(c, "saml_create")
  /\ ~user[u].exists
  /\ SetUser(u, [Absent EXCEPT !.exists = TRUE, !.home = "here", !.active = TRUE])
  /\ UNCHANGED <<member, elsewhere>>
  /\ GoTo(c, "saml_member")

SamlMember(c) ==
  LET u == Target(c) IN
  /\ At(c, "saml_member")
  /\ user[u].exists /\ ~Joined(u)
  /\ SetMember(u, "user")
  /\ UNCHANGED <<user, elsewhere>>
  /\ GoTo(c, "repair")

\* A change of name or picture, by the user or an administrator, saves the loaded row.
RowLoad(c, u) ==
  /\ user[u].exists
  /\ KeepTables
  /\ Starts(c, [Needing("row_save", u) EXCEPT !.row = user[u]])

RowSave(c) ==
  /\ At(c, "row_save")
  /\ SetUser(Target(c), call[c].row)
  /\ UNCHANGED <<member, elsewhere>>
  /\ Done(c)

-----------------------------------------------------------------------------
(* Calls of one statement                                                  *)

Once(c) == Starts(c, NoCall)

\* An administrator asks for a repair.
Repair(c) ==
  /\ member' = Repaired
  /\ UNCHANGED <<user, elsewhere>>
  /\ Once(c)

\* The route that deactivates a user asks for no owner.
DeactivateUser(c, u) ==
  /\ user[u].exists /\ user[u].home = "here"
  /\ SetUser(u, [user[u] EXCEPT !.active = FALSE])
  /\ UNCHANGED <<member, elsewhere>>
  /\ Once(c)

\* The holder of a reset link sets a password, whether there was one or not.
ResetPassword(c, u) ==
  /\ user[u].exists
  /\ SetUser(u, [user[u] EXCEPT !.password = TRUE])
  /\ UNCHANGED <<member, elsewhere>>
  /\ Once(c)

\* An issue or a project comes to refer to a member.
Refer(c, u) ==
  /\ Listed(u)
  /\ Idle(c)
  /\ calls < MaxCalls
  /\ calls' = calls + 1
  /\ projects' = projects \cup {u}
  /\ KeepTables
  /\ call' = Dirtied(c, NoCall)

\* Another organization invites the account, or takes it out again.
OtherInvite(c, u) ==
  /\ ~elsewhere[u]
  /\ SetUser(u, IF ~user[u].exists
                THEN Linked([Absent EXCEPT !.exists = TRUE, !.home = "else"], "else")
                ELSE IF user[u].invite = "accepted" THEN user[u]
                ELSE Linked(user[u], "else"))
  /\ elsewhere' = [elsewhere EXCEPT ![u] = TRUE]
  /\ UNCHANGED member
  /\ Once(c)

OtherRemove(c, u) ==
  /\ elsewhere[u]
  /\ elsewhere' = [elsewhere EXCEPT ![u] = FALSE]
  /\ UNCHANGED <<user, member>>
  /\ Once(c)

-----------------------------------------------------------------------------
(* Next state                                                              *)

\* Whoever runs the organization: an owner or administrator whose account is active.
Admins == {a \in Users : /\ user[a].active /\ Belongs(a)
                          /\ RoleHere(a) \in {"owner", "administrator"}}

InviteStep(c) ==
  \/ \E u \in Users, inviter \in Admins, role \in {"owner", "user"} :
       InviteKnown(c, u, inviter, role) \/ InviteNew(c, u, inviter, role)
  \/ InviteInsert(c) \/ InviteCreate(c) \/ InviteMember(c) \/ Send(c)
  \/ \E u \in Users : Admins # {} /\ (ResendLoad(c, u) \/ BulkInvite(c, u))
  \/ ResendPending(c)

RemoveStep(c) ==
  \/ \E u \in Users : Admins # {} /\ (RevokeLoad(c, u) \/ DeactivateUser(c, u))
  \/ RevokeRemove(c) \/ RevokeCount(c) \/ RevokeDelete(c) \/ RevokeDetach(c)
  \/ \E u \in Users, actor \in Admins : DeactLoad(c, u, actor)
  \/ DeactCount(c) \/ DeactRemove(c) \/ DeactOthers(c) \/ DeactDisable(c)

RoleStep(c) ==
  \/ \E u \in Users, actor \in Admins, new \in NewRoles : RoleLoad(c, u, actor, new)
  \/ RoleCount(c) \/ RoleSave(c) \/ RoleUser(c)

AcceptStep(c) ==
  \/ \E u \in Users : AcceptLoad(c, u)
  \/ AcceptExpired(c) \/ ExpiredSave(c) \/ AcceptActivate(c) \/ AcceptStrip(c)
  \/ AcceptHome(c) \/ HomeSave(c) \/ AcceptMember(c) \/ AcceptClear(c) \/ ClearSave(c)
  \/ RepairAfter(c)

JiraStep(c) ==
  \/ \E u \in Users, real \in BOOLEAN : Import(c, u, real)
  \/ \E u \in Users : Admins # {} /\ EmailLoad(c, u)
  \/ \E u, v \in Users, actor \in Admins : MergeLoad(c, u, v, actor)
  \/ ImportMember(c) \/ EmailSave(c) \/ Merge(c)

SignOnStep(c) ==
  \/ \E u \in Users : OauthLoad(c, u) \/ SamlLoad(c, u) \/ RowLoad(c, u) \/ ResetPassword(c, u)
  \/ OauthMember(c) \/ SamlCreate(c) \/ SamlMember(c) \/ RowSave(c)

OtherStep(c) ==
  \/ Admins # {} /\ Repair(c)
  \/ \E u \in Users : Refer(c, u) \/ OtherInvite(c, u) \/ OtherRemove(c, u)

Next ==
  \E c \in Callers :
    InviteStep(c) \/ RemoveStep(c) \/ RoleStep(c) \/ AcceptStep(c) \/ JiraStep(c)
      \/ SignOnStep(c) \/ OtherStep(c) \/ CallFails(c)

Spec == Init /\ [][Next]_vars

-----------------------------------------------------------------------------
(* Properties                                                              *)

Clean(c) == call[c].dirty = {}

\* The step is one of this call: a call under way moves on or ends with every step.
Acts(c) == call'[c].pc # call[c].pc

\* The call ends, and not with an error.
Ends(c) == call'[c].pc = "idle"

\* An organization loses its last owner only where no check guards it: by a call whose
\* count another call has outrun, by the deactivation of an owner whose account has another
\* role (the check looks at that one), by the revocation of an invitation, whichever
\* organization sent it, by one accepted elsewhere for the first time, by the merge of an
\* account, by a row that UsersService.update saves as it read it before another call changed
\* it, by an acceptance that sets the home of an account although another call has set one,
\* and, for an owner of the older kind, by a membership or by an account switched off
\* (organizations.service.ts:357-380, 430-438, 531, 735; users.service.ts:120-124, 190-199;
\* auth.service.ts:863-871).
Unguarded(c) ==
  \/ "owners" \in call[c].dirty
  \/ At(c, "deact_remove") /\ call[c].row.role # "owner"
  \/ call[c].pc \in {"revoke_remove", "revoke_detach", "revoke_delete", "accept_strip", "merge"}
  \/ call[c].pc \in {"expired_save", "home_save", "clear_save", "row_save"}
       /\ "row" \in call[c].dirty
  \/ At(c, "home_save") /\ call[c].again.home # "none"

LastOwnerStep ==
  Owners # {} /\ Owners' = {} =>
    \/ \E c \in Callers : Acts(c) /\ Unguarded(c)
    \/ \E u \in LegacyOwners : Joined(u)' \/ ~user'[u].active

LastOwnerStays == [][LastOwnerStep]_vars

\* An account that has a password keeps it, and stays, unless it is merged into another one
\* or a call writes or deletes the row as it read it before another call changed it: a change
\* of role, name or e-mail, a revocation, and the three updates of an acceptance, that of an
\* expired link among them, which can be saved over a password just set
\* (organizations.service.ts:294, 392, 547, 632, 758; users.service.ts:120-124;
\* auth.service.ts:770, 827, 865, 893).
ActivationStep ==
  \A u \in Users :
    user[u].password /\ ~user'[u].password =>
      \E c \in Callers :
        /\ Acts(c)
        /\ \/ At(c, "merge") /\ call[c].from = u
           \/ /\ Target(c) = u /\ "row" \in call[c].dirty
              /\ call[c].pc \in {"role_user", "row_save", "email_save", "revoke_delete",
                                 "expired_save", "home_save", "clear_save"}

ActivationKept == [][ActivationStep]_vars

\* A deactivation or revocation that no other call disturbed ends with the user off the
\* list, but for a user whose home is here and who stays in another organization
\* (organizations.service.ts:441-455, 531-565).
RemovedOutStep ==
  \A c \in Callers, u \in Users :
    /\ call[c].pc \in {"deact_others", "deact_disable", "revoke_delete", "revoke_detach"}
    /\ Target(c) = u /\ Clean(c) /\ Ends(c)
    => ~Listed(u)' \/ (At(c, "deact_others") /\ elsewhere[u])

RemovedOut == [][RemovedOutStep]_vars

\* Whoever accepts an invitation or signs on through the organization is in the end a member
\* of it, with the role the membership had before: the first activation drops memberships,
\* the steps after it create the one that lacks and the repair touches no other
\* (auth.service.ts:838-885, 939-975, organizations.service.ts:945-966).
AcceptedInStep ==
  \A c \in Callers, u \in Users :
    /\ At(c, "repair") /\ Target(c) = u
    /\ "membership" \notin call[c].dirty /\ Ends(c)
    => Joined(u)' /\ (call[c].role # "none" => member'[u] = call[c].role)

AcceptedIn == [][AcceptedInStep]_vars
=============================================================================
