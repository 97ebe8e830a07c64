----------------------------- MODULE Membership -----------------------------
(***************************************************************************)
(* The members of one group and the invitations to it: GroupService.createOne *)
(* and assertMemberLimitAllowsNewMembers, UserGroupService and             *)
(* GroupInvitationService.                                                 *)
(*                                                                         *)
(* No table here has an index or a foreign key, so whatever holds is kept  *)
(* by the reads that precede each insert.  A call is one of these          *)
(* functions in flight.  It starts with its first read, when that read     *)
(* lets it go on: one that is refused there changes nothing.  From then on *)
(* every action is one awaited statement.                                  *)
(***************************************************************************)
EXTENDS Integers, FiniteSets

CONSTANTS
    Users,       \* accounts
    Owner,       \* the one that creates the group
    Limits,      \* limitMembers of the plans; 0 is "unlimited"
    FreeLimit,   \* limitMembers of the FREE plan
    Calls,       \* bound: calls in flight at once
    MaxRows,     \* bound: rows of one user in the table or in a call's hands
    MaxInvites   \* bound: the same for invitations

ASSUME OwnerAssumption == Owner \in Users
ASSUME LimitsAssumption == Limits \subseteq Nat /\ {0, FreeLimit} \subseteq Limits
ASSUME CallsAssumption == IsFiniteSet(Calls) /\ Calls # {}
ASSUME MembershipBounds == MaxRows \in Nat \ {0} /\ MaxInvites \in Nat

VARIABLES
    memberRows,   \* user_group rows
    invitations,  \* group_invitation rows
    limit,        \* limitMembers of the current plan; NoGroup before creation
    peak,         \* history: the highest limit so far, 0 if ever unlimited
    call,         \* the calls in flight
    alone         \* history: no two calls overlapped and none died

membershipVars == <<memberRows, invitations, limit, peak, call, alone>>

-----------------------------------------------------------------------------
(* Rows and calls *)

NoGroup == -1

\* `by` is what added_by tells: the creator, the sender of the invitation, or
\* nobody ("") when a member was added directly.
MemberRow == [user : Users, n : 1 .. MaxRows, by : {"create", "accept", "add"}]

\* The sender only decides who may cancel, and somebody always may.
Invitation == [to : Users, n : 1 .. MaxInvites]

\* A value of `row` and `invitation` that a call at another statement ignores.
OwnerRow == [user |-> Owner, n |-> 1, by |-> "create"]
NoInvitation == [to |-> Owner, n |-> 0]

Call == [pc : {"idle", "limit", "count", "member", "pending", "invite", "join",
               "drop", "existing", "touch", "add", "purge", "remove"},
         op : {"none", "invite", "accept"},
         user : Users, limit : Limits,
         invitation : Invitation \cup {NoInvitation}, row : MemberRow]

IdleCall == [pc |-> "idle", op |-> "none", user |-> Owner, limit |-> 0,
             invitation |-> NoInvitation, row |-> OwnerRow]

\* isMember, getMemberByGroupAndUser.
RowsOf(u) == {r \in memberRows : r.user = u}

\* getMemberCount: rows are counted, not users.
MemberCount == Cardinality(memberRows)

\* getInvitationsCount.
InvitationsTo(u) == {i \in invitations : i.to = u}

\* GroupGuard, GroupService.findOne: the creator and the members.
HasAccess(u) == limit # NoGroup /\ (u = Owner \/ RowsOf(u) # {})

-----------------------------------------------------------------------------
(* Steps of a call *)

Start(c, to) ==
    /\ call[c].pc = "idle"
    /\ call' = [call EXCEPT ![c] = to]
    /\ alone' = (alone /\ \A d \in Calls \ {c} : call[d].pc = "idle")

\* Call c goes from statement pc to statement next, with only what it still needs.
Goto(c, pc, next) ==
    /\ call[c].pc = pc
    /\ call' = [call EXCEPT ![c] =
           CASE next = "idle" -> IdleCall
             [] next = "drop" -> [IdleCall EXCEPT !.pc = next, !.invitation = call[c].invitation]
             [] next = "remove" -> [IdleCall EXCEPT !.pc = next, !.row = call[c].row]
             [] OTHER -> [@ EXCEPT !.pc = next, !.limit = 0]]
    /\ UNCHANGED alone

\* Ids are random in the code. Here they are numbers, and one that no row and no
\* call holds any more may be used again.
Fresh(n, used) == n \notin used /\ 1 .. (n - 1) \subseteq used

RowIds(u) == {r.n : r \in RowsOf(u)} \cup {call[c].row.n : c \in {d \in Calls :
                 call[d].row.user = u /\ call[d].pc \in {"touch", "purge", "remove"}}}

InvitationIds(u) == {i.n : i \in InvitationsTo(u)} \cup
                    {call[c].invitation.n : c \in {d \in Calls : call[d].invitation.to = u}}

InsertRow(u, by) ==
    \E n \in 1 .. MaxRows :
        /\ Fresh(n, RowIds(u))
        /\ memberRows' = memberRows \cup {[user |-> u, n |-> n, by |-> by]}

\* UserGroupRepository.save of a row read earlier: TypeORM looks the id up and
\* inserts the row again when it was deleted meanwhile.
SaveRow(row) ==
    memberRows' = {r \in memberRows : <<r.user, r.n>> # <<row.user, row.n>>} \cup {row}

\* remove and delete go by id and find nothing to do when the row is gone.
RemoveRow(row) ==
    memberRows' = {r \in memberRows : <<r.user, r.n>> # <<row.user, row.n>>}

-----------------------------------------------------------------------------
(* The group *)

\* createOne: one database transaction. A missing FREE plan, or an error while
\* attaching it, is caught, and the group starts with no plan and no limit.
CreateGroup ==
    /\ limit = NoGroup
    /\ memberRows' = {OwnerRow}
    /\ \E l \in {FreeLimit, 0} : limit' = l /\ peak' = l
    /\ UNCHANGED <<invitations, call, alone>>

Higher(a, b) == IF a = 0 \/ b = 0 THEN 0 ELSE IF a < b THEN b ELSE a

\* Another plan becomes current (GroupPlan), at any time.
ChangePlan ==
    /\ limit # NoGroup
    /\ limit' \in Limits
    /\ peak' = Higher(peak, limit')
    /\ UNCHANGED <<memberRows, invitations, call, alone>>

\* assertMemberLimitAllowsNewMembers: the plan is read, then the rows counted.
Admitted(c) == IF call[c].op = "invite" THEN "member" ELSE "join"

\* Mutant: one seat too many is read.
MutReadLimit(c) ==
    /\ call[c].pc = "limit"
    /\ call' = [call EXCEPT ![c].limit = limit + 1, ![c].pc = "count"]
    /\ UNCHANGED <<memberRows, invitations, limit, peak, alone>>

ReadLimit(c) ==
    /\ call[c].pc = "limit"
    /\ call' = [call EXCEPT ![c].limit = limit,
                            ![c].pc = IF limit = 0 THEN Admitted(c) ELSE "count"]
    /\ UNCHANGED <<memberRows, invitations, limit, peak, alone>>

\* Mutant: the members are compared without the one to come.
MutCountMembers(c) ==
    /\ Goto(c, "count", IF MemberCount > call[c].limit THEN "idle" ELSE Admitted(c))
    /\ UNCHANGED <<memberRows, invitations, limit, peak>>

CountMembers(c) ==
    /\ Goto(c, "count", IF MemberCount + 1 > call[c].limit THEN "idle" ELSE Admitted(c))
    /\ UNCHANGED <<memberRows, invitations, limit, peak>>

-----------------------------------------------------------------------------
(* Invitations *)

\* GroupInvitationService.createOne and validateBeforeCreate.
Invite(c) ==
    /\ \E from, to \in Users :
          /\ from # to
          /\ HasAccess(from)
          /\ Start(c, [IdleCall EXCEPT !.pc = "limit", !.op = "invite",
                                       !.user = to])
    /\ UNCHANGED <<memberRows, invitations, limit, peak>>

\* Mutant: a member may be invited.
MutLookUpMember(c) ==
    /\ Goto(c, "member", "pending")
    /\ UNCHANGED <<memberRows, invitations, limit, peak>>

LookUpMember(c) ==
    /\ Goto(c, "member", IF RowsOf(call[c].user) # {} THEN "idle" ELSE "pending")
    /\ UNCHANGED <<memberRows, invitations, limit, peak>>

\* Mutant: an invited user may be invited again.
MutLookUpPending(c) ==
    /\ Goto(c, "pending", "invite")
    /\ UNCHANGED <<memberRows, invitations, limit, peak>>

LookUpPending(c) ==
    /\ Goto(c, "pending", IF InvitationsTo(call[c].user) # {} THEN "idle" ELSE "invite")
    /\ UNCHANGED <<memberRows, invitations, limit, peak>>

InsertInvitation(c) ==
    /\ Goto(c, "invite", "idle")
    /\ \E n \in 1 .. MaxInvites :
          /\ Fresh(n, InvitationIds(call[c].user))
          /\ invitations' = invitations \cup {[to |-> call[c].user, n |-> n]}
    /\ UNCHANGED <<memberRows, limit, peak>>

\* acceptInvitation, once findOne has found it.
AcceptInvitation(c) ==
    /\ \E i \in invitations :
          Start(c, [IdleCall EXCEPT !.pc = "limit", !.op = "accept",
                                    !.user = i.to, !.invitation = i])
    /\ UNCHANGED <<memberRows, invitations, limit, peak>>

\* addUserToGroup of GroupInvitationService: an insert with no lookup before it.
AddUserToGroup(c) ==
    /\ InsertRow(call[c].user, "accept")
    /\ Goto(c, "join", "drop")
    /\ UNCHANGED <<invitations, limit, peak>>

\* declineInvitation.
DeclineInvitation(c) ==
    /\ \E i \in invitations :
          Start(c, [IdleCall EXCEPT !.pc = "drop", !.invitation = i])
    /\ UNCHANGED <<memberRows, invitations, limit, peak>>

\* cancelInvitation and deleteOne.
CancelInvitation(c) ==
    /\ \E i \in invitations :
          Start(c, [IdleCall EXCEPT !.pc = "drop", !.invitation = i])
    /\ UNCHANGED <<memberRows, invitations, limit, peak>>

\* The last statement of an answer to an invitation.
DropInvitation(c) ==
    /\ Goto(c, "drop", "idle")
    /\ invitations' = invitations \ {call[c].invitation}
    /\ UNCHANGED <<memberRows, limit, peak>>

-----------------------------------------------------------------------------
(* Members *)

\* addMember of the controller, addUserToGroup of UserGroupService.
AddMember(c) ==
    /\ \E u \in Users, by \in Users :
          HasAccess(by) /\ Start(c, [IdleCall EXCEPT !.pc = "existing", !.user = u])
    /\ UNCHANGED <<memberRows, invitations, limit, peak>>

LookUpExisting(c) ==
    /\ call[c].pc = "existing"
    /\ \/ RowsOf(call[c].user) = {} /\ Goto(c, "existing", "add")
       \/ \E r \in RowsOf(call[c].user) :
             /\ call' = [call EXCEPT ![c] = [IdleCall EXCEPT !.pc = "touch", !.row = r]]
             /\ UNCHANGED alone
    /\ UNCHANGED <<memberRows, invitations, limit, peak>>

InsertMember(c) ==
    /\ InsertRow(call[c].user, "add")
    /\ Goto(c, "add", "idle")
    /\ UNCHANGED <<invitations, limit, peak>>

TouchMember(c) ==
    /\ Goto(c, "touch", "idle")
    /\ SaveRow([call[c].row EXCEPT !.by = "add"])
    /\ UNCHANGED <<invitations, limit, peak>>

\* removeMemberByGroupAndUser, which only the creator passes.
RemoveMember(c) ==
    /\ \E r \in memberRows :
          Start(c, [IdleCall EXCEPT !.pc = "purge", !.user = r.user, !.row = r])
    /\ UNCHANGED <<memberRows, invitations, limit, peak>>

PurgeInvitations(c) ==
    /\ Goto(c, "purge", "remove")
    /\ invitations' = invitations \ InvitationsTo(call[c].user)
    /\ UNCHANGED <<memberRows, limit, peak>>

\* leaveGroup.
LeaveGroup(c) ==
    /\ \E r \in memberRows :
          Start(c, [IdleCall EXCEPT !.pc = "remove", !.row = r])
    /\ UNCHANGED <<memberRows, invitations, limit, peak>>

RemoveMembership(c) ==
    /\ Goto(c, "remove", "idle")
    /\ RemoveRow(call[c].row)
    /\ UNCHANGED <<invitations, limit, peak>>

-----------------------------------------------------------------------------

\* The process dies, or the database fails one statement.
Die(c) ==
    /\ call[c].pc # "idle"
    /\ call' = [call EXCEPT ![c] = IdleCall]
    /\ alone' = FALSE
    /\ UNCHANGED <<memberRows, invitations, limit, peak>>

MembershipInit ==
    /\ memberRows = {}
    /\ invitations = {}
    /\ limit = NoGroup
    /\ peak = NoGroup
    /\ call = [c \in Calls |-> IdleCall]
    /\ alone = TRUE

\* What GroupInvitationController lets a user call.
InvitationCalls(c) ==
    Invite(c) \/ AcceptInvitation(c) \/ DeclineInvitation(c) \/ CancelInvitation(c)

\* What UserGroupController lets a user call.
MemberCalls(c) == AddMember(c) \/ RemoveMember(c) \/ LeaveGroup(c)

MembershipSteps(c) ==
    \/ ReadLimit(c) \/ CountMembers(c) \/ LookUpMember(c) \/ LookUpPending(c)
    \/ InsertInvitation(c) \/ AddUserToGroup(c) \/ DropInvitation(c)
    \/ LookUpExisting(c) \/ InsertMember(c) \/ TouchMember(c)
    \/ PurgeInvitations(c) \/ RemoveMembership(c)

MembershipNext ==
    \/ CreateGroup
    \/ ChangePlan
    \/ \E c \in Calls : InvitationCalls(c) \/ MemberCalls(c) \/ MembershipSteps(c) \/ Die(c)

MembershipSpec == MembershipInit /\ [][MembershipNext]_membershipVars

-----------------------------------------------------------------------------
(* Properties *)

MembershipTypeOK ==
    /\ memberRows \subseteq MemberRow
    /\ invitations \subseteq Invitation
    /\ limit \in Limits \cup {NoGroup}
    /\ peak \in Limits \cup {NoGroup}
    /\ call \in [Calls -> Call]
    /\ alone \in BOOLEAN

\* Rows that were not added directly, which no limit restrains.
Counted == {r \in memberRows : r.by # "add"}

\* The member limit is compared with a count that is old when the row is
\* inserted, so n calls at once can pass it, but by n - 1 rows at most: with one
\* call at a time acceptInvitation keeps the highest limit the group has had.
AcceptedWithinLimit ==
    limit # NoGroup /\ peak # 0 =>
        Cardinality(Counted) <= peak + Cardinality(Calls) - 1

\* Calls that do not overlap never give a user a second row by invitation,
\* although acceptInvitation does not look for one: createOne invited a user who
\* was no member and had no invitation. (A direct addition may add one row.)
AcceptedOnce ==
    alone => \A r, s \in Counted : r.user = s.user => r = s

\* Calls that do not overlap leave at most one invitation to a user, and none to
\* a user who joined by invitation: no answered invitation is left behind.
PendingOrMember ==
    alone /\ (\A c \in Calls : call[c].pc = "idle") =>
        \A i \in invitations :
            InvitationsTo(i.to) = {i} /\ \A r \in Counted : r.user # i.to
=============================================================================
